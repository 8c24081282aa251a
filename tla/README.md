# FPSpy: a TLA+ verification project

FPSpy is an `LD_PRELOAD` library that watches the floating point behaviour of
an unmodified binary. In *individual* mode it unmasks the floating point
exceptions, takes the SIGFPE of each instruction that raises one, records the
event, executes the instruction again with exceptions masked in single-step
mode, and takes the SIGTRAP that follows to unmask them again. It does so in
every thread of the target, and it must "get out of the way" (abort) as soon as
the target uses the floating point environment or the signals it needs. How it is
built is chosen with a Kconfig tool, `src/scripts/menuconfig.py`, which writes the
`.config`, `config.h` and `config.mk` that the C code and the Makefile are compiled
with. This directory holds TLA+ models of both, TLC runs on small instances, and
TLAPS proofs for all instances of the tracing core, the context table, the registers, the
configuration files and the menu.

C files named below are `src/src/fpspy.c` and its neighbours; lines without a file
are of `src/scripts/menuconfig.py`.

## Inventory

| component | state it keeps | operations | correct when | modelled in |
|---|---|---|---|---|
| trap handling (`fpspy.c`: `brk_trap_handler`, `fp_trap_handler`, `sigtrap_handler`, `sigfpe_handler`) | per thread: `state`, `count`, `aborting_in_trap`; the interrupted registers | one per signal | masks and single-step flag agree with `state`; every step-over ends; each event counted once | `Individual` |
| trace buffering (`push_trace_record`, `flush_trace_records`) | per thread: `trace_records`, `trace_record_count`, the file | push, flush | the trace is every `sample_period`-th event in order, nothing lost or repeated | `Individual`, abstractly `EventLog` |
| Poisson sampler (`init_sampler`, `update_sampler`, `sigalrm_handler`) | per thread: `state`, `delayed_processing`; one interval timer per process | arm, expire, defer, switch | every OFF period ends; traps are masked exactly in OFF periods | `Individual` |
| aborting (`abort_operation`, the `fe*`, `signal`, `sigaction` wrappers) | `aborted`, the dispositions of three signals | five steps | completes; the aborted thread is silent for ever; no signal of FPSpy's reaches the target | `Individual` |
| life cycle (`fpspy_init`, `bringup`, `pthread_create`, `trampoline`, `pthread_exit`, `fpspy_deinit`, `sigint_handler`) | `inited`, the shims | start, create, exit | contexts are fresh, buffers are flushed | `Individual`, in part |
| context table (`find_`, `alloc_`, `free_monitoring_context`) | `context[]`, `context_lock` | find, alloc, free | exclusive; a thread keeps and finds its own slot | `ContextTable`, abstractly `AtomicTable` |
| control registers (`x64.c`, `arm64.c`, `riscv64.c`) | the trap mask base, the registers, `our_round_config`, `orig_round_config` | mask, unmask, clear, get and set rounding; configuration | exactly the listed exceptions trap; flags are the instruction's own; rounding is forced and put back | `FpCsr` |
| breakpoint trap mode of arm64 and riscv64 | a patched instruction in shared code | set, reset | | planned |
| riscv64 bypassed exceptions, aggregate mode, kernel module | | | | planned |
| Kconfig parsing and the menu tree (`menuconfig.py`: `Kconfig._init`, `_parse_block`, `_parse_props`, `_parse_expr`, `_finalize_node`, `_propagate_deps`, `_build_dep`, `_check_dep_loop_sym`) | the tree of `MenuNode`s, the properties of symbols and choices, `_dependents` | parse, finalize, check | the tree holds what the text says, in its order and under its conditions; loops and errors are rejected and nothing else is | `KconfigTree` |
| values (`Symbol`, `Choice`, `expr_value`, `_visibility`) | `user_value`, `user_selection`, five cached attributes, `_write_to_conf` | set, unset, read, invalidate | no cached value is stale; assignable values are the ones that take effect; one symbol of a choice is y | `KconfigValues`, `KconfigSession` |
| configuration files (`load_config`, `write_config`, `write_autoconf`, `_config_mk_write`, `write_min_config`, `sync_deps`) | `.config`, `include/config.h`, `config.mk`, `auto.conf`, the symbol files | load, save, synchronise | what is written loads as what it was; files agree after a save, whatever crashed before; what changed is compiled again | `KconfigFile`, `KconfigLiterals`, `ConfigStore` |
| menu interface (`menuconfig()` and everything after it) | `_cur_menu`, `_shown`, `_sel_node_i`, `_menu_scroll`, `_show_all`, `_conf_changed` | one per key | the cursor is on a node that is shown and on the screen; the list is current; no change is lost without a question | `MenuTree`, `Menuconfig` |
| `libtrace`, `trace_print`, analysis scripts, tests | files, text | | | not modelled |

The components interact through the thread's saved registers (a handler edits
the `ucontext_t` it was given), through signals a thread sends itself
(`kick_self`), through process-wide state (`aborted`, `orig_round_config`, the
dispositions, the timer), and through the context table, which every handler
searches first.

The configuration tool is a program of its own, and sequential. Its parts work on one
`Kconfig` object; it meets the rest of the system through the files it writes.

What is hard in the tracing core: signals arrive between any two instructions and are blocked
only inside the handlers, and SIGTRAP not even in that of SIGALRM; dispositions and the timer belong to the process
while masks, stepping and buffers belong to a thread; an abort takes several
system calls while other threads run; a context slot is reused with what its
last owner left in it. What is hard in the configuration tool: values are cached
and invalidated along dependency sets computed once, over an evaluation that stops
early; loading a file sets and unsets in an order that passes through states nobody
asked for; the interface keeps positions in lists that every change recomputes; and
four files are written one after the other by processes that may die.
`PROJECT.json` lists these hazards at their lines, each
with the properties that guard it.

## Modules

### Individual

One process, any number of threads. A signal handler is one action, since it
changes only its own thread's context and registers, and the handlers of SIGFPE and
SIGTRAP run with FPSpy's other signals blocked. That of SIGALRM does not block SIGTRAP (the
mask built at fpspy.c:1659 holds SIGINT only): `AlarmTrapped` runs `brk_trap_handler()` inside it,
before its lookup or between its test of the state and what it does then, and `AlarmResumes` does the
rest. The registers `brk_trap_handler()` then edits are those of the alarm handler and are
lost when it returns (`Edited`). A SIGTRAP may interrupt FPSpy's code outside handlers as
well, `abort_operation()` called from a wrapper, the trampoline or a kick; the variable `nested` remembers that one of these happened.
`abort_operation()` is five actions per thread, because
it changes what the other threads see between its calls.

The lookups are atomic here, which `ContextTable` justifies, with one exception: a handler that interrupts
its own thread while this holds `context_lock` spins for ever. `AlarmHangs` and `TrapHangs` end in the
fate `hung`, wherever `HoldsLock` says that a lookup, an allocation or a free may be under way. Other threads
would run on until their next lookup; that is not explored.

| variable | code |
|---|---|
| `mc[t]` | `monitoring_context_t`: `state`, `count`, `inTrap` (`aborting_in_trap`), `on` and `delayed` (the sampler's), `buf` (the buffered records) |
| `tracked[t]` | a slot of `context[]` has `tid == t` |
| `uc[t]` | the registers: `mask`, `dirty` (sticky flags), `tf` (single step), `rnd` (whose rounding), `insn` (the instruction that faulted and is still to execute) |
| `pc[t]`, `back[t]` | where the thread is in FPSpy's code, and the step that `abort_operation()` returns to when it was called in a handler (`"none"` when a wrapper called it) |
| `under[t]` | the step that an interrupted `sigalrm_handler()` returns to |
| `left` | the threads inside `orig_pthread_exit()`: their contexts are gone, their traps are as they were, and the target's cleanup handlers and destructors run |
| `file[t]` | what is in the trace file |
| `proc` | up, exited, `unmonitored` (no first context: nothing is installed), crashed (as asked for, of the target's own error, or by calling `SIG_IGN`), `leaked`: ended by a signal that FPSpy caused, or `hung` |
| `saFpe`, `saTrap`, `saAlrm` | FPSpy's handler is installed, or the target's disposition is back |
| `aborted`, `origRound`, `timer`, `pend` | `aborted`, `orig_round_config`, the armed interval timer, a SIGTRAP pending on the process |
| `leftDelayed` | a freed slot has `delayed_processing` set: `bringup_monitoring_context` does not reset it |
| `seen[t]`, `nested` | history: trapping instructions issued; a SIGTRAP has interrupted FPSpy's own code |

Actions: `FpTraps`, `FpSilent`, `FpStepped`, `IntDivTraps` (the target
executes an instruction, and the handler runs if there is a signal),
`DeliverTrap` and `Alarm` (the kernel delivers a SIGTRAP or an expired timer), `AlarmTrapped`, `AlarmResumes`,
`AlarmHangs` and `TrapHangs` (above),
`TargetConflict` (a wrapped call), `Boot`, `BootFails`, `Install`, `Create`, `Tramp`, `Kick`,
`ThreadExit` and `ThreadEnd` (the teardown, and the end of `orig_pthread_exit()`), `ProcessExit`,
`Interrupted` (a SIGINT in a process started with SIGINT ignored: fpspy.c:1435 calls the earlier disposition, which is no function), and `AbortRestoreFpe`, `AbortMark`, `AbortKick`,
`AbortRestoreTrap`, `AbortSetAborted` in the order of the code.

An event is a number, so that a trace can be compared with what was executed;
the abort record is 0. Rounding is `"target"`, `"ours"` or, in a handler, the `"default"` one; its bits are in
`FpCsr`. `Kick` is taken by the thread that calls `kick_self()`: `kill(gettid(), SIGTRAP)` at fpspy.c:448 is
directed at the process, but Linux gives such a signal to the thread that the call names whenever that thread does
not block it (`complete_signal()`), and a thread that kicks itself outside a handler does not. Inside one the signal stays
pending on the process (`pend`), and any thread may take it. `Inputs` says which of the environment's behaviours a run allows.

### EventLog

What a user is promised: for every thread an append-only log of every
`SamplePeriod`-th event in program order, closed by an abort record.
`Individual` implements it under the mapping `log` = file followed by buffer,
`events` = `count`, plus one while an instruction is being stepped over,
`open` = not in state ABORT (`ImplementsEventLog`).

### ContextTable

The table at the grain of memory accesses: taking the lock, testing a slot,
writing a slot, releasing. `free_monitoring_context` releases the lock inside its
loop and once more after it, as the code does. SIGALRM may interrupt an operation and
its handler starts a lookup of its own (`saved` is the interrupted operation).

### AtomicTable

What the rest of FPSpy takes the table for, and `Individual` models it as: allocating, looking up and
freeing happen at an instant, a thread gets a free slot unless there is none, finds
the one it has, and gives up its own only. `ContextTable` implements it (`ImplementsAtomicTable`): a
lookup happens when its loop ends, an allocation when it writes its slot or has
seen the last one taken, a free when it clears its slot. `answers` holds what a thread has
done and not returned from, so that every operation is the doing of the thread that called it, and a lookup
in a signal handler is told from the operation it interrupts.

### FpCsr

The registers of x64, arm64 and riscv64 as sets of bit positions, with the
masks, shifts and field layouts of each file, driven by the configuration code
and the handlers of one thread. `arch` is chosen once. `Individual` uses the
same operations on one bit per question.

### KconfigValues, KconfigTree, KconfigFile

Operators only, no variables. `KconfigValues` evaluates: the state of a `Kconfig` object is a
record `k` (the parsed program, user values, user selections, the cache), and every
evaluation yields a value together with the cache entries it has filled on the way,
because which ones are filled depends on the path taken, and invalidation relies on
it. `KconfigTree` goes from tokenized lines to the tree, the properties and the
dependents, and decides whether a file is a syntax error, insane, a dependency loop, or
fine. `KconfigFile` reads and writes `.config` and minimal configurations, as sequences of
lines. `KconfigLiterals` declares how strings and hex numbers are written.

Text is abstracted: a line is its keyword and its tokens, a literal is a model string
whose numeric value, quoted form, first character and rank are given by constants
(`Number`, `Quoted`, `Initial`, `Order`).

### KconfigSession

The life of a `Kconfig` object: `Parse`, and then `SetValue`, `UnsetValue`, `UnsetValues`,
`ReadValue` and `Load` in any order. Reading is an action because it caches. The
properties compare the code with reference definitions that are not translated
from it: `TokenValue` evaluates the tokens of an expression by splitting at the operator that
binds least, `Encloses` and its companions read the conditions of a definition off the
positions of lines, `ReadsAll` is the transitive closure of what computing a value may
read.

### ConfigStore

Processes that load `.config`, edit and save, or synchronise and compile, one at a time, on five
files that survive them. Every file is opened, which empties it, in one step and
written in the next; a process may be killed in between (`Kill`), or be unable to open or to write a file
(`SaveFails`). A save goes to `.config` or to another file, as in the save dialog, and `write_config()` writes
`config.h` and `config.mk` in either case (lines 882-888); `saved` is the file of the last save. `Compile` uses
the `config.h` that is there, not the `.config` that `sync_deps()` has loaded. Loading another file in the menu is left to `Menuconfig`. The compiler, the user's editor and a new version of the Kconfig
files are external. The contents of `config.h`, `config.mk` and `auto.conf` are computed here
from the values that are written.

What values are, and how they follow from a file that is loaded and from an edit, are parameters (`Configs`,
`Fresh`, `Loaded`, `Edited`, `SavedAs`, `ValuesOf`), so that the crash argument can be proved
for every configuration tool that meets the module's assumptions; `MCStore` gives them by
`KconfigFile`, and TLC evaluates the assumptions there. `SavedLoads` is what the run `kconfig`
checks of the tool as `WrittenLoads`.

`RebuildsChanged` is about the changes `sync_deps()` can see. Two histories are left out by
`astray`: it was killed while it wrote `auto.conf`, and a build used a `config.h` that was not of its `.config`, left so by a
save under another name or one that was killed or failed. And it is about symbols that are `Steady`: `sync_deps()`
misses a symbol that gets another type and keeps its literal (10 as an int and then as a hex number), and one
that is no longer defined but still referred to, which `_load_old_vals()` finds in `Kconfig.syms` (line 1178), so
that its file is not touched. `MCStore` has such a pair of versions.

### Menuconfig

One action per key of `_menuconfig()`. The record `ui` holds the globals of the
interface. A dialog is part of the action that opens
it. `ui.error` stands for the `ValueError` of a `list.index()` that does not find
its node, which ends the program.

A save may fail: with nothing written, or (`SaveFails`, for the files in `Faulty`) after the file was opened, which empties it,
or after it was written, when `config.h` cannot be. The history variable `cut` holds the files left empty.

The tree and the values are parameters here as well: `NodesOf`, `ShownNodes` (`_shown_nodes()`), `ParentMenu` and
`Changeable` are computed by `MenuTree`, which walks the tree and names a node by its path in it, and the rest by
`KconfigFile`. Assumed are facts that any tree has (lists hold nodes of the tree, show-all shows
at least what is shown without, the top menu is not empty), that only symbols and choices are changed and have
something to change to, that windows have rows, and that files which are saved load as what they were. `InBounds`
ends the exploration of values (2 of them set by users at a time); within it, what is set stays in `Configs`. `NodesStay` is not assumed: it is a condition on
Kconfig files that not all meet, and only `CursorKept` depends on it.

The `MC*` modules hold constants of the runs. The modules named `*_proofs` hold
theorems. `KconfigValues`, `KconfigTree`, `KconfigFile`, `MenuTree` and `KconfigSession` use RECURSIVE operators, and no theorem is stated about
them. Definitions with an underscored suffix (`Watch_keepsStepping`)
are mutants, one or more for every property; no specification uses them.

## Runs

| run | instance | shows |
|---|---|---|
| `single` | 1 thread, possibly running before FPSpy starts (`KICKSTART`), 5 events, limit 3, period 2, buffer of 2, Poisson with alarms that a SIGTRAP interrupts, forced rounding, fenv and signal calls, integer division errors, a trace file that cannot be opened, `pthread_exit` with cleanup handlers, exit, SIGINT | type; registers match state and rounding restored after abort and limit, until a SIGTRAP interrupts FPSpy's code; no record lost at exit; step-overs, aborts and OFF periods end, or the process hangs; ABORT is final |
| `threads` | 3 threads, the two created ones symmetric, 2 contexts, Poisson with a first draw that may be 0, period 2, aborts, exits, trace files that cannot be opened | own flags, exact traces, the traces implement `EventLog` |
| `table` | 3 threads, 2 slots, no frees | exclusion, slots kept and found, allocation fails only when full, operations return |
| `table_signals` | 2 threads, frees and SIGALRM | the operations implement `AtomicTable`: lookups find a thread's own slot, allocations do not meet |
| `csr` | 3 architectures; all 64 exception lists on arm64 and riscv64; 4 rounding modes with 4 DAZ/FTZ settings on x64 and riscv64; 4 original modes | listed exceptions trap and nothing else; silence while stepping and afterwards; own flags; rounding forced and put back |
| `kconfig` | 5 Kconfig files with every operation, 2 user values at a time; 61 more that are parsed, given values and loaded into: nested and sourced blocks, all small conditions, errors, loops | `SyntaxErrors`, `LoopsRejected`, `TreeKeepsOrder`, `ConditionsEnclose`, `PrintedParses`; `CachesFresh`, `AssignableExact`, `ChoiceHasOne`; `WrittenLoads`, `MinimalLoads`, `LoadReplaces` |
| `store` | 6 Kconfig files: the architecture choice of `src/Kconfig` with and without an option of one of them, a string and a number with and without the string, a symbol that is defined and then only referred to; `.config` and a second name to save to, a handwritten `.config`, 2 faults, 2 user values | `FilesAgree`, `RebuildsChanged`, and the assumptions of the proofs |
| `menu` | 3 Kconfig files, windows of 1 and 3 lines, 2 file names of which one can be written, in one Kconfig file with saves that fail half-way, 2 user values | `CursorKept`, `ShownIsCurrent`, `CursorOnScreen`, `QuitLosesNothing`, and the assumptions of the proofs, `NodesStay` included |
| `thread_abort`, `limit_poisson`, `table_double_unlock`, `csr_x64_list` | violations, see below | the code does not do what it or its README says |

Why the bounds are enough. Threads interact through a handful of process-wide
flags, so two threads show every pairwise race and a third shows a slot handed
on while another abort is under way. Two trapping instructions per thread
reach every state of the context and a second pass through it; `single` takes five, so
that a limit of three is met between two multiples of the period and with a
partly filled buffer. Three threads are needed for the double unlock of
`table_double_unlock`: one frees, one takes the released lock, one takes the lock
released again. `FpCsr` has no bound: each architecture's registers have
finitely many values and all are reached.

The Kconfig files of `kconfig` are one per way in which values depend on each other: select
and modules, imply and a dependency that select overrides, a choice, a range whose
bound is another symbol, an optional tristate choice with a bool symbol. Two user values at a time
make every pair interact, in every order and with any set of attributes cached; `assignable`
is read only of choices and of the symbols outside them that have a prompt (`Attributes`), whose
cases differ. For
`store`, two faults let a second process find what a first one left half done
and die as well. For `menu`, a window of one line makes every move scroll, and one of three
is shorter than one menu and longer than another. The code's `_SCROLL_OFFSET` of 5 and
`_PG_JUMP` of 6 are scaled to 1 and 2 with the lists.

Deadlock checking is on in every run. A process that has ended stutters
(`Terminated`, `Ended`), as does a table nobody uses (`Quiet`).

### Fairness

`FairSpec` of `Individual`: a scheduled thread finishes FPSpy's code that it is in
and executes the instruction a handler has returned it to (weak fairness per
thread); the kernel delivers a due alarm, and a pending SIGTRAP, to some thread (weak fairness over the
threads together, not per thread: the kernel may choose). Nothing is assumed of what the target
does next. `FairSpec` of `ContextTable`: a thread in an operation keeps
executing it. That the spin lock is free when it looks is not assumed: in
`table` every thread makes finitely many calls, so starvation on the lock cannot
go on for ever.

### Findings

* `thread_abort`: `abort_operation()` restores dispositions process-wide while
  the other threads' traps stay unmasked; their next event kills the target.
* `limit_poisson`: the sampler's switch from OFF to ON unmasks traps although
  the event limit has been reached.
* `table_double_unlock`: the second release in `free_monitoring_context()` may
  release another thread's lock; two threads then get one slot.
* `csr_x64_list`: on x64 `arch_clear_trap_mask()` and `arch_set_trap_mask()` have the
  opposite sense of the other architectures, and the exceptions *not* listed
  in `FPSPY_EXCEPT_LIST` are intercepted.

The same properties fail on other instances too. A reader can see these by
changing the constants of a cfg:

* `NothingLeaks` with `MaxContexts = 1` and two threads: a thread without a context keeps
  the traps it inherited, and `fp_trap_handler` reads `mc->state` with `mc` null (fpspy.c:1096).
* `NothingLeaks` with `Timers = TRUE` and one thread: the timer is armed (fpspy.c:1516) before its
  handler is installed.
* `NothingLost` with `BufLen = 2` and two threads: `fpspy_deinit()` flushes one context only (fpspy.c:1958).
* `RoundingRestored` with two threads: each first SIGTRAP overwrites the global
  `orig_round_config` (fpspy.c:1014), by then FPSpy's own rounding.
* `OffPeriodEnds` with `ZeroDraw = TRUE`: a first draw of 0 disarms the timer (fpspy.c:894).
* `EventLimit` with `MaxCount = 0`: the count is compared after an event only (fpspy.c:1029), so one is recorded.
* `EventLimit` with `KickStart = TRUE` and integer division errors: the instruction faults
  again after it was stepped over, and is recorded again beyond the limit.
* `OffPeriodEnds` with two threads: their samplers share one timer (fpspy.c:973).
* `OperationsReturn` with `Alarms = TRUE`: the handler spins on the lock its
  own thread holds (fpspy.c:1449). In `Individual` the same is the fate `hung`: a SIGALRM inside the lookup of an abort that a
  wrapper has called (fpspy.c:471) keeps that abort from completing, which is why `AbortCompletes` and `StepsOver` allow for it.
* `TrapsMatchState` and `RoundingRestored` without `~nested`, in the run `single`: a SIGTRAP inside `sigalrm_handler()` (fpspy.c:1660) takes the
  context from INIT to AWAIT_FPE while it unmasks the handler's registers instead of the thread's, so that nothing is trapped until the sampler has been OFF and is ON again, and
  saves the handler's rounding as `orig_round_config`.
* `NothingLeaks` with `"cleanup"` and one thread: after `teardown_monitoring_context()` in `pthread_exit()` (fpspy.c:678) the target's
  cleanup handlers run with traps unmasked and no context; their first event kills the process.
* `RoundingForced` on riscv64 with `"maxmag"` in `Originals`: `FCSR_ROUND_MASK`
  misses bit 7 (riscv64.c:432).
* `RoundingForced` on arm64: `arch_set_round_config()` computes the new `fpcr` and does not
  write it (arm64.c:486). The `csr` run forces rounding on x64 and riscv64 only.

In the configuration tool the code and its comments differ too:

* `write_config()` documents that an identical file is left alone and that a copy
  is saved as `.config.old`; both are commented out (lines 876, 5702). `_needs_save()`
  returns True before it looks (7002), so a quit always asks until the first save. `FilesAgree` needs the former:
  with the comparison in place, the save after a crash would repair nothing.
* `write_config(filename)` writes `config.h` and `config.mk` whatever the name (882-888), and the save dialog passes
  any name (7147). After a save under another name, and after a save that was killed or failed between the configuration file
  and `config.h`, the C code is compiled with values that `.config` does not have. `sync_deps()` compares `.config` with `auto.conf` and never looks at `config.h`, so that a
  build in that situation leaves objects which no later build corrects until their symbols change again.
* `load_config()` documents that "all existing user values will be cleared" (431-433). The user selection of a choice
  survives when the file sets the choice's mode and none of its symbols to y (550, 603-605): where `MODULES` is n, loading `P=m` over a selection of `Q`
  leaves `Q` selected, and a new process would select by default. `LoadReplaces` leaves out these choices' selections and
  nothing else.
* `standard_sc_expr_str()` prints a choice as `<choice NAME>` (5367), which no Kconfig parser reads; `PrintedParses` is about
  conditions that name no choice.
* A save that fails in `write()` has emptied the file (882), and one that fails in `config.h` has written it; `_try_save()` reports the error
  and `_conf_changed` stays what it was. If that was False, quitting then asks nothing and the file is empty (`cut`).
* `int()` of a range bound that is not a number raises `ValueError` in `_check_valid()` (9348); the bounds of the run are numbers (`BoundsAssumption`).
* `sync_deps()` argues that it can be rerun until `auto.conf` is written (1143). It
  cannot while `auto.conf` is being written: the file is emptied first, and a symbol that
  was y and is n now is then taken for unchanged. `RebuildsChanged` holds up to that point (`astray`).
  A comment says that n is not written to `autoconf.h` (1118); it is, as `#define ... 0`.
  The Makefile of this repository does not call `sync_deps()`.
* A minimal configuration of a tristate choice that is not optional and has bool
  symbols may not load as what it was; `Modal` is optional for that reason.
* `_expr_depends_on()` takes `A != y` for a dependency on `A` (5750).
* Kconfig files exist that do not meet `NodesStay` and for which `CursorKept` fails, each with a `list.index()` that raises:
  a comment in a menu whose `visible if` is n stays visible (2947 propagates the
  condition to symbols and choices only), and one that has jumped to it cannot leave
  the menu (7455); a symbol with two definitions, one of which loses its prompt when the symbol becomes n;
  a choice that is defined twice and left through a definition that is hidden; a tristate with
  `prompt if m` and a default of y, whose value is not assignable (7861).

This is why the passing runs are made of the constants they have: each property
is checked on the widest setting in which the code keeps it.

## Proofs

All by TLAPS, for every value of the constants allowed by the modules'
`ASSUME`s, which TLC evaluates in every run: `ConstantsAssumption`, `TableAssumption`, `CsrAssumption`;
`ConfigsAssumption`, `ValuesAssumption` and `SavedLoads` of `ConfigStore`;
`ConstantsAssumption`, `ConfigsAssumption`, `ChangesAssumption`, `TreeAssumption`, `ShownAssumption` and
`SavedLoads` of `Menuconfig`.
The bounds of the models (`MaxFp`, the number of trapping instructions; `MaxCalls`, of table operations;
`MaxFaults`; the values in `Configs`, and which of them are `InBounds`) are constants too, and the theorems hold for each value of them. Where a theorem has a
hypothesis the table says what the code does without it. Every inductive invariant
was checked by TLC on small instances before it was proved.

| theorem | says | hypothesis, and what happens without it |
|---|---|---|
| `Individual_proofs` | | |
| `TypeCorrect` | `[]TypeOK` | none |
| `TrapsAlwaysMatch` | `[]TrapsMatchState`; the property itself speaks of the time before a SIGTRAP interrupts FPSpy's own code | no integer division errors, or no Poisson sampling: such an error faults in an OFF period too, and a SIGTRAP from elsewhere during its step-over unmasks traps while the sampler is OFF |
| `IndividualSafety_proofs` | | |
| `FlagsAreAlwaysOwn` | `[]RecordsShowOwnFlags` | none |
| `AbortIsAlwaysFinal` | `AbortIsFinal`, an action property | no SIGTRAP interrupts FPSpy's own code (`[]~nested`); with one, checked by the run `single` only |
| `NothingIsLost` | `[](~nested => NothingLost)` | no `pthread_create()`, or a buffer of one record, or no trace file: `fpspy_deinit()` flushes the context of its own thread only |
| `RoundingIsRestored` | `[]RoundingRestored`, after an abort and at the limit, before a SIGTRAP interrupts FPSpy's own code | no forced rounding, or no `pthread_create()`: a created thread inherits FPSpy's mode and its first SIGTRAP stores it in `orig_round_config` |
| `IndividualTrace_proofs` | | |
| `TracesAreExact` | `[]TraceIsExact` | no integer division errors (stepping does not get past them, they are recorded again and again); a trace file; no `FPSPY_KICKSTART` (the SIGTRAP from outside may reach a thread that waits for something else, which aborts or counts) |
| `EventLogImplemented` | `ImplementsEventLog`, the refinement | the same |
| `IndividualFate_proofs` | | |
| `LimitIsKept` | `[]EventLimit` | the same; no Poisson sampling (`limit_poisson`); a limit other than 0, since `brk_trap_handler` compares the count only after an event: `FPSPY_MAXCOUNT=0` records one |
| `SingleThreadSurvives` | `[]NothingLeaks` | no `pthread_create()` (`thread_abort`); no integer division errors, Poisson sampling or `FPSPY_KICKSTART`: each can leave a signal pending when its handler is not there; no cleanup handlers that do floating point, which traps with no context after `pthread_exit()` |
| `CalmTargetsSurvive` | `[]NothingLeaks` | the target gives FPSpy no reason to abort: no fenv call, no signal call unless `FPSPY_AGGRESSIVE` ignores it (`thread_abort`), no integer division error; a context and a trace file for every thread, since one without keeps the traps it inherited; no Poisson sampling, whose timer is armed before its handler is there; no `FPSPY_KICKSTART`; no cleanup handlers or destructors that do floating point: after `pthread_exit()` has torn the context down they run with traps unmasked |
| `ContextTable_proofs` | | |
| `TypeCorrect` | `[]TypeOK` | none |
| `Exclusive` | `[]MutualExclusion` | no thread frees its slot (`~Frees`): after a free's first release another thread may be inside while the free is |
| `ContextsAreKept`, `LookupsFindOwn`, `FullWhenFails` | `[]KeepsContext`, `[]FindsOwn`, `[]FailsOnlyWhenFull` | no thread frees its slot, or there are at most two threads (`table_double_unlock` has three) |
| `AtomicTableImplemented` | `ImplementsAtomicTable`, the refinement | the same |
| `FpCsr_proofs` | | |
| `NothingElseTraps`, `RecordedFlagsAreOwn`, `RoundingIsPutBack` | `[]SilentOtherwise`, `[]FlagsAreOwn`, `[]RoundingPutBack` | none |
| `ListedAreIntercepted` | `[]InterceptsListed` | no exception list on x64 (`csr_x64_list`) |
| `RoundingIsForced` | `[]RoundingForced` | nothing forced on arm64, whose `fpcr` is not written; no target that starts in `maxmag`, whose bit riscv64 does not clear |
| `ConfigStore_proofs` | | |
| `FilesAlwaysAgree` | `[]FilesAgree` | none but the module's assumptions |
| `ChangesAreRebuilt` | `[]RebuildsChanged` | the same; the property itself is about `Steady` symbols and the time until a process is killed while writing `auto.conf` or a build uses a `config.h` that is not of its `.config` (`astray`) |
| `Menuconfig_proofs` | | |
| `ListIsAlwaysCurrent`, `CursorIsAlwaysOnScreen`, `QuittingLosesNothing` | `[]ShownIsCurrent`, `[]CursorOnScreen`, `[]QuitLosesNothing` | none but the module's assumptions |
| `CursorIsKept` | `[]CursorKept` | every Kconfig file meets `NodesStay`; the files listed under Findings do not, and the program ends with a `ValueError` |

The arguments:

* `TrapsInv` (`Individual_proofs`). `TrapsMatchState` speaks of threads in the target's
  code only and is not inductive: what a thread will find when it returns depends on where it is
  in FPSpy's code and on the dispositions. `TrapsInv` adds that: a context is fresh until its first
  SIGTRAP (`FreshUntilKicked`); dispositions are given back in the order of the
  code (`GivesBack`); a thread inside `abort_operation()` does not step, is
  marked ABORT once past the mark, and is masked if it began in a handler or has
  kicked itself (`Aborting`); a thread that was surprised by a SIGTRAP and is back in
  the target has aborted the process (`SurprisedOnce`); the sampler is ON before the
  first SIGTRAP and during every step-over (`SamplerOn`); no thread is in an interrupted `sigalrm_handler()` (`Unnested`); and, of the process, that
  one thread exists while `bringup()` runs, and that an aborted process has given both
  dispositions back (`GlobalInv`). A step of one thread leaves the others' part
  alone, because what they rely on only ever goes one way (`Monotone`, `Bystander`,
  `Combine`), so each action is proved for the acting thread. The same pattern serves the
  invariants below. `TrapsInv` is shown to hold as long as `~nested`, and `nested` never becomes FALSE again (`NestedStays`).
* `SafetyInv` (`IndividualSafety_proofs`) carries four properties at once. The handlers are first
  described by their effect on the fields the invariant reads (`SigTrapEffect`, `FaultEffect`,
  `PushEffect` and others), so that the bodies of the actions are opened once. Flags are clean
  wherever traps are unmasked, also inside FPSpy's code (`Clean`); a context is marked once, and
  by then SIGFPE has been given back, so that no fault is counted for it any more (`AbortedOnce`);
  what is not monitored has no buffered records (`Flushed`); rounding is the target's
  before the first SIGTRAP, at the limit, in an abort that began in a handler and after every abort's
  kick (`Rounded`). `FlagsAreAlwaysOwn` needs `Clean` alone, which a SIGTRAP inside `sigalrm_handler()` keeps too.
* `LogInv` (`IndividualTrace_proofs`) ties the history to the context: the instructions issued are
  the events counted, plus the one being stepped over (`Counting`); a thread is at a faulted
  instruction exactly when it is stepping over it (`Stepping`); a monitored thread that can
  trap has left INIT (`Begun`); and, since only a SIGTRAP from outside or an abort inside a SIGFPE handler can leave one
  pending, none ever is (`NonePending`). With it every step is, for each thread, one of three things (`LogStep`): nothing
  a user of the log sees, one event, or giving up. Exactness follows by arithmetic on
  `(n + p - 1) \div p` (`SampleGrows`), the refinement by mapping the three cases to a stutter,
  `Event` and `GiveUp` of `EventLog`. That buffering and flushing are invisible is `PushEffect`.
* `LimitInv` (`IndividualFate_proofs`): the events counted are within the limit, and a thread that
  waits and has reached it is masked; with `TracesAreExact` the number of records is that of a sample.
  `AloneInv`: from the first kick until the thread is marked, masked and
  past its own kick, both dispositions that can matter to it are FPSpy's, and nothing is pending.
  `CalmInv`: nobody is in `abort_operation()` and no context is marked; both dispositions are FPSpy's
  from the end of `bringup()` on; every thread in the target's code has a context that has left INIT, or is inside
  `orig_pthread_exit()` at no instruction that can trap, for which
  `MaxContexts` must be at least the number of threads (a cardinality argument, at `Tramp`); nothing is pending.
* `ContextTable_proofs`. `TableInv` is what operations know of slots: a
  thread about to claim a slot has found it free and it still is, one about to clear a slot or to
  return one has its tid in it (`SlotInv`); a thread has its tid in one slot at most and
  does not allocate a second (`SlotOnceInv`); a lookup has not passed over its thread's slot (`LookupInv`).
  Both the running operation and the one a signal handler has interrupted have
  to be covered, which is what `FrameOK` and its like are parameterised for. All of it needs one fact of
  the lock only: no two threads are about to claim (`ClaimsAlone`). `AllocInv`, that the slots an
  allocation has passed are still taken, needs another: nobody clears a slot while a thread scans to allocate (`ClearsAlone`).
  Without frees both follow from exclusion (`LockInv`, `WithoutFrees`). With frees exclusion is lost at
  the first early release; but a thread that has freed its slot does not allocate again (`NeverBack`), so with two threads
  exclusion holds for as long as there is anything an allocation could meet (`EarlyLock`, `WithTwoThreads`).
  The refinement of `AtomicTable` then maps every step: `Test` at the end of a loop to `Find` or
  `AllocateFails`, `Claim` to `Allocate`, `Clear` to `Free`, `Release` and `unlock_contexts` to `Return`, all others to a stutter.
* `CsrInv` (`FpCsr_proofs`): the trap bits of the control register are those of the base mask while
  FPSpy watches and none otherwise (`MaskInv`); the flags that go with them are clear meanwhile
  (`FlagInv`); the rounding bits are the target's or the forced ones, by phase (`RoundInv`); what will be put
  back is what was there (`OrigInv`). The bits of each architecture are lemmas, one per register field.
* `IInv` (`ConfigStore_proofs`): a save under way has written the files before the one it is at
  (`SaveInv`), so that at its end all three are of the same values, and `SavedLoads` makes them what loading the saved file gives. A
  synchronisation under way has touched what is gone and, of the symbols it has passed, what has changed
  (`SyncInv`). `BuiltInv` is the crash argument: `auto.conf` always holds values, of some
  version of the Kconfig files, that everything `Steady` whose symbol file is not touched was compiled with, unless `astray`.
  A synchronisation that is killed has only touched more; one that gets to the end moves the statement to
  the values of now, since a symbol that is not `Changed` is compiled the same under both (`ComparisonIsExact`),
  which is where `Steady` is used.
* `IInv` (`Menuconfig_proofs`): between two keys the interface is `Good`: the selection is within
  the list, the list is that of the menu and the values unless `error`, and the row of the
  cursor is one of the window; and what is in the file under the current name is the values of now unless `changed`
  (`FilesInv`). Every function of the code is a lemma of its own that takes a `Good` interface
  to a `Good` one, or to one that is good but for the row, which the caller repairs. Moves by a page iterate
  one of the two single moves, and keep what each of these keeps (`IteratedKeeps`, by a least counterexample). `KeepsSaved` says that
  whatever changes a value sets `_conf_changed`. `CursorIsKept` adds that no lookup in a list fails, one
  conjunct of `NodesStay` for each of them.

Only model-checked, and why:

* liveness (`StepsOver`, `AbortCompletes`, `OffPeriodEnds`, `OperationsReturn`), which needs
  fairness and is out of the prover's reach;
* the invariants of `KconfigSession`. Parsing, evaluation, finalizing and the search for loops are recursive over
  trees and expressions: the modules declare RECURSIVE operators, from which no theorem can be reached, and what a recursion
  computes for every input needs induction over data. What the proofs above need of these algorithms is stated as
  assumptions (`SavedLoads` and the others), which TLC evaluates on the Kconfig files of the runs.

## Not modelled

* Breakpoint trap mode, riscv64 bypassed exceptions, aggregate mode,
  the kernel module, fork and exec, the shim set-up: planned, below.
* Failing or short writes of trace files; the fields of a record beyond which event it is;
  addresses, instruction bytes, time stamps.
* The lengths of sampling periods and the random generator: an armed timer may
  expire at any time. `FPSPY_SEED` has no counterpart.
* A SIGINT that finds an earlier handler of the target's (only `SIG_DFL` and `SIG_IGN` are), and a SIGINT inside a lookup, whose
  `fpspy_deinit()` would spin on the lock.
* What other threads do after one has hung, and after `bringup()` has failed: the target then runs on its own until a wrapped call
  makes `abort_operation()` initialise FPSpy again (fpspy.c:459, in the plan).
* `libtrace`, `trace_print` and the analysis scripts (`runanalyze.py`, `eventtrace.py` and
  the Perl ones) read finished files; the rest is tests and measurements.
* Of `menuconfig.py`: the tokenizer, preprocessor macros, `option` lines but `env` (2539-2574; an unset variable there, 2523, and the value of a `defconfig_list` symbol, 3731), help texts,
  warnings, the printing of whole items (`__str__`), environment variables, `allconfig`
  files, `eval_string()`; of the interface, drawing, styles, the edit box, the search that finds
  what to jump to, and the information dialog. None changes a value or a position.
* With `FPSPY_DISABLE_PTHREADS` `setup_shims()` does not look up the pthread functions, while the
  exported wrappers call through those pointers all the same (fpspy.c:650).
* `FPSPY_SAMPLE=0` divides by zero in the handler; `SamplePeriod` is assumed
  positive. README.md:142 gives a default for `FPSPY_MAXCOUNT` of "about 64,000"; the code's
  default is no limit.

## Plan

1. `Individual`, `EventLog`, `ContextTable`, `AtomicTable`, `FpCsr`: done, with the runs and
   theorems above.
2. `KconfigTree`, `KconfigValues`, `KconfigFile`, `KconfigSession`: done, with their run. `ConfigStore`, `MenuTree`,
   `Menuconfig`: done, with their runs and theorems.
3. `BreakpointTrap`: `arch_set_trap_mode`/`arch_reset_trap_mode` of arm64 and riscv64, which
   patch the next instruction in code shared by all threads; that the
   original instruction always comes back, and when it does not.
4. `Lifecycle`: `setup_shims`, constructors before `fpspy_init`, fork with the
   table's lock held by another thread, exec, `fpspy_deinit` and its two callers.
5. `KernelModule`: the registered-process list of `fpvm_kmod.c` with its ioctls,
   release and the trap hook.
6. `Aggregate` (sticky flags collected at thread and process exit) and `TraceFile` (short
   writes in `writeall`, and the record count `libtrace` derives from a file).
7. Proofs: every safety property of `Individual`, `ContextTable`, `FpCsr`, `ConfigStore` and `Menuconfig`, and the
   refinements of `EventLog` and `AtomicTable`: done. Left: `NothingLeaks` with Poisson sampling once the handler is there,
   and a form of the Kconfig evaluation without recursion, over a given order of the symbols, about which
   `CachesFresh` could be proved.
