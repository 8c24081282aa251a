------------------------------- MODULE FpCsr --------------------------------
(***************************************************************************)
(* The architecture layer's floating point control and status registers:   *)
(* src/src/x64/x64.c, src/src/arm64/arm64.c and src/src/riscv64/riscv64.c, *)
(* as the configuration code and the trap handlers of src/src/fpspy.c use  *)
(* them.  A register is the set of the positions of its bits that are 1.   *)
(*                                                                         *)
(* ctl is the register with the trap masks or enables (mxcsr, fpcr, the    *)
(* custom CSR 0x880), sts the one with the sticky flags (mxcsr, fpsr,      *)
(* fcsr).  On x64 both are mxcsr; they are kept apart because no operation *)
(* relates a flag to a control bit.                                        *)
(***************************************************************************)
EXTENDS Integers

CONSTANTS
  Archs,       \* the architectures FPSpy is built for
  Lists,       \* arch -> the lists FPSPY_EXCEPT_LIST may give
  Roundings,   \* arch -> the modes FPSPY_FORCE_ROUNDING may give
  DazFtz,      \* the DAZ/FTZ settings it may give
  Originals    \* the rounding modes the target may start with

Exceptions == {"invalid", "denorm", "divide", "overflow", "underflow", "precision"}
Modes == {"nearest", "negative", "positive", "zero", "maxmag"}
DazFtzModes == {"none", "ftz", "daz", "both"}
ForcedModes == Modes \ {"maxmag"}
NoForce == <<>>

ASSUME CsrAssumption ==
  /\ Archs \subseteq {"x64", "arm64", "riscv64"}
  /\ Lists \in [Archs -> SUBSET SUBSET Exceptions]
  /\ Roundings \in [Archs -> SUBSET ForcedModes]
  /\ Originals \subseteq Modes /\ DazFtz \subseteq DazFtzModes
  /\ "maxmag" \in Originals => Archs = {"riscv64"}

VARIABLES
  arch,   \* the architecture of the build
  base,   \* mxcsrmask_base, fpcr_enable_base, ften_base
  ctl, sts,
  our,    \* our_round_config
  orig,   \* orig_round_config
  phase,  \* "config", "start", "watch", "step" or "quiet"
  list,   \* the exceptions the user asked for
  want,   \* the rounding and DAZ/FTZ the user asked for, or NoForce
  had,    \* the rounding mode the target started with
  insn    \* the exceptions of the instruction being stepped over

vars == <<arch, base, ctl, sts, our, orig, phase, list, want, had, insn>>

-----------------------------------------------------------------------------
(* Where the bits are.                                                     *)

X64TrapBits ==
  [invalid |-> {0}, denorm |-> {1}, divide |-> {2},
   overflow |-> {3}, underflow |-> {4}, precision |-> {5}]
Arm64TrapBits ==
  [invalid |-> {8}, denorm |-> {15}, divide |-> {9},
   overflow |-> {10}, underflow |-> {11}, precision |-> {12}]
Riscv64TrapBits ==
  [invalid |-> {4}, denorm |-> {}, divide |-> {3},
   overflow |-> {2}, underflow |-> {1}, precision |-> {0}]
TrapBit(e) ==
  [x64 |-> X64TrapBits, arm64 |-> Arm64TrapBits, riscv64 |-> Riscv64TrapBits][arch][e]
BitsOf(E) == UNION {TrapBit(e) : e \in E}
AllBits == BitsOf(Exceptions)

(* The flags and the mask bits that go with bits of base.                  *)
FlagBits(B) == IF arch = "arm64" THEN {b - 8 : b \in B} ELSE B
MaskBits(B) == {b + 7 : b \in B}

(* DAZ, FTZ and rounding bits, and the register they are in.               *)
RoundMask ==
  [x64 |-> {6, 13, 14, 15}, arm64 |-> {0, 1, 22, 23, 24}, riscv64 |-> {4, 5, 6}][arch]
RoundReg == IF arch = "riscv64" THEN sts ELSE ctl

X64Modes == [nearest |-> {}, negative |-> {13}, positive |-> {14}, zero |-> {13, 14}]
Arm64Modes == [nearest |-> {}, negative |-> {23}, positive |-> {22}, zero |-> {22, 23}]
Riscv64Modes ==
  [nearest |-> {}, negative |-> {6}, positive |-> {5, 6}, zero |-> {5}, maxmag |-> {7}]
ModeBits(m) == [x64 |-> X64Modes, arm64 |-> Arm64Modes, riscv64 |-> Riscv64Modes][arch][m]

X64DazFtz == [none |-> {}, ftz |-> {15}, daz |-> {6}, both |-> {6, 15}]
Arm64DazFtz == [none |-> {}, ftz |-> {1, 24}, daz |-> {0, 1}, both |-> {0, 24}]
Riscv64DazFtz == [d \in DazFtzModes |-> {}]
DazFtzBits(d) == [x64 |-> X64DazFtz, arm64 |-> Arm64DazFtz, riscv64 |-> Riscv64DazFtz][arch][d]

-----------------------------------------------------------------------------
(* What the hardware makes of the registers.                               *)

Supported == {e \in Exceptions : TrapBit(e) # {}}
Traps ==
  {e \in Supported :
     IF arch = "x64" THEN MaskBits(TrapBit(e)) \cap ctl = {} ELSE TrapBit(e) \subseteq ctl}
RoundingField == [x64 |-> {13, 14}, arm64 |-> {22, 23}, riscv64 |-> {5, 6, 7}][arch]
HwRounds(m) == RoundReg \cap RoundingField = ModeBits(m)

(* How the DAZ and FTZ bits of a rounding configuration are to be read; on *)
(* arm64 FIZ (0), AH (1) and FZ (24) together say it.                      *)
X64Reads(c) == [daz |-> 6 \in c, ftz |-> 15 \in c]
Arm64Reads(c) == [daz |-> 0 \in c \/ ((1 \in c) # (24 \in c)), ftz |-> 24 \in c]
arch_get_dazftz_mode(c) ==
  LET read == IF arch = "x64" THEN X64Reads(c) ELSE Arm64Reads(c)
  IN CASE read.daz /\ read.ftz -> "both" [] read.daz /\ ~read.ftz -> "daz"
       [] ~read.daz /\ read.ftz -> "ftz" [] OTHER -> "none"

-----------------------------------------------------------------------------
(* The operations of the architecture interface.  A definition with an     *)
(* underscored suffix is a mutant of the one that follows it: a bug the    *)
(* properties must tell from the code.                                     *)

arch_clear_trap_mask_toZero == {}
arch_clear_trap_mask == IF arch = "x64" THEN {} ELSE AllBits

(* Called for each of the exceptions E.                                    *)
arch_set_trap_mask(B, E) == IF arch = "x64" THEN B \cup BitsOf(E) ELSE B \ BitsOf(E)

arch_mask_fp_traps_doesNot(c) == c
arch_mask_fp_traps(c) == IF arch = "x64" THEN c \cup MaskBits(base) ELSE c \ base
arch_unmask_fp_traps(c) == IF arch = "x64" THEN c \ MaskBits(base) ELSE c \cup base
arch_clear_fp_exceptions_doesNot(s) == s
arch_clear_fp_exceptions(s) == s \ FlagBits(base)

arch_get_round_config_empty == {}
arch_get_round_config == RoundReg \cap RoundMask

(* The registers <<ctl, sts>> with rounding configuration r.  On arm64 the *)
(* new value is computed and not stored.                                   *)
arch_set_round_config_ors(c, s, r) ==
  IF arch = "riscv64" THEN <<c, s \cup r>> ELSE <<c \cup r, s>>
X64SetRound(c, s, r) == <<(c \ RoundMask) \cup r, s>>
Arm64SetRound(c, s, r) == <<c, s>>
Riscv64SetRound(c, s, r) == <<c, (s \ RoundMask) \cup r>>
arch_set_round_config(c, s, r) ==
  CASE arch = "x64" -> X64SetRound(c, s, r)
    [] arch = "arm64" -> Arm64SetRound(c, s, r)
    [] arch = "riscv64" -> Riscv64SetRound(c, s, r)

-----------------------------------------------------------------------------
(* Their uses in fpspy.c.                                                  *)

config_exceptions(E) == arch_set_trap_mask(arch_clear_trap_mask, Exceptions \ E)
config_round_daz_ftz(m, d) == ModeBits(m) \cup DazFtzBits(d)

(* The registers become c and s, and rounding r if FPSpy controls it.      *)
SetRegisters(c, s, r) ==
  LET regs == IF want = NoForce THEN <<c, s>> ELSE arch_set_round_config(c, s, r)
  IN ctl' = regs[1] /\ sts' = regs[2]
Watching(s) == SetRegisters(arch_unmask_fp_traps(ctl), arch_clear_fp_exceptions(s), our)

Init ==
  /\ arch \in Archs
  /\ base = AllBits
  /\ had \in Originals
  /\ ctl = (IF arch = "x64" THEN MaskBits(AllBits) ELSE {})
             \cup IF arch = "riscv64" THEN {} ELSE ModeBits(had)
  /\ sts = IF arch = "riscv64" THEN ModeBits(had) ELSE {}
  /\ our = {} /\ orig = {}
  /\ phase = "config"
  /\ list = Exceptions /\ want = NoForce
  /\ insn = {}

(* fpspy_init(): FPSPY_EXCEPT_LIST and FPSPY_FORCE_ROUNDING, each given or *)
(* not.                                                                    *)
Configure ==
  /\ phase = "config" /\ phase' = "start"
  /\ \/ UNCHANGED <<base, list>>
     \/ \E E \in Lists[arch] : base' = config_exceptions(E) /\ list' = E
  /\ \/ UNCHANGED <<our, orig, want>>
     \/ \E m \in Roundings[arch], d \in DazFtz :
          /\ our' = config_round_daz_ftz(m, d) /\ want' = <<m, d>>
          /\ orig' = arch_get_round_config
  /\ UNCHANGED <<arch, ctl, sts, had, insn>>

(* brk_trap_handler() in state INIT.                                       *)
Start ==
  /\ phase = "start" /\ phase' = "watch"
  /\ orig' = arch_get_round_config
  /\ Watching(sts)
  /\ UNCHANGED <<arch, base, our, list, want, had, insn>>

(* An instruction raises exceptions E: fp_trap_handler() runs if one of    *)
(* them traps, and only sticky flags are set if none does, before FPSpy    *)
(* starts (FPSPY_KICKSTART) or after.                                      *)
Trap(E) ==
  /\ phase = "watch" /\ E \cap Traps # {}
  /\ phase' = "step" /\ insn' = E
  /\ SetRegisters(arch_mask_fp_traps(ctl), arch_clear_fp_exceptions(sts), our)
  /\ UNCHANGED <<arch, base, our, orig, list, want, had>>
NoTrap(E) ==
  /\ phase \in {"start", "watch", "quiet"} /\ E \cap Traps = {}
  /\ sts' = sts \cup FlagBits(BitsOf(E))
  /\ UNCHANGED <<arch, base, ctl, our, orig, phase, list, want, had, insn>>

(* It executes again, sets its flags, and brk_trap_handler() takes over.   *)
Stepped ==
  /\ phase = "step" /\ phase' = "watch" /\ insn' = {}
  /\ Watching(sts \cup FlagBits(BitsOf(insn)))
  /\ UNCHANGED <<arch, base, our, orig, list, want, had>>

(* The event limit or an abort: everything is put back.                    *)
Quit ==
  /\ phase = "watch" /\ phase' = "quiet"
  /\ SetRegisters(arch_mask_fp_traps(ctl), arch_clear_fp_exceptions(sts), orig)
  /\ UNCHANGED <<arch, base, our, orig, list, want, had, insn>>

Next ==
  \/ Configure
  \/ Start
  \/ \E e \in Exceptions : Trap({e, "precision"}) \/ NoTrap({e})
  \/ Stepped
  \/ Quit

Spec == Init /\ [][Next]_vars

-----------------------------------------------------------------------------
(* While FPSpy watches, exactly the exceptions the user listed trap, as    *)
(* far as the machine has them (config_exceptions, arch_unmask_fp_traps).  *)
InterceptsListed == phase = "watch" => Traps = list \cap Supported

(* While an instruction is stepped over, and after FPSpy has stopped,      *)
(* nothing traps (arch_mask_fp_traps).                                     *)
SilentOtherwise == phase \in {"step", "quiet"} => Traps = {}

(* When traps are on, no flag of an exception that can trap is left over   *)
(* from an earlier instruction, so that a record's flags are its own       *)
(* (arch_clear_fp_exceptions).                                             *)
FlagsAreOwn == phase = "watch" => \A e \in Traps : FlagBits(TrapBit(e)) \cap sts = {}

(* The rounding the user forces is the rounding the target's instructions  *)
(* get, DAZ and FTZ included (config_round_daz_ftz,                        *)
(* arch_set_round_config).                                                 *)
RoundingForced ==
  phase \in {"watch", "step"} /\ want # NoForce =>
    /\ HwRounds(want[1])
    /\ arch # "riscv64" => arch_get_dazftz_mode(RoundReg) = want[2]

(* When FPSpy stops the target rounds as it did before (orig_round_config, *)
(* arch_get_round_config).                                                 *)
RoundingPutBack == phase = "quiet" => HwRounds(had)

=============================================================================
