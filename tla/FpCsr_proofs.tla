---------------------------- MODULE FpCsr_proofs ----------------------------
(***************************************************************************)
(* Proofs about the control and status registers, for every exception      *)
(* list, forced rounding and initial rounding mode.  They go bit by bit:   *)
(* the bits a trap, a flag and a rounding mode have are disjoint, so what  *)
(* one operation of the architecture interface writes another leaves       *)
(* alone.                                                                  *)
(***************************************************************************)
EXTENDS FpCsr, TLAPS

(* The bits of base, and the bits of the rounding register that FPSpy      *)
(* takes over and gives back.                                              *)
TrapBits ==
  IF arch = "x64" THEN {0, 1, 2, 3, 4, 5}
  ELSE IF arch = "arm64" THEN {8, 9, 10, 11, 12, 15} ELSE {0, 1, 2, 3, 4}
RoundBits ==
  IF arch = "x64" THEN {6, 13, 14, 15} ELSE IF arch = "arm64" THEN {22, 23} ELSE {5, 6}

CsrType ==
  /\ arch \in Archs
  /\ base \subseteq TrapBits
  /\ phase \in {"config", "start", "watch", "step", "quiet"}
  /\ list \subseteq Exceptions /\ insn \subseteq Exceptions
  /\ had \in Originals
  /\ want = NoForce \/ want \in ForcedModes \X DazFtzModes
  /\ want = NoForce \/ our = config_round_daz_ftz(want[1], want[2])

(* Traps are on in phase watch, for the bits of base, and off otherwise.   *)
TrapsOn(b) == phase = "watch" /\ b \in base
MaskInv ==
  \A b \in TrapBits :
    IF arch = "x64" THEN b + 7 \in ctl <=> ~TrapsOn(b) ELSE b \in ctl <=> TrapsOn(b)

(* A flag that goes with a bit of base is clear while traps are on.        *)
Flag(b) == IF arch = "arm64" THEN b - 8 ELSE b
FlagInv == \A b \in TrapBits : TrapsOn(b) => Flag(b) \notin sts

(* The rounding bits are the target's before FPSpy starts and after it has *)
(* stopped, and the user's in between, if FPSpy controls them.             *)
Forcing == arch # "arm64" /\ want # NoForce /\ phase \in {"watch", "step"}
RoundInv ==
  /\ \A b \in RoundBits : b \in RoundReg <=> b \in IF Forcing THEN our ELSE ModeBits(had)
  /\ arch = "riscv64" => (7 \in sts <=> had = "maxmag")

(* What is to be put back.                                                 *)
OrigInv ==
  phase \in {"watch", "step"} =>
    /\ orig \subseteq RoundMask
    /\ \A b \in RoundBits : b \in orig <=> b \in ModeBits(had)

CsrInv == CsrType /\ MaskInv /\ FlagInv /\ RoundInv /\ OrigInv

(* The list is in base, as far as the architecture has its exceptions.     *)
BaseInv == base = BitsOf(list)

-----------------------------------------------------------------------------
(* Where the bits are, one architecture at a time.                         *)

LEMMA Arches ==
  ASSUME arch \in Archs PROVE arch \in {"x64", "arm64", "riscv64"}
BY CsrAssumption

LEMMA TrapBitOf ==
  ASSUME arch \in Archs
  PROVE  /\ arch = "x64" =>
              /\ TrapBit("invalid") = {0} /\ TrapBit("denorm") = {1} /\ TrapBit("divide") = {2}
              /\ TrapBit("overflow") = {3} /\ TrapBit("underflow") = {4}
              /\ TrapBit("precision") = {5}
         /\ arch = "arm64" =>
              /\ TrapBit("invalid") = {8} /\ TrapBit("denorm") = {15} /\ TrapBit("divide") = {9}
              /\ TrapBit("overflow") = {10} /\ TrapBit("underflow") = {11}
              /\ TrapBit("precision") = {12}
         /\ arch = "riscv64" =>
              /\ TrapBit("invalid") = {4} /\ TrapBit("denorm") = {} /\ TrapBit("divide") = {3}
              /\ TrapBit("overflow") = {2} /\ TrapBit("underflow") = {1}
              /\ TrapBit("precision") = {0}
BY DEF TrapBit, X64TrapBits, Arm64TrapBits, Riscv64TrapBits

(* Every exception has at most one bit, of its own.                        *)
LEMMA TrapBitOK ==
  ASSUME arch \in Archs
  PROVE  /\ \A e \in Exceptions : TrapBit(e) \subseteq TrapBits
         /\ \A e, f \in Exceptions : e # f => TrapBit(e) \cap TrapBit(f) = {}
         /\ \A b \in TrapBits : \E e \in Exceptions : TrapBit(e) = {b}
         /\ TrapBits \subseteq Nat
<1>1. CASE arch = "x64"
  BY <1>1, TrapBitOf DEF TrapBits, Exceptions
<1>2. CASE arch = "arm64"
  BY <1>2, TrapBitOf DEF TrapBits, Exceptions
<1>3. CASE arch = "riscv64"
  BY <1>3, TrapBitOf DEF TrapBits, Exceptions
<1> QED
  BY <1>1, <1>2, <1>3, Arches

LEMMA BitsOfOK ==
  ASSUME arch \in Archs
  PROVE  /\ AllBits = TrapBits
         /\ \A E \in SUBSET Exceptions : BitsOf(E) \subseteq TrapBits
         /\ \A E \in SUBSET Exceptions : TrapBits \ BitsOf(Exceptions \ E) = BitsOf(E)
<1>1. \A E \in SUBSET Exceptions : BitsOf(E) \subseteq TrapBits
  BY TrapBitOK DEF BitsOf
<1>2. AllBits = TrapBits
  <2>1. TrapBits \subseteq AllBits
    BY TrapBitOK DEF BitsOf, AllBits
  <2> QED
    BY <1>1, <2>1 DEF AllBits
<1>3. ASSUME NEW E \in SUBSET Exceptions PROVE TrapBits \ BitsOf(Exceptions \ E) = BitsOf(E)
  <2>1. ASSUME NEW b \in TrapBits, b \notin BitsOf(Exceptions \ E) PROVE b \in BitsOf(E)
    BY <2>1, TrapBitOK DEF BitsOf
  <2>2. ASSUME NEW b \in BitsOf(E), b \in BitsOf(Exceptions \ E) PROVE FALSE
    <3>1. PICK e \in E : b \in TrapBit(e)
      BY DEF BitsOf
    <3>2. PICK f \in Exceptions \ E : b \in TrapBit(f)
      BY <2>2 DEF BitsOf
    <3> QED
      BY <3>1, <3>2, TrapBitOK
  <2> QED
    BY <1>1, <2>1, <2>2
<1> QED
  BY <1>1, <1>2, <1>3

(* The bits of rounding modes and DAZ/FTZ settings are no trap's, mask's   *)
(* or flag's.                                                              *)
LEMMA RoundBitsOK ==
  ASSUME arch \in Archs, NEW m \in ForcedModes, NEW d \in DazFtzModes
  PROVE  /\ arch = "x64" => config_round_daz_ftz(m, d) \subseteq {6, 13, 14, 15}
         /\ arch = "riscv64" => config_round_daz_ftz(m, d) \subseteq {5, 6}
<1>1. CASE arch = "x64"
  <2>1. ModeBits(m) \subseteq {13, 14}
    BY <1>1 DEF ModeBits, X64Modes, ForcedModes, Modes
  <2>2. DazFtzBits(d) \subseteq {6, 15}
    BY <1>1 DEF DazFtzBits, X64DazFtz, DazFtzModes
  <2> QED
    BY <1>1, <2>1, <2>2 DEF config_round_daz_ftz
<1>2. CASE arch = "riscv64"
  <2>1. ModeBits(m) \subseteq {5, 6}
    BY <1>2 DEF ModeBits, Riscv64Modes, ForcedModes, Modes
  <2>2. DazFtzBits(d) = {}
    BY <1>2 DEF DazFtzBits, Riscv64DazFtz, DazFtzModes
  <2> QED
    BY <1>2, <2>1, <2>2 DEF config_round_daz_ftz
<1> QED
  BY <1>1, <1>2

-----------------------------------------------------------------------------
(* What the handlers do to the registers.                                  *)

LEMMA SetRegistersOK ==
  ASSUME arch \in Archs, NEW c, NEW s, NEW r, SetRegisters(c, s, r)
  PROVE  /\ arch = "x64" =>
              /\ ctl' = IF want = NoForce THEN c ELSE (c \ {6, 13, 14, 15}) \cup r
              /\ sts' = s
         /\ arch = "arm64" => ctl' = c /\ sts' = s
         /\ arch = "riscv64" =>
              /\ ctl' = c
              /\ sts' = IF want = NoForce THEN s ELSE (s \ {4, 5, 6}) \cup r
<1>1. arch = "x64" => RoundMask = {6, 13, 14, 15}
  BY DEF RoundMask
<1>2. arch = "riscv64" => RoundMask = {4, 5, 6}
  BY DEF RoundMask
<1> QED
  BY <1>1, <1>2, Arches
  DEF SetRegisters, arch_set_round_config, X64SetRound, Arm64SetRound, Riscv64SetRound

(* Masks and flags after brk_trap_handler() has unmasked the traps ...     *)
LEMMA WatchingOK ==
  ASSUME CsrType, NEW s, Watching(s), phase' = "watch", MaskInv,
         UNCHANGED <<arch, base, our, want>>
  PROVE  MaskInv' /\ FlagInv'
<1> USE DEF CsrType
<1>0. TrapBits' = TrapBits /\ \A b : TrapsOn(b)' <=> b \in base
  BY DEF TrapBits, TrapsOn
<1>1. CASE arch = "x64"
  <2>1. our \subseteq {6, 13, 14, 15} \/ want = NoForce
    BY <1>1, RoundBitsOK
  <2>2. /\ \A b \in TrapBits : b + 7 \in ctl' <=> b + 7 \in ctl \ MaskBits(base)
        /\ sts' = s \ base
    BY <1>1, <2>1, SetRegistersOK
    DEF Watching, arch_unmask_fp_traps, arch_clear_fp_exceptions, FlagBits, TrapBits
  <2>3. \A b \in TrapBits : b + 7 \in MaskBits(base) <=> b \in base
    BY <1>1 DEF MaskBits, TrapBits
  <2>4. \A b \in TrapBits : b + 7 \in ctl' <=> b \notin base
    BY <1>1, <2>2, <2>3 DEF MaskInv, TrapsOn
  <2> QED
    BY <1>0, <1>1, <2>2, <2>4 DEF MaskInv, FlagInv, Flag
<1>2. CASE arch = "arm64"
  <2>1. ctl' = ctl \cup base /\ sts' = s \ {b - 8 : b \in base}
    BY <1>2, SetRegistersOK
    DEF Watching, arch_unmask_fp_traps, arch_clear_fp_exceptions, FlagBits
  <2> QED
    BY <1>0, <1>2, <2>1 DEF MaskInv, FlagInv, Flag, TrapsOn
<1>3. CASE arch = "riscv64"
  <2>1. our \subseteq {5, 6} \/ want = NoForce
    BY <1>3, RoundBitsOK
  <2>2. ctl' = ctl \cup base /\ \A b \in base : b \notin sts'
    BY <1>3, <2>1, SetRegistersOK
    DEF Watching, arch_unmask_fp_traps, arch_clear_fp_exceptions, FlagBits, TrapBits
  <2> QED
    BY <1>0, <1>3, <2>2 DEF MaskInv, FlagInv, Flag, TrapsOn
<1> QED
  BY <1>1, <1>2, <1>3, Arches

(* ... and after a handler has masked them.                                *)
LEMMA MaskedOK ==
  ASSUME CsrType, NEW s, NEW r, SetRegisters(arch_mask_fp_traps(ctl), s, r),
         arch = "x64" => r \cap {7, 8, 9, 10, 11, 12} = {} \/ want = NoForce,
         phase' # "watch", MaskInv, UNCHANGED <<arch, base>>
  PROVE  MaskInv' /\ FlagInv'
<1> USE DEF CsrType
<1>0. TrapBits' = TrapBits /\ \A b : ~TrapsOn(b)'
  BY DEF TrapBits, TrapsOn
<1>1. CASE arch = "x64"
  <2>1. \A b \in TrapBits : b + 7 \in ctl' <=> b + 7 \in ctl \cup MaskBits(base)
    BY <1>1, SetRegistersOK DEF arch_mask_fp_traps, TrapBits
  <2>2. \A b \in TrapBits : b + 7 \in MaskBits(base) <=> b \in base
    BY <1>1 DEF MaskBits, TrapBits
  <2> QED
    BY <1>0, <1>1, <2>1, <2>2 DEF MaskInv, FlagInv, TrapsOn
<1>2. CASE arch # "x64"
  <2>1. ctl' = ctl \ base
    BY <1>2, SetRegistersOK, Arches DEF arch_mask_fp_traps
  <2> QED
    BY <1>0, <1>2, <2>1 DEF MaskInv, FlagInv, TrapsOn
<1> QED
  BY <1>1, <1>2

(* The masks and the flags have none of the rounding bits, so only what    *)
(* arch_set_round_config() is given changes them.                          *)
LEMMA RoundSetOK ==
  ASSUME CsrType, NEW c, NEW s, NEW r, SetRegisters(c, s, r), UNCHANGED arch,
         arch # "riscv64" => \A b \in RoundBits : b \in c <=> b \in ctl,
         arch = "riscv64" => \A b \in {5, 6, 7} : b \in s <=> b \in sts
  PROVE  /\ \A b \in RoundBits :
              b \in RoundReg' <=> b \in IF want # NoForce /\ arch # "arm64" THEN r ELSE RoundReg
         /\ arch = "riscv64" /\ 7 \notin r => (7 \in sts' <=> 7 \in sts)
<1> USE DEF CsrType, RoundReg
<1>1. CASE arch = "x64"
  BY <1>1, SetRegistersOK DEF RoundBits
<1>2. CASE arch = "arm64"
  BY <1>2, SetRegistersOK DEF RoundBits
<1>3. CASE arch = "riscv64"
  BY <1>3, SetRegistersOK DEF RoundBits
<1> QED
  BY <1>1, <1>2, <1>3, Arches

LEMMA KeepsRounding ==
  ASSUME CsrType, NEW E \in SUBSET Exceptions
  PROVE  /\ arch # "riscv64" =>
              \A b \in RoundBits : /\ b \in arch_mask_fp_traps(ctl) <=> b \in ctl
                                   /\ b \in arch_unmask_fp_traps(ctl) <=> b \in ctl
         /\ arch = "riscv64" =>
              \A b \in {5, 6, 7} :
                /\ b \in arch_clear_fp_exceptions(sts) <=> b \in sts
                /\ b \in arch_clear_fp_exceptions(sts \cup FlagBits(BitsOf(E))) <=> b \in sts
                /\ b \in sts \cup FlagBits(BitsOf(E)) <=> b \in sts
<1> USE DEF CsrType, arch_mask_fp_traps, arch_unmask_fp_traps, arch_clear_fp_exceptions
<1>1. CASE arch = "x64"
  <2>1. \A b \in RoundBits : b \notin MaskBits(base)
    BY <1>1 DEF RoundBits, MaskBits, TrapBits
  <2> QED
    BY <1>1, <2>1
<1>2. CASE arch = "arm64"
  <2>1. \A b \in RoundBits : b \notin base
    BY <1>2 DEF RoundBits, TrapBits
  <2> QED
    BY <1>2, <2>1
<1>3. CASE arch = "riscv64"
  <2>1. BitsOf(E) \subseteq {0, 1, 2, 3, 4} /\ base \subseteq {0, 1, 2, 3, 4}
    BY <1>3, BitsOfOK DEF TrapBits
  <2> QED
    BY <1>3, <2>1 DEF FlagBits
<1> QED
  BY <1>1, <1>2, <1>3, Arches

(* RoundInv after a handler has set the user's rounding ...                *)
LEMMA ForcedOK ==
  ASSUME CsrType, RoundInv, NEW c, NEW s, SetRegisters(c, s, our),
         phase' \in {"watch", "step"}, UNCHANGED <<arch, our, want, had>>,
         arch # "riscv64" => \A b \in RoundBits : b \in c <=> b \in ctl,
         arch = "riscv64" => \A b \in {5, 6, 7} : b \in s <=> b \in sts
  PROVE  RoundInv'
<1>1. RoundBits' = RoundBits /\ ModeBits(had)' = ModeBits(had)
  BY DEF RoundBits, ModeBits
<1>2. Forcing' <=> want # NoForce /\ arch # "arm64"
  BY DEF Forcing
<1>3. want # NoForce /\ arch = "riscv64" => 7 \notin our
  BY RoundBitsOK DEF CsrType
<1>4. want = NoForce /\ arch = "riscv64" => sts' = s
  BY SetRegistersOK DEF CsrType
<1>5. arch = "riscv64" => (7 \in sts' <=> 7 \in sts)
  BY <1>3, <1>4, RoundSetOK
<1>6. ASSUME NEW b \in RoundBits
      PROVE  b \in RoundReg' <=> b \in IF Forcing' THEN our ELSE ModeBits(had)
  <2>1. CASE Forcing'
    BY <1>2, <2>1, RoundSetOK
  <2>2. CASE ~Forcing'
    <3>1. b \in RoundReg' <=> b \in RoundReg
      BY <1>2, <2>2, RoundSetOK
    <3> QED
      BY <1>2, <2>2, <3>1 DEF RoundInv, Forcing
  <2> QED
    BY <2>1, <2>2
<1> QED
  BY <1>1, <1>5, <1>6 DEF RoundInv

(* ... and after it has given the target's back.                           *)
LEMMA PutBackOK ==
  ASSUME CsrType, RoundInv, OrigInv, NEW c, NEW s, SetRegisters(c, s, orig),
         phase = "watch", phase' = "quiet", UNCHANGED <<arch, want, had>>,
         arch # "riscv64" => \A b \in RoundBits : b \in c <=> b \in ctl,
         arch = "riscv64" => \A b \in {5, 6, 7} : b \in s <=> b \in sts
  PROVE  RoundInv'
<1>1. RoundBits' = RoundBits /\ ModeBits(had)' = ModeBits(had) /\ ~Forcing'
  BY DEF RoundBits, ModeBits, Forcing
<1>2. arch = "riscv64" => 7 \notin orig
  BY DEF OrigInv, RoundMask
<1>3. ASSUME NEW b \in RoundBits PROVE b \in RoundReg' <=> b \in ModeBits(had)
  <2>1. CASE want # NoForce /\ arch # "arm64"
    BY <2>1, RoundSetOK DEF OrigInv
  <2>2. CASE ~(want # NoForce /\ arch # "arm64")
    BY <2>2, RoundSetOK DEF RoundInv, Forcing
  <2> QED
    BY <2>1, <2>2
<1> QED
  BY <1>1, <1>2, <1>3, RoundSetOK DEF RoundInv

-----------------------------------------------------------------------------
(* The inductive invariant.                                                *)

(* What traps, in terms of base.                                           *)
LEMMA TrapsOK ==
  ASSUME CsrType, MaskInv
  PROVE  Traps = {e \in Supported : phase = "watch" /\ TrapBit(e) \subseteq base}
<1> SUFFICES ASSUME NEW e \in Supported
             PROVE  (IF arch = "x64" THEN MaskBits(TrapBit(e)) \cap ctl = {} ELSE TrapBit(e) \subseteq ctl)
                      <=> phase = "watch" /\ TrapBit(e) \subseteq base
  BY DEF Traps
<1>1. PICK b \in TrapBits : TrapBit(e) = {b}
  <2>1. PICK b \in TrapBit(e) : TRUE
    BY DEF Supported
  <2>2. e \in Exceptions /\ b \in TrapBits
    BY <2>1, TrapBitOK DEF Supported, CsrType
  <2>3. PICK f \in Exceptions : TrapBit(f) = {b}
    BY <2>2, TrapBitOK DEF CsrType
  <2> QED
    BY <2>1, <2>2, <2>3, TrapBitOK DEF CsrType
<1>2. MaskBits(TrapBit(e)) = {b + 7}
  BY <1>1 DEF MaskBits
<1> QED
  BY <1>1, <1>2 DEF MaskInv, TrapsOn

LEMMA CsrInvInit == Init => CsrInv
<1> SUFFICES ASSUME Init PROVE CsrInv
  OBVIOUS
<1>0. arch \in Archs /\ had \in Modes /\ (had = "maxmag" => arch = "riscv64")
  BY CsrAssumption DEF Init
<1>1. CsrType
  BY <1>0, BitsOfOK DEF Init, CsrType
<1>2. CASE arch = "x64"
  <2>1. ModeBits(had) \subseteq {13, 14}
    BY <1>0, <1>2 DEF ModeBits, X64Modes, Modes
  <2>2. ctl = {b + 7 : b \in TrapBits} \cup ModeBits(had)
    BY <1>0, <1>2, BitsOfOK DEF Init, MaskBits
  <2>3. MaskInv /\ RoundInv
    BY <1>2, <2>1, <2>2 DEF MaskInv, RoundInv, RoundReg, TrapsOn, Init, TrapBits, RoundBits, Forcing
  <2> QED
    BY <1>1, <2>3 DEF CsrInv, FlagInv, OrigInv, Init, TrapsOn
<1>3. CASE arch = "arm64"
  <2>1. ModeBits(had) \subseteq {22, 23}
    BY <1>0, <1>3 DEF ModeBits, Arm64Modes, Modes
  <2>2. MaskInv /\ RoundInv
    BY <1>3, <2>1 DEF MaskInv, RoundInv, RoundReg, TrapsOn, Init, TrapBits, RoundBits, Forcing
  <2> QED
    BY <1>1, <2>2 DEF CsrInv, FlagInv, OrigInv, Init, TrapsOn
<1>4. CASE arch = "riscv64"
  <2>1. 7 \in ModeBits(had) <=> had = "maxmag"
    BY <1>0, <1>4 DEF ModeBits, Riscv64Modes, Modes
  <2>2. MaskInv /\ RoundInv
    BY <1>4, <2>1 DEF MaskInv, RoundInv, RoundReg, TrapsOn, Init, TrapBits, RoundBits, Forcing
  <2> QED
    BY <1>1, <2>2 DEF CsrInv, FlagInv, OrigInv, Init, TrapsOn
<1> QED
  BY <1>0, <1>2, <1>3, <1>4, Arches

LEMMA ConfigureInv == ASSUME CsrInv, Configure PROVE CsrInv'
<1> USE DEF CsrInv, Configure
<1>0. /\ TrapBits' = TrapBits /\ RoundBits' = RoundBits /\ ModeBits(had)' = ModeBits(had)
      /\ arch \in Archs
  BY DEF TrapBits, RoundBits, ModeBits, CsrType
<1>1. base' \subseteq TrapBits /\ list' \subseteq Exceptions
  <2>1. CASE UNCHANGED <<base, list>>
    BY <2>1 DEF CsrType
  <2>2. ASSUME NEW E \in Lists[arch], base' = config_exceptions(E), list' = E
        PROVE  base' \subseteq TrapBits /\ list' \subseteq Exceptions
    <3>1. E \subseteq Exceptions
      BY <1>0, CsrAssumption
    <3> QED
      BY <1>0, <2>2, <3>1, BitsOfOK
      DEF config_exceptions, arch_set_trap_mask, arch_clear_trap_mask
  <2> QED
    BY <2>1, <2>2
<1>2. want' = NoForce \/ (want' \in ForcedModes \X DazFtzModes /\ our' = config_round_daz_ftz(want[1], want[2])')
  <2>1. CASE UNCHANGED <<our, orig, want>>
    BY <2>1 DEF CsrType, config_round_daz_ftz, ModeBits, DazFtzBits
  <2>2. ASSUME NEW m \in Roundings[arch], NEW d \in DazFtz,
               our' = config_round_daz_ftz(m, d), want' = <<m, d>>
        PROVE  want' \in ForcedModes \X DazFtzModes /\ our' = config_round_daz_ftz(want[1], want[2])'
    <3>1. m \in ForcedModes /\ d \in DazFtzModes
      BY <1>0, CsrAssumption
    <3> QED
      BY <2>2, <3>1 DEF config_round_daz_ftz, ModeBits, DazFtzBits
  <2> QED
    BY <2>1, <2>2
<1>3. CsrType'
  BY <1>0, <1>1, <1>2 DEF CsrType
<1>4. MaskInv' /\ FlagInv' /\ OrigInv'
  BY <1>0 DEF MaskInv, FlagInv, TrapsOn, OrigInv
<1>5. RoundInv'
  BY <1>0 DEF RoundInv, RoundReg, Forcing
<1> QED
  BY <1>3, <1>4, <1>5

LEMMA StepInv == ASSUME CsrInv, Next, ~Configure PROVE CsrInv'
<1> USE DEF CsrInv
<1>0. TrapBits' = TrapBits /\ RoundBits' = RoundBits /\ ModeBits(had)' = ModeBits(had) /\ CsrType'
  BY DEF Next, Start, Trap, NoTrap, Stepped, Quit, CsrType, TrapBits, RoundBits, ModeBits,
         DazFtzBits, config_round_daz_ftz, Exceptions
<1>1. CASE Start
  <2>1. MaskInv' /\ FlagInv'
    BY <1>1, WatchingOK DEF Start
  <2>2. RoundInv'
    BY <1>1, {} \in SUBSET Exceptions, ForcedOK, KeepsRounding DEF Start, Watching
  <2>3. OrigInv'
    <3>1. ~Forcing /\ orig' = RoundReg \cap RoundMask /\ RoundMask' = RoundMask
      BY <1>1 DEF Start, Forcing, arch_get_round_config, RoundMask
    <3>2. RoundBits \subseteq RoundMask
      BY Arches DEF RoundBits, RoundMask, CsrType
    <3> QED
      BY <1>0, <3>1, <3>2 DEF OrigInv, RoundInv
  <2> QED
    BY <1>0, <2>1, <2>2, <2>3
<1>2. ASSUME NEW E \in SUBSET Exceptions, Trap(E) PROVE CsrInv'
  <2>1. arch = "x64" => our \cap {7, 8, 9, 10, 11, 12} = {} \/ want = NoForce
    BY RoundBitsOK DEF CsrType
  <2>2. MaskInv' /\ FlagInv'
    BY <1>2, <2>1, MaskedOK DEF Trap
  <2>3. RoundInv'
    BY <1>2, ForcedOK, KeepsRounding DEF Trap
  <2>4. OrigInv'
    BY <1>0, <1>2 DEF Trap, OrigInv, RoundMask
  <2> QED
    BY <1>0, <2>2, <2>3, <2>4
<1>3. ASSUME NEW E \in SUBSET Exceptions, NoTrap(E) PROVE CsrInv'
  <2>1. MaskInv'
    BY <1>0, <1>3 DEF NoTrap, MaskInv, TrapsOn
  <2>2. RoundInv'
    <3>1. /\ ctl' = ctl /\ sts' = sts \cup FlagBits(BitsOf(E)) /\ arch' = arch /\ our' = our
          /\ had' = had /\ (Forcing' <=> Forcing)
      BY <1>3 DEF NoTrap, Forcing
    <3>2. arch = "riscv64" => \A b \in {5, 6, 7} : b \in sts' <=> b \in sts
      BY <3>1, KeepsRounding
    <3>3. \A b \in RoundBits : b \in RoundReg' <=> b \in RoundReg
      BY <3>1, <3>2, Arches DEF RoundReg, RoundBits, CsrType
    <3> QED
      BY <1>0, <3>1, <3>2, <3>3 DEF RoundInv
  <2>3. FlagInv'
    <3> SUFFICES ASSUME NEW b \in TrapBits, TrapsOn(b) PROVE Flag(b) \notin FlagBits(BitsOf(E))
      BY <1>0, <1>3 DEF NoTrap, FlagInv, TrapsOn, Flag
    <3>1. b \notin BitsOf(E)
      <4> SUFFICES ASSUME NEW e \in E, b \in TrapBit(e) PROVE FALSE
        BY DEF BitsOf
      <4>1. PICK f \in Exceptions : TrapBit(f) = {b}
        BY TrapBitOK DEF CsrType
      <4>2. f = e
        BY <4>1, TrapBitOK DEF CsrType
      <4>3. e \in Traps
        BY <4>1, <4>2, TrapsOK DEF TrapsOn, Supported
      <4> QED
        BY <1>3, <4>3 DEF NoTrap
    <3>2. BitsOf(E) \subseteq Nat /\ b \in Nat
      BY BitsOfOK, TrapBitOK DEF CsrType
    <3> QED
      BY <3>1, <3>2 DEF Flag, FlagBits
  <2>4. OrigInv'
    BY <1>0, <1>3 DEF NoTrap, OrigInv, RoundMask
  <2> QED
    BY <1>0, <2>1, <2>2, <2>3, <2>4
<1>4. CASE Stepped
  <2>1. insn \in SUBSET Exceptions
    BY DEF CsrType
  <2>2. MaskInv' /\ FlagInv'
    BY <1>4, WatchingOK DEF Stepped
  <2>3. RoundInv'
    BY <1>4, <2>1, ForcedOK, KeepsRounding DEF Stepped, Watching
  <2>4. OrigInv'
    BY <1>0, <1>4 DEF Stepped, OrigInv, RoundMask
  <2> QED
    BY <1>0, <2>2, <2>3, <2>4
<1>5. CASE Quit
  <2>1. arch = "x64" => orig \cap {7, 8, 9, 10, 11, 12} = {}
    BY <1>5 DEF Quit, OrigInv, RoundMask
  <2>2. MaskInv' /\ FlagInv'
    BY <1>5, <2>1, MaskedOK DEF Quit
  <2>3. RoundInv'
    BY <1>5, PutBackOK, KeepsRounding DEF Quit
  <2>4. OrigInv'
    BY <1>5 DEF Quit, OrigInv
  <2> QED
    BY <1>0, <2>2, <2>3, <2>4
<1>6. \A e \in Exceptions : {e, "precision"} \in SUBSET Exceptions /\ {e} \in SUBSET Exceptions
  BY DEF Exceptions
<1> QED
  BY <1>1, <1>2, <1>3, <1>4, <1>5, <1>6 DEF Next

LEMMA CsrInvAlways == Spec => []CsrInv
<1>1. CsrInv /\ UNCHANGED vars => CsrInv'
  BY DEF vars, CsrInv, CsrType, MaskInv, FlagInv, RoundInv, OrigInv, TrapsOn, Flag, Forcing,
         RoundReg, RoundMask, TrapBits, RoundBits, ModeBits, DazFtzBits, config_round_daz_ftz
<1>2. CsrInv /\ [Next]_vars => CsrInv'
  BY <1>1, ConfigureInv, StepInv
<1> QED
  BY CsrInvInit, <1>2, PTL DEF Spec

-----------------------------------------------------------------------------
(* The theorems.                                                           *)

(* While an instruction is stepped over and after FPSpy has stopped no     *)
(* floating point exception traps, on any architecture and whatever        *)
(* FPSPY_EXCEPT_LIST and FPSPY_FORCE_ROUNDING say (arch_mask_fp_traps).    *)
THEOREM NothingElseTraps == Spec => []SilentOtherwise
<1>1. CsrInv => SilentOtherwise
  BY TrapsOK DEF CsrInv, SilentOtherwise
<1> QED
  BY CsrInvAlways, <1>1, PTL

(* When an exception can trap its flag is clear, so the flags a record     *)
(* shows were raised by the recorded instruction                           *)
(* (arch_clear_fp_exceptions), on every architecture.                      *)
THEOREM RecordedFlagsAreOwn == Spec => []FlagsAreOwn
<1>1. CsrInv => FlagsAreOwn
  <2> SUFFICES ASSUME CsrInv, phase = "watch", NEW e \in Traps, NEW x \in FlagBits(TrapBit(e))
               PROVE  x \notin sts
    BY DEF FlagsAreOwn
  <2>1. e \in Exceptions /\ TrapBit(e) \subseteq base
    BY TrapsOK DEF CsrInv, Supported
  <2>2. PICK b \in TrapBit(e) : x = Flag(b)
    BY DEF FlagBits, Flag
  <2>3. b \in TrapBits /\ TrapsOn(b)
    BY <2>1, <2>2 DEF TrapsOn, CsrInv, CsrType
  <2> QED
    BY <2>2, <2>3 DEF CsrInv, FlagInv
<1> QED
  BY CsrInvAlways, <1>1, PTL

(* When FPSpy stops, the target rounds the way it did before FPSpy, for    *)
(* every mode it may have started with and every mode the user forces      *)
(* (arch_get_round_config, arch_set_round_config).                         *)
THEOREM RoundingIsPutBack == Spec => []RoundingPutBack
<1>1. CsrInv => RoundingPutBack
  <2> SUFFICES ASSUME CsrInv, phase = "quiet" PROVE HwRounds(had)
    BY DEF RoundingPutBack
  <2>0. arch \in Archs /\ ~Forcing /\ had \in Modes /\ (had = "maxmag" => arch = "riscv64")
    BY CsrAssumption DEF CsrInv, CsrType, Forcing
  <2>1. \A b \in RoundBits : b \in RoundReg <=> b \in ModeBits(had)
    BY <2>0 DEF CsrInv, RoundInv
  <2>2. CASE arch = "x64"
    <3>1. ModeBits(had) \subseteq {13, 14} /\ RoundingField = {13, 14}
      BY <2>0, <2>2 DEF ModeBits, X64Modes, Modes, RoundingField
    <3> QED
      BY <2>1, <2>2, <3>1 DEF HwRounds, RoundBits
  <2>3. CASE arch = "arm64"
    <3>1. ModeBits(had) \subseteq {22, 23} /\ RoundingField = {22, 23}
      BY <2>0, <2>3 DEF ModeBits, Arm64Modes, Modes, RoundingField
    <3> QED
      BY <2>1, <2>3, <3>1 DEF HwRounds, RoundBits
  <2>4. CASE arch = "riscv64"
    <3>1. ModeBits(had) \subseteq {5, 6, 7} /\ (7 \in ModeBits(had) <=> had = "maxmag")
      BY <2>0, <2>4 DEF ModeBits, Riscv64Modes, Modes
    <3>2. RoundingField = {5, 6, 7} /\ RoundReg = sts
      BY <2>4 DEF RoundingField, RoundReg
    <3>3. 7 \in sts <=> had = "maxmag"
      BY <2>4 DEF CsrInv, RoundInv
    <3> QED
      BY <2>1, <2>4, <3>1, <3>2, <3>3 DEF HwRounds, RoundBits
  <2> QED
    BY <2>0, <2>2, <2>3, <2>4, Arches
<1> QED
  BY CsrInvAlways, <1>1, PTL

(* While FPSpy watches, exactly the exceptions of FPSPY_EXCEPT_LIST trap,  *)
(* as far as the machine has them.  Not so on x64, where                   *)
(* config_exceptions() collects the exceptions that are not listed (the    *)
(* run csr_x64_list): there the theorem is about builds run without a      *)
(* list.                                                                   *)
THEOREM ListedAreIntercepted ==
  ASSUME "x64" \in Archs => Lists["x64"] = {} PROVE Spec => []InterceptsListed
<1>1. Init => BaseInv
  BY DEF Init, BaseInv, AllBits
<1>2. CsrInv /\ BaseInv /\ [Next]_vars => BaseInv'
  <2> SUFFICES ASSUME CsrInv, BaseInv, [Next]_vars PROVE BaseInv'
    OBVIOUS
  <2>1. arch \in Archs /\ arch' = arch
    BY DEF CsrInv, CsrType, Next, Configure, Start, Trap, NoTrap, Stepped, Quit, vars
  <2>3. ASSUME NEW E \in Lists[arch], base' = config_exceptions(E), list' = E PROVE BaseInv'
    <3>1. arch # "x64" /\ E \subseteq Exceptions
      BY <2>1, <2>3, CsrAssumption
    <3>2. base' = AllBits \ BitsOf(Exceptions \ E)
      BY <2>3, <3>1 DEF config_exceptions, arch_set_trap_mask, arch_clear_trap_mask
    <3>3. base' = BitsOf(E)
      BY <2>1, <3>1, <3>2, BitsOfOK
    <3>4. BitsOf(list)' = BitsOf(E)
      BY <2>1, <2>3 DEF BitsOf, TrapBit
    <3> QED
      BY <3>3, <3>4 DEF BaseInv
  <2>4. ASSUME UNCHANGED <<base, list>> PROVE BaseInv'
    BY <2>1, <2>4 DEF BaseInv, BitsOf, TrapBit
  <2> QED
    BY <2>3, <2>4 DEF Next, Configure, Start, Trap, NoTrap, Stepped, Quit, vars
<1>3. CsrInv /\ BaseInv => InterceptsListed
  <2> SUFFICES ASSUME CsrInv, BaseInv, phase = "watch", NEW e \in Supported
               PROVE  TrapBit(e) \subseteq base <=> e \in list
    BY TrapsOK DEF CsrInv, InterceptsListed
  <2>1. e \in Exceptions /\ TrapBit(e) # {} /\ list \subseteq Exceptions
    BY DEF Supported, CsrInv, CsrType
  <2>2. e \in list => TrapBit(e) \subseteq base
    BY DEF BaseInv, BitsOf
  <2>3. ASSUME TrapBit(e) \subseteq base PROVE e \in list
    <3>1. PICK b \in TrapBit(e) : TRUE
      BY <2>1
    <3>2. PICK f \in list : b \in TrapBit(f)
      BY <2>3, <3>1 DEF BaseInv, BitsOf
    <3> QED
      BY <2>1, <3>1, <3>2, TrapBitOK DEF CsrInv, CsrType
  <2> QED
    BY <2>2, <2>3
<1> QED
  BY CsrInvAlways, <1>1, <1>2, <1>3, PTL DEF Spec

(* The rounding mode, DAZ and FTZ that FPSPY_FORCE_ROUNDING names are the  *)
(* ones the target's instructions get, on x64 for every mode, and on       *)
(* riscv64 for a target that does not start in the one mode whose bit      *)
(* arch_set_round_config() does not clear.  On arm64 the new value is not  *)
(* stored, so nothing is claimed of forcing there.                         *)
THEOREM RoundingIsForced ==
  ASSUME "arm64" \in Archs => Roundings["arm64"] = {}, "maxmag" \notin Originals
  PROVE  Spec => []RoundingForced
<1> DEFINE NotOnArm == arch = "arm64" => want = NoForce
<1>1. Init => NotOnArm
  BY DEF Init
<1>2. CsrInv /\ NotOnArm /\ [Next]_vars => NotOnArm'
  <2> SUFFICES ASSUME CsrInv, NotOnArm, [Next]_vars PROVE NotOnArm'
    OBVIOUS
  <2>1. arch \in Archs /\ arch' = arch
    BY DEF CsrInv, CsrType, Next, Configure, Start, Trap, NoTrap, Stepped, Quit, vars
  <2> QED
    BY <2>1 DEF Next, Configure, Start, Trap, NoTrap, Stepped, Quit, vars
<1>3. CsrInv /\ NotOnArm => RoundingForced
  <2> SUFFICES ASSUME CsrInv, NotOnArm, phase \in {"watch", "step"}, want # NoForce
               PROVE  /\ HwRounds(want[1])
                      /\ arch # "riscv64" => arch_get_dazftz_mode(RoundReg) = want[2]
    BY DEF RoundingForced
  <2> DEFINE m == want[1]
             d == want[2]
  <2>0. /\ arch \in Archs /\ arch # "arm64" /\ Forcing
        /\ m \in ForcedModes /\ d \in DazFtzModes /\ our = ModeBits(m) \cup DazFtzBits(d)
    BY DEF CsrInv, CsrType, Forcing, config_round_daz_ftz
  <2>1. \A b \in RoundBits : b \in RoundReg <=> b \in our
    BY <2>0 DEF CsrInv, RoundInv
  <2> HIDE DEF m, d
  <2>2. CASE arch = "x64"
    <3>1. ModeBits(m) \subseteq {13, 14} /\ RoundingField = {13, 14}
      BY <2>0, <2>2 DEF ModeBits, X64Modes, ForcedModes, Modes, RoundingField
    <3>2. /\ DazFtzBits(d) \subseteq {6, 15}
          /\ (6 \in DazFtzBits(d) <=> d \in {"daz", "both"})
          /\ (15 \in DazFtzBits(d) <=> d \in {"ftz", "both"})
      BY <2>0, <2>2 DEF DazFtzBits, X64DazFtz, DazFtzModes
    <3>3. HwRounds(m)
      BY <2>0, <2>1, <2>2, <3>1, <3>2 DEF HwRounds, RoundBits
    <3>4. /\ 6 \in RoundReg <=> d \in {"daz", "both"}
          /\ 15 \in RoundReg <=> d \in {"ftz", "both"}
      BY <2>0, <2>1, <2>2, <3>1, <3>2 DEF RoundBits
    <3>5. arch_get_dazftz_mode(RoundReg) = d
      BY <2>0, <2>2, <3>4 DEF arch_get_dazftz_mode, X64Reads, DazFtzModes
    <3> QED
      BY <3>3, <3>5 DEF m, d
  <2>3. CASE arch = "riscv64"
    <3>1. ModeBits(m) \subseteq {5, 6} /\ RoundingField = {5, 6, 7} /\ RoundReg = sts
      BY <2>0, <2>3 DEF ModeBits, Riscv64Modes, ForcedModes, Modes, RoundingField, RoundReg
    <3>2. DazFtzBits(d) = {}
      BY <2>0, <2>3 DEF DazFtzBits, Riscv64DazFtz, DazFtzModes
    <3>3. 7 \notin sts
      BY <2>3 DEF CsrInv, CsrType, RoundInv
    <3>4. HwRounds(m)
      BY <2>0, <2>1, <2>3, <3>1, <3>2, <3>3 DEF HwRounds, RoundBits
    <3> QED
      BY <2>3, <3>4 DEF m
  <2> QED
    BY <2>0, <2>2, <2>3, Arches
<1> HIDE DEF NotOnArm
<1> QED
  BY CsrInvAlways, <1>1, <1>2, <1>3, PTL DEF Spec

=============================================================================
