------------------------------- MODULE MCFpCsr ------------------------------
(* Constants of the runs on FpCsr.                                         *)
EXTENDS FpCsr

AllLists == SUBSET Exceptions

(* What each architecture is run with: the run csr leaves out the lists on *)
(* x64, which the run csr_x64_list is about, and forced rounding on arm64, *)
(* where arch_set_round_config() does not store it.                        *)
CsrLists == [x64 |-> {}, arm64 |-> AllLists, riscv64 |-> AllLists]
CsrRoundings == [x64 |-> ForcedModes, arm64 |-> {}, riscv64 |-> ForcedModes]
X64Lists == [x64 |-> AllLists]
X64NoRounding == [x64 |-> {}]

=============================================================================
