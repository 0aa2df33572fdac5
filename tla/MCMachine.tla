------------------------------- MODULE MCMachine -------------------------------
(* Instances of Machine for TLC. *)
EXTENDS Machine, MCCodeGen

\* The hypotheses of the theorems of Machine_proofs hold of these languages.
ASSUME MachineOrderly ==
    Languages = MachineLanguages => Orderly /\ ArgumentsPadded /\ SixRegistersSuffice
=============================================================================
