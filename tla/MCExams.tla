------------------------------ MODULE MCExams ------------------------------
(* Interchangeable papers and request slots.                               *)
EXTENDS Exams, TLC

Symmetry == Permutations(Papers) \cup Permutations(Slots)

=============================================================================
