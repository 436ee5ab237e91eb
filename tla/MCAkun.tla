------------------------------- MODULE MCAkun -------------------------------
(* Values of the constants of Akun for TLC.  Two roles are enough: one that may *)
(* manage users and one that may not.  The requests are interchangeable.       *)
EXTENDS Akun, TLC

Simetri == Permutations(Minta)

=============================================================================
