------------------------------ MODULE MCMaster ------------------------------
(* The parts an administrator works with, for TLC: master data, settings,       *)
(* the import and the backups.  No request touches two of them and no row is    *)
(* shared, so a behaviour moves one part, and the others stay in one of their   *)
(* initial states.  A restore replaces all their rows: it is about scripts here. *)
EXTENDS Katalog, Pengaturan, Impor, Cadangan, TLC

VARIABLE giliran    \* the part that moves
varsMaster == <<giliran, varsKatalog, varsPengaturan, varsImpor, varsCadangan>>

DiamKatalog == jenis = "satuan" /\ InitKatalog
DiamPengaturan == bagian = "templat" /\ InitPengaturan
DiamImpor ==
    /\ lembar = [r \in BarisLembar |-> "stok"] /\ seiring = FALSE
    /\ InitImpor /\ \A r, s \in BarisLembar : milik[r] = milik[s]

InitMaster ==
    \/ giliran = "katalog" /\ InitKatalog /\ DiamPengaturan /\ DiamImpor /\ InitCadangan
    \/ giliran = "pengaturan" /\ InitPengaturan /\ DiamKatalog /\ DiamImpor /\ InitCadangan
    \/ giliran = "impor" /\ InitImpor /\ DiamKatalog /\ DiamPengaturan /\ InitCadangan
    \/ giliran = "cadangan" /\ InitCadangan /\ DiamKatalog /\ DiamPengaturan /\ DiamImpor

NextMaster ==
    /\ UNCHANGED giliran
    /\ \/ giliran = "katalog" /\ NextKatalog /\ UNCHANGED <<varsPengaturan, varsImpor, varsCadangan>>
       \/ giliran = "pengaturan" /\ NextPengaturan /\ UNCHANGED <<varsKatalog, varsImpor, varsCadangan>>
       \/ giliran = "impor" /\ NextImpor /\ UNCHANGED <<varsKatalog, varsPengaturan, varsCadangan>>
       \/ giliran = "cadangan" /\ NextCadangan /\ UNCHANGED <<varsKatalog, varsPengaturan, varsImpor>>

SpecMaster == InitMaster /\ [][NextMaster]_varsMaster

\* The type invariants of the parts, whichever of them moves: no form, request or
\* run is ever in a state its handler does not know.
TypeMaster == TypeKatalog /\ TypePengaturan /\ TypeImpor /\ TypeCadangan

\* The values are shared between the parts, so few permutations serve them all.
Simetri == Permutations(Baris) \cup Permutations(Kode) \cup Permutations(Pemakai)
=============================================================================
