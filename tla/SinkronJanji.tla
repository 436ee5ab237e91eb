---------------------------- MODULE SinkronJanji ----------------------------
(***************************************************************************)
(* What the offline mode promises about the forms of sales, seen from the  *)
(* cashier: a form that was handed over (dititip) is stored or lost after  *)
(* a while, and what is stored stays stored, once.                         *)
(***************************************************************************)
CONSTANT Form       \* client_uuids of sales forms

VARIABLE status     \* where each form is

Init == status = [f \in Form |-> "baru"]

\* The cashier submits a form, for the first time or again after it was lost.
Titip(f) ==
    /\ status[f] \in {"baru", "hilang"}
    /\ status' = [status EXCEPT ![f] = "dititip"]

\* The server stores it.
Simpan(f) ==
    /\ status[f] # "tersimpan"
    /\ status' = [status EXCEPT ![f] = "tersimpan"]

\* Nobody holds it any more.
Hilangkan(f) ==
    /\ status[f] # "tersimpan"
    /\ status' = [status EXCEPT ![f] = "hilang"]

\* A logout empties the queue of every form at once.
Kosongkan ==
    \E F \in SUBSET {f \in Form : status[f] = "dititip"} :
        status' = [f \in Form |-> IF f \in F THEN "hilang" ELSE status[f]]

Next == Kosongkan \/ \E f \in Form : Titip(f) \/ Simpan(f) \/ Hilangkan(f)

Tuntas == \A f \in Form : status[f] = "dititip" ~> status[f] # "dititip"

Aman == Init /\ [][Next]_status
Spec == Aman /\ Tuntas

=============================================================================
