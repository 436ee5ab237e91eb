---------------------------- MODULE FakturDasar ----------------------------
(***************************************************************************)
(* What a sales invoice (faktur penjualan) is: the constants of the shop,  *)
(* the shape of an invoice row, and the pure calculations the services and *)
(* the database triggers make on totals and statuses.                      *)
(***************************************************************************)
EXTENDS StokDasar

CONSTANTS
    Faktur,       \* invoices, each named by the client_uuid of its form
    Urutan,       \* position of an invoice in the order of (tanggal, id)
    Diskon,       \* discounts an invoice form may carry
    MaxEdisi,     \* bound: edits of one invoice
    Nilai         \* gross value of a basket at the prices on the invoice

StatusForm == {"lunas", "kredit", "sebagian"}
StatusBayar == StatusForm \cup {"dibatalkan"}

ASSUME FakturAssumption ==
    /\ IsFiniteSet(Faktur)
    /\ MaxEdisi \in Nat
    /\ Diskon \subseteq Nat
    /\ Nilai \in [Isi -> Nat]
    /\ Nilai[IsiKosong] = 0
    /\ Urutan \in [Faktur -> Nat]
    /\ \A f, g \in Faktur : Urutan[f] = Urutan[g] => f = g

\* An invoice row with its items; status "belum" is the row not there yet, and
\* edisi counts how often its items were replaced.
BarisFaktur ==
    [status : StatusBayar \cup {"belum"}, gudang : Gudang, isi : Isi,
     total : Nat, edisi : 0..MaxEdisi]

BarisKosong ==
    [status |-> "belum", gudang |-> CHOOSE g \in Gudang : TRUE,
     isi |-> IsiKosong, total |-> 0, edisi |-> 0]

\* The total HitungTotal computes: value of the items less the discount, at least 0.
Total(isi, d) == IF Nilai[isi] >= d THEN Nilai[isi] - d ELSE 0

\* pembayaran_recompute_status, run by the trigger after every payment row.
StatusHitung(total, bayar) ==
    CASE bayar >= total -> "lunas"
      [] bayar < total /\ bayar > 0 -> "sebagian"
      [] OTHER -> "kredit"

=============================================================================
