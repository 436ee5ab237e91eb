SPECIFICATION Spec
CONSTANTS
  Mitra = {budi, sari}
  Proses = {p1, p2}
  Tanggal = {1, 2}
  Jumlah = {1, 2}
  MaxBaris = 3
INVARIANTS TypeOK SaldoSetia
CHECK_DEADLOCK FALSE
SYMMETRY Simetri
