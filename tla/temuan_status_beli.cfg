SPECIFICATION Spec
CONSTANTS
  b1 = b1  b2 = b2  g1 = g1  g2 = g2  semen = semen
  Beli = {b1}
  Gudang = {g1, g2}
  Produk = {semen}
  Proses = {p1, p2}
  Diskon = {0}
  Jumlah = {1, 2}
  MaxBayar = 2
  MaxQty = 1
  StokAwal <- MCStokAwal
  Nilai <- MCNilai
INVARIANTS StatusMengikutiBayar
CHECK_DEADLOCK FALSE
