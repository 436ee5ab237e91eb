SPECIFICATION Spec
CONSTANTS
  f1 = f1  f2 = f2  g1 = g1  g2 = g2  semen = semen  paku = paku
  Faktur = {f1, f2}
  Urutan <- MCUrutan
  Gudang = {g1}
  Produk = {semen}
  Proses = {p1, p2}
  KunciBayar = {k1}
  Operasi = {"buat", "bayar", "cicil", "retur"}
  Jumlah = {1, 3}
  Diskon = {0, 1}
  MaxQty = 1
  MaxEdisi = 0
  StokAwal <- MCStokAwal
  Nilai <- MCNilai
  Bebas = Bebas
INVARIANTS TidakLebihBayar KonservasiStok CicilDariTertua
CHECK_DEADLOCK FALSE
SYMMETRY Simetri
