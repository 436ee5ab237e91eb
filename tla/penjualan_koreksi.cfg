SPECIFICATION Spec
CONSTANTS
  f1 = f1  f2 = f2  g1 = g1  g2 = g2  semen = semen  paku = paku
  Faktur = {f1, f2}
  Urutan <- MCUrutan
  Gudang = {g1}
  Produk = {semen}
  Proses = {p1, p2}
  KunciBayar = {k1}
  Operasi = {"buat", "ubah", "batal"}
  Jumlah = {1}
  Diskon = {0}
  MaxQty = 2
  MaxEdisi = 1
  StokAwal <- MCStokAwal
  Nilai <- MCNilai
  Bebas = Bebas
INVARIANTS StokTidakNegatif KonservasiStok
CHECK_DEADLOCK FALSE
SYMMETRY Simetri
