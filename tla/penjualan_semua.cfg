SPECIFICATION Spec
CONSTANTS
  f1 = f1  f2 = f2  g1 = g1  g2 = g2  semen = semen  paku = paku
  Faktur = {f1}
  Urutan <- MCUrutan
  Gudang = {g1, g2}
  Produk = {semen}
  Proses = {p1, p2}
  KunciBayar = {k1}
  Operasi = {"buat", "ubah", "batal", "bayar", "cicil", "retur"}
  Jumlah = {1, 3}
  Diskon = {0}
  MaxQty = 2
  MaxEdisi = 1
  StokAwal <- MCStokAwal
  Nilai <- MCNilai
  Bebas = Bebas
INVARIANT TypeOK
PROPERTIES ReturLebihHanyaGanda BayarTidakMelampaui BatalHanyaDibayar SatuPerSatu StokIkutFaktur BayarMembekukan
CHECK_DEADLOCK FALSE
SYMMETRY Simetri
