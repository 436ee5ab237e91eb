SPECIFICATION Spec
CONSTANTS
  g1 = g1  g2 = g2  semen = semen  paku = paku
  Gudang = {g1, g2}
  Produk = {semen}
  Mutasi = {m1}
  Opname = {}
  Proses = {p1}
  Operasi = {"kirim", "sesuai"}
  Selisih <- MCSelisih
  MaxSesuai = 1
  MaxQty = 1
  StokAwal <- MCStokAwal
  BarisAwal <- MCBarisAwal
  Bebas = Bebas
INVARIANTS StokAman
CHECK_DEADLOCK FALSE
