SPECIFICATION Spec
CONSTANTS
  g1 = g1  g2 = g2  semen = semen  paku = paku
  Gudang = {g1, g2}
  Produk = {semen}
  Mutasi = {m1, m2}
  Opname = {o1}
  Proses = {p1, p2}
  Operasi = {"kirim", "terima", "batal", "hitung", "ajukan", "setujui", "sesuai"}
  Selisih <- MCSelisih
  MaxSesuai = 1
  MaxQty = 1
  StokAwal <- MCStokAwal
  BarisAwal <- MCBarisAwal
  Bebas = Bebas
INVARIANTS TypeOK StokAmanBarisAwal
PROPERTIES MutasiTuntas StokIkutDokumen
CHECK_DEADLOCK FALSE
SYMMETRY Simetri
