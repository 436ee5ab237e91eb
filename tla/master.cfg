SPECIFICATION SpecMaster
CONSTANTS
  Baris = {a, b}
  Kode = {k, l}
  Pemakai = {u, v}
  Baru = baru
  MaxTulis = 3
  Templat = {a, b}
  Grup = {k, l}
  Nama = {k, l}
  Cabang = {k, l}
  Sku = {k, l}
  MaxBaris = 2
  Slot = {u, v}
  BaruT = baru
  MaxMohon = 4
  BarisLembar = {a, b, c}
  Barang = {n}
  Pihak = {m}
  Jalan = {u, v}
  MaxJalan = 2
  Minta = {u, v}
  Arsip = {a, b}
  TanpaArsip = tanpa_arsip
INVARIANTS TypeMaster FotoAda DefaultTunggal HitunganCSV TransaksiSekali StokImpor PulihSatu KunciTakTertinggal
PROPERTIES TanpaTimpa HapusAkhir
SYMMETRY Simetri
CHECK_DEADLOCK FALSE
