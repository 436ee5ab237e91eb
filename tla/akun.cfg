SPECIFICATION Spec
CONSTANTS
  Akun = {pemilik, staf}
  Pendiri = pemilik
  Peran = {"owner", "kasir"}
  Dikelola = {staf}
  Minta = {p1, p2}
  MaxGagal = 2
  LamaKunci = 1
  MaxSesi = 2
  MaxSandi = 2
INVARIANTS TypeOK TebakanTerbatas SesiSandi HakDiberi
SYMMETRY Simetri
CHECK_DEADLOCK FALSE
