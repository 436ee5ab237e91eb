SPECIFICATION Spec
CONSTANTS
  Form = {f1}
  Tab = {t1, t2}
  Kosong = kosong
  MaxKirim = 2
  MaxAntre = 3
  MaxGangguan = 2
INVARIANTS PutusTidakMenghilangkan
CHECK_DEADLOCK FALSE
