SPECIFICATION Spec
CONSTANTS
  Form = {f1}
  Tab = {t1, t2}
  Kosong = kosong
  MaxKirim = 2
  MaxAntre = 3
  MaxGangguan = 3
INVARIANTS TypeOK NotaSekali HilangBeralasan
PROPERTIES Tersampaikan MemenuhiJanji
CHECK_DEADLOCK FALSE
