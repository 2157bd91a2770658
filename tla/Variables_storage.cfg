CONSTANTS
  s1 = s1
  s2 = s2
  Sessions = {s1, s2}
  Main = main
  Texts = {"7", "65535", "<x"}
  Budgets <- DeepAndWide
SPECIFICATION Spec
SYMMETRY Interchangeable
INVARIANTS TypeOK HashInList ListIsRead SavedComesBack
