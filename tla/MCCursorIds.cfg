SPECIFICATION Spec
CHECK_DEADLOCK FALSE
SYMMETRY Symmetry
CONSTANTS
  Dialects = {"oci", "jdbc", "thin"}
  Handles = {h1, h2}
  Queries = {q1, q2}
  Changes = {c1}
  BindTypes = {t1, t2}
  Seqs = {s1}
  MaxId = 4
  None = None
INVARIANTS
  TypeOK
  OneIdPerText
  RunsWhatWasMeant
  FetchReadsOwn
