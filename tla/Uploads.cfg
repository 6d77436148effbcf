SPECIFICATION Spec
CONSTANTS
  Uploads = {u1, u2}
  Downloads = {d1, d2}
  Tenants = {t1, t2}
  None = None
  Storages = {"local", "memory", "s3"}
  Chunks = 2
CHECK_DEADLOCK FALSE
INVARIANTS CatalogueIsWhole DownloadsAreWhole ConfirmedCanBeRead
SYMMETRY Symmetry
