SPECIFICATION Spec
CONSTANTS
  NoFetch = NoFetch
  Callers = {c1, c2}
  Fetches = {f1, f2}
  Digests = {d1, d2}
  Chunks = 1
  MaxSize = 1
  Sources = {"good", "bad"}
  Ops = {"ReaderForBlob", "ReadBlob"}
  MaxAttempts = 1
  MaxBusy = 3
SYMMETRY ReaderSymmetry
VIEW View
INVARIANT StoreIsSound
INVARIANT FetchIsShared
INVARIANT SpaceIsAccounted
INVARIANT ReadsReturnTheBlob
