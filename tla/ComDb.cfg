SPECIFICATION Spec
CONSTANT Num <- MCNum
INVARIANT LogExact
PROPERTY OthersKeepTheirs
PROPERTY SyncAgrees
