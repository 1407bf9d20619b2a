SPECIFICATION Spec
CONSTANT Pair <- MCPair
CONSTANT Num <- MCNum
CONSTANT Asked <- MCAsked
INVARIANT NamesAreLogged
INVARIANT NamesAreUnique
INVARIANT RealNamesAreClaimed
 
PROPERTY NamesFollowComDb
CONSTANT MaxFaults = 1
