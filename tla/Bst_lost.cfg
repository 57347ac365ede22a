CONSTANT Keys = {1, 2, 3, 4, 5}
SPECIFICATION Spec
INVARIANT NoNodeLost
