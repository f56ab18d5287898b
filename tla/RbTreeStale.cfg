\* 4 nodes: the smallest tree whose removal moves the node that is removed.
CONSTANT K = 4
SPECIFICATION Spec
INVARIANT Gone
