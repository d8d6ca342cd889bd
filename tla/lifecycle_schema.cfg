CONSTANT
    Pids = {p1, p2}
SPECIFICATION Spec
INVARIANT SchemaWhole
