SPECIFICATION Spec
CONSTANTS
    Conns = {c1, c2}
    Names = {"a"}
    Jobs = {j1, j2}
    MaxTubes = 3
SYMMETRY Symmetric
INVARIANTS
    TypeOK
    RefsExact
    NoDangling
    OneTubePerName
    WaitersListed
