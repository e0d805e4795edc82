CONSTANTS
    Exchange = {e1, e2}
    Queue = {q1, q2}
    Key = {k1, k2}
    None = None
    MaxFail = 1
SPECIFICATION Spec
SYMMETRY Symmetry
INVARIANTS TypeOK TablesMatchMemory BindingsResolve StoresMatchQueues
PROPERTY ImplementsDurableMap
