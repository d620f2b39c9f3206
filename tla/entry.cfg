\* Three entries: direct callers with every panic, every adapter, every system rule.
CONSTANTS
    Ent = {e1, e2, e3}
    Ctx = {c1, c2, c3}
    Opt = {o1, o2}
    Args = {}
    None = None
    InboundNode = InboundNode
    Readings = {0, 1}
    Batches = {1}
    Setups <- MCSetups
SYMMETRY Symmetry
SPECIFICATION AdaptersSpec
INVARIANTS Exclusive ConcurrencyDrift AdmissionOvershoot NothingLeaks  CallsCounted
