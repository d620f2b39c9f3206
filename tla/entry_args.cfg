\* Two nested entries with different parameters.
CONSTANTS
    Ent = {e1, e2}
    Ctx = {c1, c2}
    Opt = {o1}
    Args = {a, b}
    None = None
    InboundNode = InboundNode
    Readings = {0}
    Batches = {1}
    Setups <- ArgsSetups
SPECIFICATION AdaptersSpec
INVARIANT ArgsKept
