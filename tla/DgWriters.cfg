SPECIFICATION Spec
CONSTANTS
    d1 = d1
    d2 = d2
    x = x
    y = y
    z = z
    Decision = {d1, d2}
    Package = {x, y, z}
    Key = {k1}
    Proc = {p1, p2}
    Name = {r1}
    Stale <- Always
    Mortal = {p1}
    MaxFailures = 0
    Observer = {p2}
    Edits <- WriterEdits
    Shipped = {z}
    DecisionCap = 1
    ExemptionCap = 2
INVARIANT ExemptionsWithinCap
PROPERTIES Serialized LastingExemptionsStay ImplementsStore
