SPECIFICATION Spec
CONSTANTS
    Gen = {g1, g2}
    Nil = Nil
    InitialCap = 1
    DefaultJobBuffer = 2
    MaxSize = 9
INVARIANTS
    TypeOK
    NoRetention
    Proportional
PROPERTIES
    ImplementsDeque
    NoThrashing
