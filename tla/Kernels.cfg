SPECIFICATION Spec
CONSTANT Apps <- PassApps
INVARIANTS
    ResultRight
    StreamsDrained
    OneWriter
    NobodyStuck
