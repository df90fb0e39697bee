SPECIFICATION Spec
CHECK_DEADLOCK FALSE
CONSTANT Instances <- PassInstances
INVARIANTS LayerRight HalvesApart TrainingInputs
PROPERTY LayerEnds
