SPECIFICATION HandOverSpec
CHECK_DEADLOCK FALSE
CONSTANT Instances <- HandOverInstances
INVARIANT LayerRight
