SPECIFICATION FairSpec
CONSTANT Drivers = {d1, d2, d3}
INVARIANTS OneDriverIfSerial
PROPERTIES RefusedForCause LaunchEnds
