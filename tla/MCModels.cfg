CONSTANTS
    Models = {"arms", "grids"}
SPECIFICATION Spec
CHECK_DEADLOCK FALSE
INVARIANTS
    TypeOK
    MovesCanBePlanned
    ObservationsMeanWhatTheySay
PROPERTY
    ImplementsConstruction
