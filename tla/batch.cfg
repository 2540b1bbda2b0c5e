SPECIFICATION Spec
CONSTANTS
    MaxTasks = 3
    MaxSlots = 3
    AllRetire = 2
    Floor = 4
    Supply = 2
    Mod = 16
INVARIANTS TypeOK CountersApart OnlyFillingRemain
PROPERTIES ImplementsSafeReclaim
