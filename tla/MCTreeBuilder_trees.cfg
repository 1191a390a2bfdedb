SPECIFICATION Spec
CONSTANTS
    FirstCapacity = 2
    Menus <- SafeMenus
INVARIANTS TypeOK NoFault OneOwner NothingElseLost PrintsTellTreesApart
PROPERTY TreesAreValues
CHECK_DEADLOCK FALSE
