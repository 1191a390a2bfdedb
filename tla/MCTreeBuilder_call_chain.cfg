SPECIFICATION Spec
CONSTANTS
    FirstCapacity = 2
    Menus <- ChainMenus
INVARIANT NoFault
CHECK_DEADLOCK FALSE
