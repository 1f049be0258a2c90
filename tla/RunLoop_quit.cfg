CONSTANTS
    FrameTicks = 3
SPECIFICATION RlSpec
PROPERTIES
    QuitExits
