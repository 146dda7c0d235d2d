CONSTANTS
    Width = 3
    MaxCounter = 8
SPECIFICATION FilterSpec
PROPERTY
    ImplementsDedup
