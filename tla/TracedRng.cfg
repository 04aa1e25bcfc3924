CONSTANTS
    Base = 2
    Len32 = 4
    Len64 = 8
    FillLens = {1, 3}
    MaxCalls = 2

SPECIFICATION Spec


PROPERTY RefinesRandomSource
