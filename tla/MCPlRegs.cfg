SPECIFICATION Spec
CONSTANTS
    Args = {{}, {0}, {1, 5}}
    Times = {{}, {0, 15}}
    Junk = {{}, {1, 5, 15}}
INVARIANT
    RegistersHoldFields
