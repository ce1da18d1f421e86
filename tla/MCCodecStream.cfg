CONSTANTS
    Structures <- MCStructures
    MaxWritten = 2
    MaxBytes = 22
SPECIFICATION Spec
INVARIANTS InStep DecodedRight
