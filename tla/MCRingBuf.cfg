\* No storage, one byte, and three; inputs and requests shorter than, equal to
\* and longer than the capacity.
CONSTANTS
    Byte = {1, 2}
    Caps = {0, 1, 3}
    Inputs <- SomeInputs
    Lens = {0, 1, 2, 4}
SPECIFICATION Spec
INVARIANTS Consistent
PROPERTIES RefinesFifo
