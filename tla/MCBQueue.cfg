CONSTANTS
    a = a
    b = b
    Element = {a, b}
    NoElement = NoElement
    size_of_queue = 2
    MaxSize = 6
    MaxFaults = 1
SPECIFICATION Spec
PROPERTY FifoSpec
