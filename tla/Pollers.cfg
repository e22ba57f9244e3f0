\* Three objects, descriptors that are used again, an array of one element.
CONSTANTS
    Channels = {c1, c2, c3}
    Fds = {0, 1}
    NoChannel = NoChannel
    kInitEventListSize = 1
SPECIFICATION Spec
INVARIANTS
    PollfdsAgree
    KernelAgrees
PROPERTY ImplementsInterest
SYMMETRY Symmetry
