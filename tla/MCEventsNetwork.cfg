SPECIFICATION Spec
CONSTANTS
    Fd = {f1, f2, f3}
    Rec = {r1}
    NULL = NULL
    SizeMax = 9
    InitAlloc = 1
    MaxAlloc = 4
SYMMETRY DescriptorSymmetry
INVARIANT RegistryIsSound
