SPECIFICATION Spec
CONSTANTS
    Controllers = {c1}
    Volumes = {v1, v2}
    Handles = {h1, h2}
    NULL = NULL
    RefModulus = 3
    MaxMounts = 2
SYMMETRY Symmetry
INVARIANT CountedVolumeIsFreed
