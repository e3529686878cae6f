SPECIFICATION Spec
CONSTANTS
    s1 = s1
    s2 = s2
    Slot = {s1, s2}
    User = {"u"}
    Room <- MCRoom
    MaxJob = 3
    MaxChange <- MCMaxChange
    MaxMishap = 1
SYMMETRY Symmetry
INVARIANTS TypeOK SpeakerIsMember IdentityKept ProfileSettles
CHECK_DEADLOCK FALSE
