\* Two objects whose keys end in the same file name.
CONSTANTS
    Keys = {1, 2}
    Names = {1}
    NameOf <- NamesAlike
    new = new
    old = old
    Contents = {new, old}
    Recorded = {old}
    MaxTries = 2
    None = None
SPECIFICATION Spec
INVARIANTS
    DiscoveredIntact
CHECK_DEADLOCK FALSE
