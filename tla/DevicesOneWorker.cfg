SPECIFICATION Spec
CONSTANTS
    Workers = {w1}
    Boards = {1, 2}
    Chips = {1}
    Demods = {0}
    Lnbs = {1}
    Volts = {v1}
    Settings = {s1, s2}
    Numbers = {1, 9}
    Addresses = {a1}
    Frequencies = {f1, f2}
    Groups = 2
    Installed <- TwoChips
    MaxRequests = 3
    Off = Off
    None = None
INVARIANTS
    TypeOK
    TunersAsRecorded
    OutputsAsRecorded
    FrequenciesAsRecorded
