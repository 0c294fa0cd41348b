SPECIFICATION FairSpec
CONSTANTS
    Sids = {s1, s2}
    Names <- ThreeNames
    Match <- MatchOf
    MaxEntries = 3
INVARIANTS
    TypeOK
    StayersAreTold
    TheGoneAreForgotten
PROPERTIES
    CommandsEnd
\* The worker may hang, or the process end.
CHECK_DEADLOCK FALSE
