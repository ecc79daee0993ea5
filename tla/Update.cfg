SPECIFICATION Spec
CONSTANTS
    MaxVersion = 2
    MaxEvents = 5
INVARIANTS
    NotifyOnce
PROPERTIES
    DismissedStays
    News
