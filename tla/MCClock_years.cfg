CONSTANTS
    FirstYear = 2021
    LastYear = 2026
    Instants <- MCInstants
    Settings <- MCSettings

SPECIFICATION Spec

CHECK_DEADLOCK FALSE

INVARIANT CalendarAgrees
INVARIANT ViewsAgree
PROPERTY HandoffIsTheNextChange
PROPERTY ShiftsNeverComeBack
