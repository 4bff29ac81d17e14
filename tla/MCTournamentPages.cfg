\* Two tabs of one organizer, two tournaments after each other or at once.
CONSTANTS
    a = a
    b = b
    Tabs = {a, b}
    Submissions <- OneFormEach
    Rounds = 2
    MaxTournaments = 2
SPECIFICATION Spec
INVARIANTS
    TypeOK
    OneAtATime
    ShowsItsState
PROPERTY
    NeverStaysBlank
