\* A small field, three points to win, one visit to the page.
CONSTANTS
    HalfWidth = 15
    HalfHeight = 5
    Radius = 2
    PaddleX = 8
    HalfPaddleWidth = 2
    HalfPaddleHeight = 1
    PaddleStep = 8
    Unit = 2
    Lift = 1
    InitSpeed = 2
    MaxSpeed = 3
    Sockets = {s1}
    MaxScore = 3
    Serves <- DrawnServes
    MaxDirY = 2
SPECIFICATION Spec
INVARIANTS
    TypeOK
    InStep
    ShowsTheGame
    OnePlayerWins
    BallOnField
PROPERTIES
    NoTunnelling
    EndIsShown
\* A game that is over or left stops for good, unless a new one can be started.
CHECK_DEADLOCK FALSE
