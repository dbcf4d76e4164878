\* Three clients that send their request or hang up, in pieces read as they come.
SPECIFICATION LiveSpec
CONSTANTS
    c1 = c1
    c2 = c2
    c3 = c3
    Clients <- ThreeClients
    Header = 3
    Body <- Bodies
    ReadMax = 2
    Backlog = 2
INVARIANTS TypeOK WholeRequestHandled OpenIsWaitingOrRead
PROPERTY EveryoneAnswered
\* All clients may be done, or the server stopped.
CHECK_DEADLOCK FALSE
