\* The four heads of the default configuration, room for two rounds, two calls.
SPECIFICATION Spec
CONSTANTS
    Tokens <- TwoTokens
    Heads = 4
    MtpOn = TRUE
    MaxPrompt = 1
    MaxNew = 5
    MaxRequests = 2
INVARIANTS TypeOK OutputLength CountsAgree
PROPERTIES ImplementsDecode RequestEnds
\* The bound on the calls ends the run.
CHECK_DEADLOCK FALSE
