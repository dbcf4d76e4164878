\* Conversations of two answers, at most two calls in each.
SPECIFICATION Spec
CONSTANTS
    MaxCalls = 2
    MaxReplies = 2
    Tools = {TRUE, FALSE}
    Policies = {"auto", "none", "required"}
    Scripts <- SomeScripts
INVARIANTS TypeOK CompleteCallsDetected CallsSurviveTheTurn
\* The conversation ends with its last answer.
CHECK_DEADLOCK FALSE
