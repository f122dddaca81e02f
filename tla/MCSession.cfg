SPECIFICATION Spec
CONSTANTS
    Callers = {drive, stop}
    TimedCallers = {stop}
    CallIds = {id1, id2}
    Answers <- MCAnswers
    NoCall = NoCall
    NoAnswer = NoAnswer
    Failed = Failed
    MaxInbound = 2
    MaxPageCalls = 2
    Repeatable = {id1}
INVARIANTS
    TypeOK
    PendingIsInFlight
    OnlyDuplicatesPanic
    CallsAnsweredInOrder
PROPERTIES
    ImplementsReverseCall
    CallsDrain
    AnsweredCallsReturn
CHECK_DEADLOCK FALSE
