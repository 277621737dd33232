CONSTANTS
    Calls = {"f", "g"}
    Answers <- MCAnswers
    None = None
SPECIFICATION Spec
INVARIANTS
    StreamTellsTheAnswer
    EventsInOrder
    ReasonTellsCalls
CHECK_DEADLOCK FALSE
