CONSTANTS
    SimplifierChoice = {"auto", "native", "general", "external", "msimba", "other"}
    Callers = {"single", "database"}
SPECIFICATION Spec
CHECK_DEADLOCK FALSE
INVARIANTS TypeOK RefutedNeverValid NoRouteTwice FailedMeansExhausted ExplicitIsSingle
PROPERTY Answered
