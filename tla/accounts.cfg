SPECIFICATION Spec
CONSTANTS
    p1 = p1
    p2 = p2
    p3 = p3
    First = First
    None = None
    Callers = {p1, p2, p3}
    Clients = {c1, c2}
    Plans <- Requests
INVARIANTS
    TypeOK
    StraysOnlyBeside
    TokensOnce
PROPERTIES
    AnsweredIsCommitted
    EventuallyAnswered
CHECK_DEADLOCK FALSE
