SPECIFICATION MCSpec
CONSTANTS
    None = None  request1 = request1  request2 = request2  staff1 = staff1
    ticket1 = ticket1  parent1 = parent1  parent2 = parent2
    officer1 = officer1  officer2 = officer2  c1 = c1  c2 = c2
    Requests = {request1, request2}
    Operators = {staff1}
    Tickets = {ticket1}
    Priorities <- MCPriorities
    Answer <- MCAnswer
    Resolve <- MCResolve
    Second = 2
    SecondsPerMinute = 1
    MaxTime = 6
    MaxMessages = 3
    MaxTicket = 3
    PageSize = 1
    MaxQueueTime = 1
    Staff = {officer1, officer2}
    Parents = {parent1, parent2}
    MaxContracts = 3
    MaxLinks = 2
    People = {1, 2, 3}
    TwoPeople = {1, 2}
    Chats = {c1, c2}
    MaxAttempts = 2
    MaxSends = 2
SYMMETRY MCSymmetry
INVARIANTS
    TicketsSound
    ContractsSound
    NoticesSound
PROPERTIES
    DeskDecisionsStand
CHECK_DEADLOCK FALSE
