SPECIFICATION MCSpec
CONSTANTS
    Home = Home  Bin = Bin  None = None  column1 = column1  column2 = column2
    column3 = column3  card1 = card1  user1 = user1  user2 = user2
    hr = hr  director1 = director1
    Columns = {column1, column2, column3}
    Added = {column3}
    Cards = {card1}
    Users = {user1, user2}
    MaxHops = 3
    Types = {"interview"}
    Legacy = TRUE
    MaxDecisions = 1
    MaxFailed = 1
    Creator = hr
    Evaluators = {director1}
    Leads = {1, 2}
    MaxConfig = 1
    MaxVersion = 3
    LastTime = 3
    LastStart = 4
    Overlaps = FALSE
SYMMETRY MCSymmetry
INVARIANTS
    ColumnsSound
    CandidateSound
    RemindersSound
PROPERTIES
    RemovalLeavesNoCard
    HiresAreEarned
    AlertTellsTheTime
CHECK_DEADLOCK FALSE
