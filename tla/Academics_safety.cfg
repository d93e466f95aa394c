SPECIFICATION MCSpec
CONSTANTS
    NoKey = NoKey  Curriculum = Curriculum  School = School
    None = None  director1 = director1  director2 = director2
    lesson1 = lesson1  lesson2 = lesson2  student1 = student1
    student2 = student2  teacher1 = teacher1  request1 = request1
    request2 = request2  group1 = group1  group2 = group2  worker1 = worker1
    worker2 = worker2
    Workers = {worker1, worker2}
    MaxAttempts = 2
    MaxTries = 3
    MaxCrashes = 0
    Drafted = {lesson1, lesson2}
    Materials = {}
    Directors = {director1, director2}
    Teachers = {teacher1}
    Students = {student1, student2}
    Requests = {request1, request2}
    OneRequest = {request1}
    Hours <- MCHours
    Capacities = {1, 2}
    MaxSlots = 2
    MaxBookings = 2
    LastHour = 3
    Groups = {group1, group2}
    OneGroup = {group1}
    Lessons = 2
    LastDay = 5
    Today = 2
    Starts = {1, 3}
    NoDay = {}
    NoBreak = {}
    TwoDays = {2, 5}
    LateDay = {4}
SYMMETRY MCSymmetry
INVARIANTS
    CurriculumSound
    HoursSound
    TimetableSound
PROPERTIES
    TextReplacedKnowingly
    BreaksMoveLessons
CHECK_DEADLOCK FALSE
