SPECIFICATION MCFairSpec
CONSTANTS
    Curriculum = Curriculum  Own = Own  None = None  director1 = director1
    director2 = director2  officer1 = officer1  parent1 = parent1
    lesson1 = lesson1  request1 = request1  request2 = request2
    student1 = student1  invite1 = invite1  invite2 = invite2
    user1 = user1  name1 = name1  school1 = school1
    Tabs = {parent1}
    Officers = {officer1}
    MaxContracts = 2
    MaxLinks = 2
    Lessons = {lesson1}
    Materials = {}
    Directors = {director1, director2}
    Requests = {request1, request2}
    Students = {student1}
    Parents = {parent1}
    Invites = {invite1, invite2}
    Identities = {user1}
    Phones = {}
    Staff = {}
    Names = {name1}
    Groups = {}
    Schools = {school1}
    SchoolOf <- NoGroup
    Places = {}
PROPERTIES
    CommandsEnd
