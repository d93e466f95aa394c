SPECIFICATION MCSpec
CONSTANTS
    Own = Own  None = None  group1 = group1  group2 = group2
    school1 = school1  place1 = place1  place2 = place2  request1 = request1
    request2 = request2  student1 = student1  student2 = student2
    parent1 = parent1  parent2 = parent2  invite1 = invite1
    invite2 = invite2  user1 = user1  phone1 = phone1  staff1 = staff1
    name1 = name1  browser1 = browser1  browser2 = browser2
    exchange1 = exchange1  exchange2 = exchange2
    Requests = {request1, request2}
    Groups = {group1, group2}
    Schools = {school1}
    SchoolOf <- MCOneSchool
    Places = {place1, place2}
    Students = {student1, student2}
    Parents = {parent1, parent2}
    Invites = {invite1, invite2}
    Identities = {user1}
    Phones = {phone1}
    Staff = {staff1}
    Names = {name1}
    Browsers = {browser1, browser2}
    Exchanges = {exchange1, exchange2}
    MaxVersion = 3
SYMMETRY MCSymmetry
INVARIANTS
    RecordsSound
    FamilySound
    SessionsSound
PROPERTIES
    DecisionsStand
    ChangesAccessAtOnce
