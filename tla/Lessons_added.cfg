SPECIFICATION Spec
CONSTANTS
    d1 = d1
    d2 = d2
    l1 = l1
    l2 = l2
    m1 = m1
    Lessons = {l1, l2}
    Materials = {m1}
    Directors = {d1, d2}
    Curriculum = Curriculum
    None = None
SYMMETRY MCSymmetry
PROPERTY MaterialSurvivesPublishing
