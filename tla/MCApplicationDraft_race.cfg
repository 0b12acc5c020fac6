SPECIFICATION Spec
SYMMETRY Symmetry
CONSTANTS
    NULL = NULL
    Courses = {c1, c2}
    Colleges = {k1}
    Fees = {f1, f2}
    MaxEdits = 1
    DocumentType = {"IDENTITY_FRONT", "ACADEMIC_RECORD"}
    Requests = {r1, r2}
    MaxUploads = 2
INVARIANTS TypeOK DocumentsSound FeeIsOfTheCourse
PROPERTY SubmittedIsFrozen
CHECK_DEADLOCK FALSE
