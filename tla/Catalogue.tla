------------------------------- MODULE Catalogue -------------------------------
(***************************************************************************)
(* The College Marketplace as an application sees it (marketplace/         *)
(* college.service.ts, course.service.ts): colleges and the courses they   *)
(* teach, which an administrator edits and deactivates but never deletes.  *)
(*                                                                         *)
(* Every handler reads the row only to answer 404 for an unknown id; rows  *)
(* are never deleted, so its update is one step.  Names, slugs, universities *)
(* and descriptions are left out; an edit that the unique slug refuses     *)
(* changes nothing.                                                        *)
(***************************************************************************)
EXTENDS Naturals, FiniteSets

CONSTANTS Courses, Colleges, Fees,
          MaxEdits,     \* bound: edits of the catalogue
          NULL

ASSUME CatalogueAssumption == /\ NULL \notin Courses \cup Colleges \cup Fees
                              /\ MaxEdits \in Nat

VARIABLES
    course,     \* the Course rows, NULL before their creation
    college,    \* "absent", "active" or "inactive"
    priced,     \* history: every fee a course has ever had
    edits

catalogue == <<course, college, priced, edits>>

CourseRow == [college : Colleges, fee : Fees, active : BOOLEAN]

CatalogueType ==
    /\ course \in [Courses -> CourseRow \cup {NULL}]
    /\ college \in [Colleges -> {"absent", "active", "inactive"}]
    /\ priced \subseteq Courses \X Fees
    /\ edits \in 0 .. MaxEdits

(* The seeded colleges with their courses, all listed; what is not seeded  *)
(* may yet be created.                                                     *)
CatalogueInit ==
    /\ college \in [Colleges -> {"absent", "active"}]
    /\ course \in [Courses -> [college : Colleges, fee : Fees, active : {TRUE}]
                               \cup {NULL}]
    /\ \A c \in Courses : course[c] # NULL => college[course[c].college] = "active"
    /\ priced = {<<c, course[c].fee>> : c \in {c \in Courses : course[c] # NULL}}
    /\ edits = 0

Edit == edits < MaxEdits /\ edits' = edits + 1

WriteCourse(c, row) ==
    /\ Edit
    /\ course' = [course EXCEPT ![c] = row]
    /\ priced' = priced \cup {<<c, row.fee>>}
    /\ UNCHANGED college

CreateCourse(c, row) ==
    /\ course[c] = NULL
    /\ college[row.college] # "absent"
    /\ WriteCourse(c, row)

(* An update may rename, reprice, move or reactivate the course.           *)
UpdateCourse(c, row) ==
    /\ course[c] # NULL
    /\ college[row.college] # "absent"
    /\ WriteCourse(c, row)

RemoveCourse(c) ==
    /\ course[c] # NULL
    /\ WriteCourse(c, [course[c] EXCEPT !.active = FALSE])

WriteCollege(k, state) ==
    /\ Edit
    /\ college' = [college EXCEPT ![k] = state]
    /\ UNCHANGED <<course, priced>>

CreateCollege(k, state) == college[k] = "absent" /\ WriteCollege(k, state)

UpdateCollege(k, state) == college[k] # "absent" /\ WriteCollege(k, state)

RemoveCollege(k) == college[k] # "absent" /\ WriteCollege(k, "inactive")

EditCatalogue ==
    \/ \E c \in Courses, row \in CourseRow : \/ CreateCourse(c, row)
                                            \/ UpdateCourse(c, row)
    \/ \E c \in Courses : RemoveCourse(c)
    \/ \E k \in Colleges, s \in {"active", "inactive"} :
           CreateCollege(k, s) \/ UpdateCollege(k, s)
    \/ \E k \in Colleges : RemoveCollege(k)

(* What a student may select: getPrefillData() and saveStep1() refuse an   *)
(* unknown or inactive course and a course of an inactive college.         *)
Selectable(c) ==
    /\ course[c] # NULL
    /\ course[c].active
    /\ college[course[c].college] = "active"

===============================================================================
