SPECIFICATION Spec
CONSTANTS
    prep = prep  sub1 = sub1  sub2 = sub2  dir1 = dir1  dir2 = dir2  rem = rem  bnd = bnd
    person = person  c1 = c1  n1 = n1  n2 = n2  p1 = p1  p2 = p2
    None = None
    Runs = {prep, sub1, sub2, dir1, dir2, rem, bnd}
    Command <- CommandsOfRuns
    Groups = {1, 2}
    Works = {1, 2, 3}
    GroupOf <- GroupEach
    Foreign = {person}
    Creator <- Creators
    Products <- Overlapping
    Name <- GroupName
    TemplateProducts = {p1, p2}
    BatchMaterialLimit = 1
    MaxOutside = 1
INVARIANTS OnePlanPerGroup GroupsKeepSoundPlans ReportsAreTrue
CONSTRAINT Scenarios
SYMMETRY SubmitsAlike
PROPERTIES WritesAreDue BindingNeverMoves
CHECK_DEADLOCK FALSE
