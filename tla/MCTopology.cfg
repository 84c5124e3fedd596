SPECIFICATION EditorSpec
CONSTANTS
    m1 = m1 m2 = m2 r1 = r1 r2 = r2 r3 = r3 r4 = r4 s1 = s1 s2 = s2 n1 = n1 n2 = n2 n3 = n3 n4 = n4
    None = None Raised = Raised Direct = Direct
    Nodes = {m1, m2, r1, r2, r3, r4, s1, s2, n1, n2, n3, n4}
    Type <- TypeOfName
    Saved <- Files
    MaxEdits = 3
INVARIANTS EditorTypeOK InterfacesFollowLinks RoutesLead
CHECK_DEADLOCK FALSE
