SPECIFICATION Spec
CONSTANTS
    Tickets = {x}
    Technicians = {t1, t2}
    Operators = {o}
    Managers = {m}
    Residents = {r}
    Nobody = Nobody
    Contracts = {c}
    NoContract = NoContract
    MaxAssignments = 2
    MaxVersion = 11
SYMMETRY Symmetry
INVARIANTS
    AssignmentFollowsTicket
    NoDeadEnd
    MaterialsStayWithWork
    VersionNamesState
    VisitIsStamped
PROPERTIES
    OutcomesAreFinal
    ImplementsDesk

