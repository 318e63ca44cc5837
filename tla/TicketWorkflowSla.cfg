SPECIFICATION Spec
CONSTANTS
    Tickets = {x}
    Technicians = {t1}
    Operators = {o}
    Managers = {m}
    Residents = {r}
    Nobody = Nobody
    Contracts = {c, d}
    NoContract = NoContract
    MaxAssignments = 1
    MaxVersion = 3
PROPERTY
    SlaOfFirstContract
