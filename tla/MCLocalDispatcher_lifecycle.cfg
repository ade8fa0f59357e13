SPECIFICATION FairSpec
CHECK_DEADLOCK FALSE
CONSTANTS
    Tasks = {t1}
    Handlers = {h1, h2}
    kRetries = 2
INVARIANTS TasksHaveTheirObject ResultsAreHandedOver GrantsReturned
PROPERTIES TasksEnd EndedTasksLeave GrantsAreLetGo
