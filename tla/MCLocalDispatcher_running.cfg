SPECIFICATION Spec
CHECK_DEADLOCK FALSE
CONSTANTS
    Tasks = {t1}
    Handlers = {h1}
    kRetries = 5
PROPERTIES RunningTasksAreAwaited
