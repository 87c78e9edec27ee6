CONSTANTS
    t1 = t1
    t2 = t2
    Tasks = {t1, t2}
    Flaky = TRUE
SPECIFICATION Spec
PROPERTY StartsOnPress
