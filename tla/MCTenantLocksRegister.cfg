SPECIFICATION FairSpec
CONSTANTS
    None = None
    t1 = t1
    t2 = t2
    t3 = t3
    t4 = t4
    Tasks = {t1, t2}
    Enabled = {"user_register",
               "org_add_user"}
PROPERTIES
    RegistrationEnds
CHECK_DEADLOCK FALSE
