SPECIFICATION FairSpec
CONSTANTS
    None = None
    t1 = t1
    t2 = t2
    t3 = t3
    t4 = t4
    Tasks = {t1, t2, t3}
    Enabled = {"org_add_user",
               "add_user_plugin",
               "get_user_visible_plugins",
               "register_plugin"}
PROPERTIES
    SectionsEnd
