SPECIFICATION Spec
CONSTANTS
    None = None
    t1 = t1
    t2 = t2
    t3 = t3
    t4 = t4
    Tasks = {t1, t2, t3}
    Enabled = {"org_add_user",
               "org_users_list",
               "org_pipelines_list",
               "org_daemons_list",
               "api_keys",
               "authenticate_with_api_key",
               "add_user_plugin",
               "remove_user_plugin",
               "get_user_visible_plugins",
               "user_pipelines_list",
               "share_pipeline",
               "get_user_daemons",
               "org_register",
               "user_add_env_var",
               "register_plugin",
               "share_plugin",
               "show_plugin",
               "register_pipeline",
               "register_daemon"}
INVARIANTS
    NoCircularWait
SYMMETRY Symmetry
