\* Two preferences, one request, one change: the change that leaving loses.
CONSTANTS
    Fields = {theme, tab}
    Options = {"a", "b"}
    Unset = Unset
    Default <- DefaultPreferences
    Patches = {p1}
    MaxChanges = 1
SPECIFICATION SettingsSpec
INVARIANT NavigationStillFires
CHECK_DEADLOCK FALSE
