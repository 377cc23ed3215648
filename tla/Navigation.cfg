SPECIFICATION NavigationSpec
CONSTANTS
    Pages = {"home", "login", "desk", "logout"}
    Locales = {en, de}
    Fallback = en
    Bundled = {en, de}
    Drafts = {de}
    MaxInputs = 3
CHECK_DEADLOCK FALSE
INVARIANTS
    PageIsAllowed
    InSyncElse
    WordsAreThere
    ReloadsOnce
