SPECIFICATION ShellSpec
CONSTANTS
    None = None
    MAX_TABS = 2
    EditText <- MCEditText
    Location <- MCLocation
    Web = {"web", "web2"}
    Welcome = "welcome"
    ErrorPage = "error"
    FinalUrls <- MCFinalUrls
    Parse <- MCParse
    Href <- MCHref
    LinksOf <- MCLinksOf
    Resolve <- MCResolve
    Height <- MCHeight
    Unlayable = {"web2"}
    Inputs <- MCInputs
    MaxEntries = 3
PROPERTY HeldTabFollowsThePointer
CHECK_DEADLOCK FALSE
