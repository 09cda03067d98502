SPECIFICATION TableSpec
CONSTANTS
    Sources = {"Unspecified", "CSMS", "LocalAPI"}
    Priorities = {0, 10000}
PROPERTIES
    WinnerFollowsRule
