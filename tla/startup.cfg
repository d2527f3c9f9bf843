CONSTANTS
    Letter <- MCLetter
    Line <- MCLine
    ArgList <- MCArgList
    Dash = "-"
    Apostrophe = "apostrophe"
    ProxyFlag <- MCProxyFlag
    CliFlag <- MCCliFlag
    HelpFlag <- MCHelpFlag
    MaxUnread = 1

SPECIFICATION Spec

INVARIANTS
    RelaunchSameArgs
    StartsAsAsked
    SplitReadsAlike
    ExportUsable
    ExportReadsAlike

CHECK_DEADLOCK FALSE
