\* Every version literal of up to three characters, keys left out, odd values, errors and
\* kills at every system call, and edits between the starts.
SPECIFICATION Spec
CONSTANTS
    Texts <- AllTexts
    Edits <- OneKeyEach
    Protocols = {0, 1, 2, 3}
    Ports = {0, 1}
    Addresses <- MCAddresses
    Default <- MCDefault
    LatestProtocol = 3
    LatestVersion <- MCLatestVersion
    Missing = Missing
    Absent = Absent
    Torn = Torn
    Unreadable = Unreadable
INVARIANTS RefusalHasCause SettingsKept RunsAsWritten
CHECK_DEADLOCK FALSE
