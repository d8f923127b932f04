SPECIFICATION FairSpec
CONSTANTS
    Task = {t}
    Feedback = {x, silent}
    Silent = silent
    MaxRepairs = 2
    Nobody = Nobody
    Chat = Chat
PROPERTIES
    ExitDrains
