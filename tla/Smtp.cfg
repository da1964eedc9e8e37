\* An e-mail and an SMS, lines that come in parts and are left over.
SPECIFICATION FairSpec
CONSTANTS
    Emails = {e1}
    SMSs = {s1}
    Null = Null
    MaxQueue = 3
    MaxLines = 4
INVARIANTS
    DialogueHasMessage
    DialogueSelected
    QueuedOnce
PROPERTIES
    DeliveredWasAccepted
    LifeSpec
    LifeLive
