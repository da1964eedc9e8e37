\* Every kind of event by each of its ways, with every answer.
SPECIFICATION Spec
CONSTANTS
    Events <- MCEvents
    SelfStatuses <- MCSelfStatuses
    Statuses <- MCStatuses
    Answers <- MCAnswers
    FileAnswers <- MCFileAnswers
    Profile <- MCProfile
    Cuts <- MCCuts
    Checks <- MCChecks
    MaxChanges = 1
CHECK_DEADLOCK FALSE
INVARIANTS ToldAsSent AnswerIsTheirs StatusIsTold
