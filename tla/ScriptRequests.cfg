\* Two threads, dialogs and queries, three calls, any of them given up.
CONSTANTS
  Thread = {t1, t2}
  Kind = {dialog, query}
  Dialog = dialog
  MaxCalls = 3
  MaxTimeouts = 3
SPECIFICATION FairSpec
INVARIANTS
    AnswersMatch
    InSync
PROPERTIES
    CallsReturn
    CancelArrives
