\* The same tab with a network that never fails: only others act.
CONSTANTS
    r1 = r1  r2 = r2  r3 = r3  r4 = r4
    Requests = {r1}  Limit = 1
    alice = alice  bob = bob
    Users = {alice, bob}  TotpUsers = {bob}  Nobody = Nobody
    Faulty = FALSE  MaxTurns = 2  MaxStatuses = 2
    MaxRuns = 1
    MaxAttempts = 1
    MaxCaptures = 1  MaxLines = 2  RingLines = 1  ShownLines = 1
    text = text  drawing = drawing  sketch = sketch
    Docs = {text, drawing, sketch}  Drawings = {drawing, sketch}
    MaxEdits = 0  MaxFills = 0
    Panels <- ConsolePanels  Forgotten <- ConsoleForgotten
    Cached <- ApiCached  Hot <- PlatformKVFacts  Slots = {1}
SPECIFICATION LoopSpec
PROPERTIES ReloginOffered
CHECK_DEADLOCK FALSE
