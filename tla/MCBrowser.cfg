\* Four requests at a gate of two; a tab, two users, one of them with two-step verification;
\* four runs of an effect, three connects, two captures, a text and two drawings, two mutations.
CONSTANTS
    r1 = r1  r2 = r2  r3 = r3  r4 = r4
    Requests = {r1, r2, r3, r4}  Limit = 2
    alice = alice  bob = bob
    Users = {alice, bob}  TotpUsers = {bob}  Nobody = Nobody
    Faulty = TRUE  MaxTurns = 2  MaxStatuses = 2
    MaxRuns = 4
    MaxAttempts = 3
    MaxCaptures = 2  MaxLines = 2  RingLines = 1  ShownLines = 1
    text = text  drawing = drawing  sketch = sketch
    Docs = {text, drawing, sketch}  Drawings = {drawing, sketch}
    MaxEdits = 1  MaxFills = 1
    Panels <- ConsolePanels  Forgotten <- ConsoleForgotten
    Cached <- ApiCached  Hot <- PlatformKVFacts  Slots = {1, 2}
SPECIFICATION BrowserSpec
INVARIANTS BrowserTypeOK CountsHolders NoWaiterStranded LimitKept CacheIsOwn ViewIsCurrent ShellIsHeld PreviewWhole SaidAsEnded BodyIsOwn 
PROPERTIES SentAwayArrives SavesAddUp
CHECK_DEADLOCK FALSE
