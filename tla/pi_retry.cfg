\* A run and a probe with one control, two unread lines, a text and one fault.
CONSTANTS
    c1 = c1
    LiveControls = {c1}
    MaxLines = 2
    MaxTexts = 1
    MaxMishaps = 1
SPECIFICATION PiSpec
PROPERTIES SettledRunIsNotRepeated
CHECK_DEADLOCK FALSE
