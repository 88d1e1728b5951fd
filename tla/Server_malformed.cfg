CONSTANTS
    Lines = {"VERIFY_OK", "VERIFY_FAIL", "uncoded", "1.0"}
    PlainText = {"1.0"}
    MaxLines = 2
    PipeCapacity = 1
SPECIFICATION ServerSpec
INVARIANT MalformedStaysTerminal
