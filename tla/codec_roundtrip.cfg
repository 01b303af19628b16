CONSTANTS
    Bytes <- AllBytes
    Placeholders <- Marks
    EncodedVars <- Ints
    Messages <- DictMsgs
    CoreEncode <- Encode
    CoreDecode <- Decode
    Given <- WellFormed
    Damaged <- TooFewVars
    MaxCalls = 3
SPECIFICATION Spec
INVARIANT RoundTrip
CHECK_DEADLOCK FALSE
