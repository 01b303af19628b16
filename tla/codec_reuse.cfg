CONSTANTS
    Bytes <- AllBytes
    Placeholders <- Marks
    EncodedVars <- Ints
    Messages <- Msgs
    CoreEncode <- Encode
    CoreDecode <- Decode
    Given <- WellFormed
    Damaged <- TooFewVars
    MaxCalls = 3
SPECIFICATION Spec
INVARIANTS TypeOK FirstDictVarsDocumented PlainRoundTrip DecodesOnItsOwn
PROPERTY NoUseAfterClose
CHECK_DEADLOCK FALSE
