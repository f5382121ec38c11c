SPECIFICATION MCSpec
CONSTANTS
    Indices = {0, 1}
    Ids = {"a"}
    Fragments <- AllCalls
    Members = {"reasoning_content", "signature", "content", "refusal", "tool_calls",
               "function_call", "annotations", "response_output_block"}
    MaxPieces = 3
INVARIANT ReadToEndIsComplete
CHECK_DEADLOCK FALSE
