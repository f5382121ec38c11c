---------------------------- MODULE AnthropicWire ----------------------------
(***************************************************************************)
(* The stream of events an Anthropic client may be sent for one message,   *)
(* as a state machine over what the client has seen so far.  Blocks are    *)
(* numbered from 0 without gaps and never overlap; a thinking block is     *)
(* signed once, after its text, before it stops; nothing follows           *)
(* message_stop or an error; and once a client has been handed a tool_use  *)
(* block, which it may execute, the message neither fails nor ends with    *)
(* any other stop reason.                                                  *)
(***************************************************************************)
EXTENDS Naturals

VARIABLES stage,    \* how far the message is
          open,     \* the block being sent, or "none"
          blocks,   \* how many blocks have been started
          stop,     \* the stop reason, or "none"
          tooled    \* a tool_use block has been started

wireVars == <<stage, open, blocks, stop, tooled>>

StopReasons == {"end_turn", "max_tokens", "tool_use", "refusal"}

WireInit ==
    /\ stage = "before"
    /\ open = "none"
    /\ blocks = 0
    /\ stop = "none"
    /\ tooled = FALSE

MessageStart ==
    /\ stage = "before"
    /\ stage' = "message"
    /\ UNCHANGED <<open, blocks, stop, tooled>>

BlockStart(kind) ==
    /\ stage = "message" /\ open = "none"
    /\ open' = kind
    /\ blocks' = blocks + 1
    /\ tooled' = (tooled \/ kind = "tool")
    /\ UNCHANGED <<stage, stop>>

\* A delta belongs to the open block and changes none of this.
Sign ==
    /\ stage = "message" /\ open = "thinking"
    /\ open' = "signed"
    /\ UNCHANGED <<stage, blocks, stop, tooled>>

BlockStop ==
    /\ stage = "message" /\ open \in {"text", "signed", "tool"}
    /\ open' = "none"
    /\ UNCHANGED <<stage, blocks, stop, tooled>>

MessageDelta(reason) ==
    /\ stage = "message" /\ open = "none"
    /\ tooled => reason = "tool_use"
    /\ stop' = reason
    /\ stage' = "ending"
    /\ UNCHANGED <<open, blocks, tooled>>

MessageStop ==
    /\ stage = "ending"
    /\ stage' = "stopped"
    /\ UNCHANGED <<open, blocks, stop, tooled>>

Error ==
    /\ stage \in {"before", "message"}
    /\ ~tooled
    /\ stage' = "failed"
    /\ UNCHANGED <<open, blocks, stop, tooled>>

WireNext ==
    \/ MessageStart
    \/ \E kind \in {"text", "thinking", "tool"} : BlockStart(kind)
    \/ Sign
    \/ BlockStop
    \/ \E reason \in StopReasons : MessageDelta(reason)
    \/ MessageStop
    \/ Error

WireSpec == WireInit /\ [][WireNext]_wireVars
=============================================================================
