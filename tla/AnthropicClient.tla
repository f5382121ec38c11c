--------------------------- MODULE AnthropicClient ---------------------------
(***************************************************************************)
(* What a client of the Anthropic Messages stream makes of the frames it   *)
(* is sent, as operators on a client record: the stage and the open block  *)
(* of AnthropicWire, and the pieces of output got so far, in order.        *)
(***************************************************************************)
EXTENDS Naturals, Sequences

Frame(type, kind, index, pieces) ==
    [type |-> type, kind |-> kind, index |-> index, pieces |-> pieces]

ErrorFrame == Frame("error", "none", 0, <<>>)

NewClient ==
    [stage |-> "before", open |-> "none", blocks |-> 0, stop |-> "none",
     tooled |-> FALSE, got |-> <<>>, foreign |-> FALSE]

\* Does the frame fit the block it names?
Fits(client, f) ==
    CASE f.type = "start"     -> f.index = client.blocks
      [] f.type = "delta"     -> f.index + 1 = client.blocks /\ f.kind = client.open
      [] f.type = "signature" -> f.index + 1 = client.blocks /\ client.open = "thinking"
      [] f.type = "stop"      -> f.index + 1 = client.blocks
      [] OTHER                -> TRUE

\* With omitted thinking the signature is what carries the reasoning.
After(client, f, omit) ==
    CASE f.type = "message_start" -> [client EXCEPT !.stage = "message"]
      [] f.type = "start"         -> [client EXCEPT !.open = f.kind, !.blocks = @ + 1,
                                                    !.tooled = @ \/ f.kind = "tool"]
      [] f.type = "delta"         -> [client EXCEPT !.got = @ \o f.pieces]
      [] f.type = "signature"     -> [client EXCEPT !.open = "signed",
                                          !.got = IF omit THEN @ \o f.pieces ELSE @,
                                          !.foreign = @ \/ f.kind = "router"]
      [] f.type = "stop"          -> [client EXCEPT !.open = "none"]
      [] f.type = "message_delta" -> [client EXCEPT !.stage = "ending", !.stop = f.kind]
      [] f.type = "message_stop"  -> [client EXCEPT !.stage = "stopped"]
      [] f.type = "error"         -> [client EXCEPT !.stage = "failed"]

\* A frame that does not fit spoils the message.
Shown(client, f, omit) ==
    IF Fits(client, f) THEN After(client, f, omit) ELSE [client EXCEPT !.stage = "spoilt"]
=============================================================================
