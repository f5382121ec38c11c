--------------------------- MODULE RequestControls ---------------------------
(***************************************************************************)
(* What the router changes and checks between the two conversions of a     *)
(* request: the effort controls of rust/src/auth.rs, which come with the   *)
(* request's headers, and validate_final_outbound_request of               *)
(* rust/src/transform/request.rs.                                          *)
(***************************************************************************)
EXTENDS UnifiedRequest

EFFORT_LADDER == <<"minimal", "low", "medium", "high", "xhigh", "max">>

OnLadder(effort) == effort \in ToSet(EFFORT_LADDER)

Rank(effort) == CHOOSE k \in DOMAIN EFFORT_LADDER : EFFORT_LADDER[k] = effort

Distance(e, f) == IF Rank(e) < Rank(f) THEN Rank(f) - Rank(e) ELSE Rank(e) - Rank(f)

\* The nearest level, of two the lower; what is not on the ladder stays as it
\* is.
clamp_effort(effort, levels) ==
    LET known == {level \in levels : OnLadder(level)}
    IN  IF levels = {} \/ effort \in levels \/ ~OnLadder(effort) \/ known = {} THEN effort
        ELSE CHOOSE e \in known : \A f \in known :
                 \/ Distance(effort, e) < Distance(effort, f)
                 \/ Distance(effort, e) = Distance(effort, f) /\ Rank(e) <= Rank(f)

\* A map holds Anthropic efforts, and "*" for those it does not name.
Mapped(effort, map) ==
    CASE effort \in DOMAIN map -> map[effort]
      [] effort \notin DOMAIN map /\ "*" \in DOMAIN map -> map["*"]
      [] OTHER -> effort

\* none: what the member is when it is not there.
Controlled(effort, none, controls) ==
    CASE effort = none                        -> none
      [] Mapped(effort, controls.map) = "off" -> none
      [] OTHER -> clamp_effort(Mapped(effort, controls.map), controls.levels)

\* Both members are controlled, on their own.
apply_effort_controls(u, controls) ==
    [u EXCEPT !.effort = [explicit  |-> Controlled(@.explicit, "unsaid", controls),
                          reasoning |-> Controlled(@.reasoning, "none", controls)]]

\* limit: max_tokens, -1 if it is missing.  A request for no tokens only asks
\* whether the history is cached, and cannot ask for what takes tokens.
FinalAllowed(u) ==
    /\ u.limit >= 0
    /\ u.limit = 0 => /\ ~u.stream /\ ~u.enabled /\ ~u.format
                      /\ u.choice.type \notin {"required", "tool"}
=============================================================================
