------------------------------- MODULE Pricing -------------------------------
(***************************************************************************)
(* lens/src/pricing.rs: what the tokens of a request, or of several of the *)
(* same tier, cost.  Amounts are whole numbers, in millionths of the unit  *)
(* of the price list; the code adds them up in floating point.             *)
(***************************************************************************)
EXTENDS Integers, SequencesExt

CONSTANTS
    Models,    \* the model names of exchanges
    Entries,   \* the price list; names: the models whose name a pattern occurs in
    FALLBACK   \* the price where no pattern does

\* threshold: of input tokens, -1 where a model has one price for all.
Rates == {"input", "output", "cache_read", "cache_creation", "reasoning",
          "threshold", "input_multiplier", "output_multiplier"}

ASSUME PricingAssumption ==
    /\ Entries \in Seq([names : SUBSET Models, length : Nat \ {0}, price : [Rates -> Int]])
    /\ FALLBACK \in [Rates -> Int]

Usage(input, output, cached, cache_creation, reasoning) ==
    [input |-> input, output |-> output, cached |-> cached,
     cache_creation |-> cache_creation, reasoning |-> reasoning]

clamp(n, high) == CASE n < 0 -> 0 [] n > high -> high [] OTHER -> n
positive(n) == IF n < 0 THEN 0 ELSE n

\* The longest pattern, of equally long ones the first: entries of the user
\* come before those that are built in.
price[model \in Models] ==
    LET fits == {k \in DOMAIN Entries : model \in Entries[k].names}
        best == CHOOSE k \in fits :
                    \A j \in fits : \/ Entries[k].length > Entries[j].length
                                    \/ Entries[k].length = Entries[j].length /\ k <= j
    IN  IF fits = {} THEN FALLBACK ELSE Entries[best].price

is_long(model, input) ==
    price[model].threshold >= 0 /\ positive(input) > price[model].threshold

\* Cached tokens are among those of the input, reasoning among those of the
\* output; a long context costs more.
estimate_for_context(model, usage, long) ==
    LET p         == price[model]
        cached    == clamp(usage.cached, positive(usage.input))
        reasoning == clamp(usage.reasoning, positive(usage.output))
        rate      == IF p.reasoning > 0 THEN p.reasoning ELSE p.output
        reading   == (positive(usage.input) - cached) * p.input + cached * p.cache_read
                         + positive(usage.cache_creation) * p.cache_creation
        writing   == (positive(usage.output) - reasoning) * p.output + reasoning * rate
    IN  reading * (IF long THEN p.input_multiplier ELSE 1)
            + writing * (IF long THEN p.output_multiplier ELSE 1)

savings_for_context(model, cached, long) ==
    LET p == price[model]
    IN  positive(positive(cached) * (p.input - p.cache_read)
                     * (IF long THEN p.input_multiplier ELSE 1))

\* The cost of one request.
estimate(model, usage) == estimate_for_context(model, usage, is_long(model, usage.input))
=============================================================================
