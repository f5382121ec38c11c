------------------------------ MODULE MCLensApi ------------------------------
(***************************************************************************)
(* TLC instance of LensApi: exchanges of two models, one of which is       *)
(* dearer in a long context; two of its short requests together would be   *)
(* long.                                                                   *)
(***************************************************************************)
EXTENDS LensApi

MCModels == {"plain", "tiered"}

Price(input, output, read, creation, reasoning, threshold, more) ==
    [input |-> input, output |-> output, cache_read |-> read, cache_creation |-> creation,
     reasoning |-> reasoning, threshold |-> threshold, input_multiplier |-> more,
     output_multiplier |-> more + 1]

MCEntries ==
    <<[names |-> MCModels, length |-> 2, price |-> Price(3, 7, 1, 4, 0, -1, 1)],
      [names |-> {"tiered"}, length |-> 6, price |-> Price(5, 11, 2, 6, 13, 3, 2)]>>

MCFallback == Price(3, 15, 1, 4, 15, -1, 1)

Exchange(model, outcome, status, duration, usage, client, session) ==
    [model |-> model, outcome |-> outcome, status |-> status, duration |-> duration,
     counted |-> usage # NoUsage, usage |-> usage, client |-> client, session |-> session]

MCFinals ==
    <<{Exchange("tiered", "ok", 200, 4, Usage(3, 2, 1, 1, 1), "ann", "s")},
      {Exchange("tiered", "ok", 200, 7, Usage(4, 1, 2, 0, 1), "bob", "s"),
       Exchange("tiered", "ok", 200, 5, Usage(2, 1, 2, 0, 0), "ann", "")},
      {Exchange("plain", "cancelled", Null, Null, Usage(1, 1, 0, 0, 0), "bob", "t"),
       Exchange("plain", "transport_error", Null, 2, NoUsage, "bob", "t")}>>
=============================================================================
