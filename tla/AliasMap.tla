------------------------------- MODULE AliasMap -------------------------------
(***************************************************************************)
(* ChatToolNameMap and ResponsesCallIdMap of                               *)
(* rust/src/transform/identity.rs: within one request every tool name, or  *)
(* call id, that OpenAI would not take gets an alias that nothing else in  *)
(* the request is called by.  An alias is made of a hash of the identifier *)
(* and, while the alias is taken, of the next probe number.                *)
(***************************************************************************)
EXTENDS Integers, FiniteSets, SequencesExt

CONSTANTS Identifiers,      \* what may be a name or an id
          Fitting,          \* those OpenAI takes: 64 characters, and of a name [A-Za-z0-9_-]
          Candidate(_, _)   \* the alias of an identifier at a probe

\* The hash is XORed with the probe number, so that no two probes of one
\* identifier agree; two identifiers may well have a candidate in common.
ASSUME AliasAssumption ==
    /\ IsFiniteSet(Identifiers) /\ Fitting \subseteq Identifiers
    /\ \A s \in Identifiers : \A j, k \in 0..Cardinality(Identifiers) :
           Candidate(s, j) = Candidate(s, k) => j = k

\* used: what is called by itself or is an alias; forward: the aliases.
NewMap(names) == [used |-> names \cap Fitting, forward |-> [s \in {} |-> s]]

FreeProbes(s, used) == {k \in 0..Cardinality(used) : Candidate(s, k) \notin used}

\* Mutant: the first candidate is taken for free.
UniqueAliasUnprobed(s, used) == Candidate(s, 0)

unique_alias(s, used) ==
    Candidate(s, CHOOSE k \in FreeProbes(s, used) : \A j \in FreeProbes(s, used) : k <= j)

Assign(m, s) ==
    LET alias == unique_alias(s, m.used)
    IN  [used    |-> m.used \cup {alias},
         forward |-> [t \in DOMAIN m.forward \cup {s} |->
                         IF t = s THEN alias ELSE m.forward[t]]]

\* The code takes the identifiers in the order of their bytes.
AliasesFor(names) == FoldLeft(Assign, NewMap(names), SetToSeq(names \ Fitting))

wire_name(m, s) == IF s \in DOMAIN m.forward THEN m.forward[s] ELSE s

original_name(m, w) ==
    IF \E s \in DOMAIN m.forward : m.forward[s] = w
    THEN CHOOSE s \in DOMAIN m.forward : m.forward[s] = w
    ELSE w
=============================================================================
