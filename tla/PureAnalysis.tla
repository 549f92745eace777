----------------------------- MODULE PureAnalysis -----------------------------
(***************************************************************************)
(* What a resident handle promises its host: the findings it publishes are *)
(* a pure function of the inputs it holds, and a changed input retracts    *)
(* them until the next analysis.  No cache, no stamps, no partitions.      *)
(***************************************************************************)
CONSTANTS
    Inputs,    \* the values the host's inputs take together
    Analysis,  \* a function from Inputs: the one-shot analysis
    NoAnswer   \* nothing published describes the inputs, never the
              \* value of an analysis

VARIABLES inputs, answer

pure == <<inputs, answer>>

Init == inputs \in Inputs /\ answer = NoAnswer

(* A changed mutation, of the corpus, the reference or the configuration.  *)
Change ==
    /\ inputs' \in Inputs \ {inputs}
    /\ answer' = NoAnswer

Analyze ==
    /\ answer' = Analysis[inputs]
    /\ UNCHANGED inputs

Next == Change \/ Analyze

Spec == Init /\ [][Next]_pure
==============================================================================
