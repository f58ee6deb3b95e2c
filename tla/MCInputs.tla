------------------------------ MODULE MCInputs ------------------------------
EXTENDS InputsCheck

Own(tokens) == [of |-> "openrtc", tokens |-> tokens]
LiveKits(tokens) == [of |-> "livekit", tokens |-> tokens]

LineItems ==
  {Own(<<Token(Word)>>), Own(<<Token("--dashboard")>>), Own(<<Assigned("--agents-dir")>>),
   Own(<<Token("--agents-dir"), Token(Word)>>), Own(<<Token("--metrics-jsonl"), Token(Word)>>),
   Own(<<Token("--watch-path"), Token("--reload")>>), Own(<<Token("--watch-path"), Token("--no-watch")>>),
   LiveKits(<<Token("--reload")>>), LiveKits(<<Token("--url"), Token(Word)>>), LiveKits(<<Assigned("--url")>>),
   LiveKits(<<Token(EndOfOptions), Token("--dashboard"), Token(Word)>>)}

\* The options the worker commands accept beyond those.
IsolatedItems == LineItems \cup {Own(<<Token("--isolation"), Token(Word)>>)}
=============================================================================
