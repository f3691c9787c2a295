\* Every registration with two declared arguments, against every request.
CONSTANT MaxArgs = 2
INIT Init
NEXT Next
INVARIANTS
  ArgsAligned
  TruthyArgumentsBound
