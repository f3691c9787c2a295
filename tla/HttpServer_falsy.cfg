\* A falsy value present in the request, e.g. {v: false} in a POST body.
CONSTANT MaxArgs = 2
INIT Init
NEXT Next
INVARIANT BindsPresentArguments
