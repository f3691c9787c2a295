----------------------------- MODULE HttpServer -----------------------------
(***************************************************************************)
(* The request wrapper that OperonHttpServer.registerDecoratedEndpoints    *)
(* installs for every decorated endpoint (src/src/dbos-runtime/migrate.ts, *)
(* the httpServer fragment, lines 269-411).                                *)
(*                                                                         *)
(* One endpoint registration is handled at a time: its arguments are      *)
(* bound from the request, then the transaction, workflow or handler runs  *)
(* and its result or error becomes the response.  Handlers share no state, *)
(* so concurrent requests need no interleaving.                            *)
(*                                                                         *)
(* JavaScript values are abstracted to what the wrapper tells apart: their *)
(* truthiness and whether they are undefined.  Query-string values are     *)
(* strings ("0" and "false" are non-empty strings); JSON bodies carry any  *)
(* JSON value; route params are strings or absent.                         *)
(***************************************************************************)
EXTENDS Naturals, Sequences, SequencesExt

CONSTANT MaxArgs   \* declared arguments after the handler context

ArgPos == 1 .. MaxArgs

JSValues    == {"undefined", "null", "false", "0", "emptyString", "string", "number", "true"}
QueryValues == {"undefined", "emptyString", "string"}
ParamValues == {"undefined", "string"}

\* JavaScript truthiness, as `if (foundArg)` applies it.
Truthy(v) == v \in {"string", "number", "true"}

\* A registration: whether it has an apiURL, API type and the argSource of
\* each declared argument ("unset" when no decorator gave one).
Registrations == [apiURL : BOOLEAN, apiType : {"GET", "POST"},
                  sources : [ArgPos -> {"unset", "DEFAULT", "QUERY", "BODY", "URL"}],
                  kind : {"transaction", "workflow", "handler"}]

\* A request: koaCtxt.request.query, .body (absent without a body parser)
\* and koaCtxt.params.
Requests == [query : [ArgPos -> QueryValues],
             hasBody : BOOLEAN,
             body : [ArgPos -> JSValues],
             params : [ArgPos -> ParamValues]]

\* What the invoked function does: return (a handler may also have set the
\* body itself), or throw.  An Error carries an optional statusCode and an
\* optional operonErrorCode, which is a client or a server code.
Outcomes == [throws : {FALSE}, handlerSetBody : BOOLEAN]
            \cup [throws : {TRUE}, isError : BOOLEAN, statusCode : {0, 404, 503},
                  operonErrorCode : {"none", "client", "server"}]

VARIABLES
  ownKoa, \* the constructor created the Koa app (with bodyParser)
  pc,     \* "bind", "invoke" or "done"
  ro,     \* the registration handling the request
  args,   \* the positional arguments passed after the context
  want,   \* ghost: each argument as the request provides it
  resp    \* the response: status and where the body came from

vars == <<ownKoa, pc, ro, args, want, resp>>

-----------------------------------------------------------------------------

\* `marg.argSource = marg.argSource ?? ArgSources.DEFAULT`
Source(r, i) == IF r.sources[i] = "unset" THEN "DEFAULT" ELSE r.sources[i]

\* Mutant: the QUERY source honoured only for GET endpoints.
FromQueryGetOnly(r, i) ==
  r.apiType = "GET" /\ Source(r, i) \in {"DEFAULT", "QUERY"}

FromQuery(r, i) == (r.apiType = "GET" /\ Source(r, i) = "DEFAULT") \/ Source(r, i) = "QUERY"
FromBody(r, i)  == (r.apiType = "POST" /\ Source(r, i) = "DEFAULT") \/ Source(r, i) = "BODY"

\* koaCtxt.request.body is set by bodyParser, which the constructor installs
\* only on a Koa app it creates itself, and only for a request with a body.
BodyParsed(q) == ownKoa /\ q.hasBody

\* The value the wrapper looks up for argument i (undefined for URL).
Found(r, q, i) ==
  CASE FromQuery(r, i) -> q.query[i]
    [] FromBody(r, i)  -> q.body[i]
    [] OTHER           -> "undefined"

\* Mutant: both pushes of one argument happen when the value is truthy.
PushesTwice(r, q, i) ==
  LET f == Found(r, q, i) IN
  (IF Truthy(f) THEN <<f>> ELSE <<>>) \o <<q.params[i]>>

\* The values one iteration of ro.args.forEach pushes: the found value if
\* truthy, and otherwise koaCtxt.params[marg.name].
Pushes(r, q, i) ==
  LET f == Found(r, q, i) IN
  (IF Truthy(f) THEN <<f>> ELSE <<>>) \o (IF ~Truthy(f) THEN <<q.params[i]>> ELSE <<>>)

\* `if (!koaCtxt.request.body) throw new OperonDataValidationError(...)`,
\* raised inside forEach, before the try block.
NeedsMissingBody(r, q) == \E i \in ArgPos : ~FromQuery(r, i) /\ FromBody(r, i) /\ ~BodyParsed(q)

\* The argument list the wrapper builds.
BoundArgs(r, q) == FlattenSeq([i \in ArgPos |-> Pushes(r, q, i)])

\* The status the catch block sets for a thrown value.
ErrorStatus(o) ==
  IF ~o.isError THEN 500
  ELSE IF o.operonErrorCode = "client" THEN 400
  ELSE IF o.statusCode # 0 THEN o.statusCode ELSE 500

\* Reference, written from the sources rather than the wrapper: the value
\* the request carries in the argument's source (the query string for a
\* GET default, the body for a POST default), or the route param when the
\* source lacks it.
InSource(r, q, i) ==
  LET s == IF Source(r, i) = "DEFAULT"
             THEN IF r.apiType = "GET" THEN "QUERY" ELSE "BODY"
             ELSE Source(r, i) IN
  CASE s = "QUERY"                       -> q.query[i]
    [] s = "BODY" /\ BodyParsed(q)      -> q.body[i]
    [] OTHER                             -> "undefined"

Provided(r, q, i) ==
  IF InSource(r, q, i) # "undefined" THEN InSource(r, q, i) ELSE q.params[i]

\* registerDecoratedEndpoints: an operation with an apiURL gets a route,
\* router.get or router.post by its apiType; its wrappedHandler is then
\* what serves a request.  One without an apiURL is never reached.
Routed(r) == r.apiURL /\ r.apiType \in {"GET", "POST"}

-----------------------------------------------------------------------------

\* The argument-parsing half of wrappedHandler, for any request.
BindArguments ==
  /\ pc = "bind"
  /\ \E q \in Requests :
       /\ want' = [i \in ArgPos |-> Provided(ro, q, i)]
       /\ IF NeedsMissingBody(ro, q)
            THEN /\ pc' = "done" /\ args' = <<>>
                 /\ resp' = [status |-> "escaped", body |-> "none", next |-> FALSE]
            ELSE /\ pc' = "invoke" /\ args' = BoundArgs(ro, q)
                 /\ UNCHANGED resp
  /\ UNCHANGED <<ownKoa, ro>>

\* The try/catch/finally half: invoke, set the body or the error response,
\* and always await koaNext().
Invoke ==
  /\ pc = "invoke"
  /\ \E o \in Outcomes :
       resp' = IF o.throws
                 THEN [status |-> ErrorStatus(o),
                       body |-> IF o.isError THEN "errorRecord" ELSE "thrownValue",
                       next |-> TRUE]
                 ELSE [status |-> "koaDefault",
                       body |-> IF ro.kind = "handler" /\ o.handlerSetBody
                                THEN "setByHandler" ELSE "returnValue",
                       next |-> TRUE]
  /\ pc' = "done"
  /\ UNCHANGED <<ownKoa, ro, args, want>>

\* The response has been sent.
Terminated == pc = "done" /\ UNCHANGED vars

Init ==
  /\ ownKoa \in BOOLEAN
  /\ pc = "bind"
  /\ ro \in {r \in Registrations : Routed(r)}
  /\ args = <<>>
  /\ want = [i \in ArgPos |-> "undefined"]
  /\ resp = [status |-> "none", body |-> "none", next |-> FALSE]

Next == BindArguments \/ Invoke \/ Terminated

Spec == Init /\ [][Next]_vars

-----------------------------------------------------------------------------
(* Properties                                                              *)

\* Every declared argument yields exactly one positional argument, so the
\* function never receives a value in another argument's place.
ArgsAligned == pc = "invoke" => Len(args) = MaxArgs

\* A truthy value in the argument's source reaches the function unchanged.
TruthyArgumentsBound ==
  pc = "invoke" => \A i \in ArgPos : Truthy(want[i]) => args[i] = want[i]

\* Whatever value the request carries for an argument in its source
\* reaches the function: the POST tests expect {v: false} and {v: 0} to
\* arrive as false and 0.
BindsPresentArguments ==
  pc = "invoke" => \A i \in ArgPos : args[i] = want[i]

=============================================================================
