------------------------------ MODULE SigningTrace ------------------------------
(***************************************************************************)
(* How the engine finds what an app signs (src/engine/extraction:          *)
(* crypto_scanner.py, java_code_graph.py, signing_tracer.py) and asks an   *)
(* LLM for what it could not find (llm/escalator.py).  A class is          *)
(*                                                                         *)
(*   [class, simple, first, imports, algorithms, methods, crypto]          *)
(*                                                                         *)
(* with its full and its simple name, whether it is the app's own and      *)
(* imports a crypto library, the algorithms its lines name, and the name   *)
(* of the method with its first crypto call, or "".  A method is           *)
(*                                                                         *)
(*   [name, plain, final, updates, key, assigns, appends, returns]         *)
(*                                                                         *)
(* plain when its declaration is of a form the text search knows; final    *)
(* and returns hold the argument of doFinal and what is returned, if any;  *)
(* assigns the assignments [var, typed, rhs] and appends the arguments     *)
(* appended to each string builder.  An expression is [is, name, parts]: a *)
(* literal, a name, a field, a call, the conversion of its one part, a     *)
(* concatenation of bytes, of which parts are the arguments, a text with   *)
(* a " + ", of which parts are the symbols, or another.                    *)
(***************************************************************************)
EXTENDS Reconcile, Lists

CONSTANTS
  Expr, Method,  \* the expressions and the methods of the apps
  Sources,       \* the files of an app, in the orders they may be found in
  Words,         \* the words of a name, as its capitals and underscores part them
  ResolveDepth,  \* how long a chain of names may be (12)
  CallDepth,     \* how deep in it calls and parts are followed (8)
  MaxRetries,    \* how often a rate-limited request is repeated (2)
  Answers,       \* what the LLM may say: [inputs, conf], inputs of [kind, name]
  Captures,      \* what may be captured of the running app
  Signed         \* what the app signs in a class, in order

VARIABLES
  classes,
  usages,      \* the uses of cryptography not traced yet
  todo,        \* what remains to be resolved, in the order it is signed
  components, unresolved,
  traces,
  stage, asked, retries  \* where the run is; the trace the LLM is asked about
traceVars == <<classes, usages, todo, components, unresolved, traces, stage, asked, retries>>

-----------------------------------------------------------------------------
(* The uses of cryptography: each algorithm of a class once; and a class   *)
(* that only imports a library, with little confidence.                    *)

Threshold == 60  \* LLM_THRESHOLD

FileUsages(f) ==
  LET use(i) == [class |-> f.class, algorithm |-> f.algorithms[i], conf |-> 100]
      firsts == Select([i \in DOMAIN f.algorithms |-> i], LAMBDA i :
                  \A j \in 1..(i - 1) : f.algorithms[j] # f.algorithms[i])
  IN  IF ~f.first THEN <<>>      \* a library's is not the device's
      ELSE IF f.algorithms # <<>> THEN [k \in DOMAIN firsts |-> use(firsts[k])]
      ELSE IF f.imports THEN <<[class |-> f.class, algorithm |-> "unknown", conf |-> 40]>>
      ELSE <<>>

Usages(fs) == FlattenSeq([i \in DOMAIN fs |-> FileUsages(fs[i])])

-----------------------------------------------------------------------------
(* What a name sounds like: the kind of its first word that has one.       *)

Rules == <<  \* _KIND_RULES
  [kind |-> "timestamp",   words |-> {"timestamp", "epoch", "time", "ts"}],
  [kind |-> "nonce",       words |-> {"nonce", "rand", "random"}],
  [kind |-> "path",        words |-> {"path", "url", "uri", "endpoint", "route"}],
  [kind |-> "http_method", words |-> {"method", "verb"}],
  [kind |-> "host",        words |-> {"host", "domain"}],
  [kind |-> "body",        words |-> {"body", "data", "payload", "content"}],
  [kind |-> "secret_key",  words |-> {"apikey", "api", "appkey", "appsecret", "secret", "token",
                                      "accesskey", "secretkey", "hmackey", "key"}]>>

KindOf(name) ==
  LET known == Select(Words[name], LAMBDA w : \E i \in DOMAIN Rules : w \in Rules[i].words)
      rule == CHOOSE i \in DOMAIN Rules : known[1] \in Rules[i].words
  IN  IF known = <<>> THEN "unknown" ELSE Rules[rule].kind

-----------------------------------------------------------------------------
(* The form of an expression.                                              *)

\* What begins and ends with a quote, be it one literal or a concatenation.
IsLiteral(e) ==
  \/ e.is = "literal"
  \/ e.is = "concat" /\ {e.parts[1].is, e.parts[Len(e.parts)].is} = {"literal"}

IsConcat(e) == e.is = "concat" /\ ~IsLiteral(e)

\* String.valueOf(x) and the like stand for x.
Unwrapped(e) == IF e.is = "conversion" THEN e.parts[1] ELSE e

\* A part of a concatenation: one symbol, or the text of several.
Operand(symbols) ==
  IF Len(symbols) = 1 THEN symbols[1]
  ELSE [is |-> IF \E i \in DOMAIN symbols : symbols[i].is = "plus" THEN "concat" ELSE "other",
        name |-> "", parts |-> symbols]

\* A concatenation is parted at each "+" outside parentheses.
Operands(e) ==
  LET n == Len(e.parts)
      Is(i, what) == e.parts[i].is = what
      Open(i) == Cardinality({j \in 1..(i - 1) : Is(j, "open")})
                   - Cardinality({j \in 1..(i - 1) : Is(j, "close")})
      cuts == SetToSortSeq({0, n + 1} \cup {i \in 1..n : Is(i, "plus") /\ Open(i) = 0}, <)
      texts == [k \in 1..(Len(cuts) - 1) |-> SubSeq(e.parts, cuts[k] + 1, cuts[k + 1] - 1)]
      parts == SelectSeq(texts, LAMBDA t : t # <<>>)
  IN  [k \in DOMAIN parts |-> Operand(parts[k])]

\* What an expression is made of, or parted into, is an expression, and each has
\* a name that consists of words; the lists of a file are lists.
ASSUME SigningAssumption ==
  /\ \A e \in Expr :
       /\ e.name \in STRING /\ e.name \in DOMAIN Words /\ IsList(Words[e.name])
       /\ e.parts \in Seq(Expr) /\ (e.is = "conversion" => e.parts # <<>>)
       /\ IsConcat(e) => Operands(e) \in Seq(Expr)
  /\ \A m \in Method :
       /\ m.final \in Seq(Expr) /\ m.updates \in Seq(Expr) /\ m.returns \in Seq(Expr)
       /\ \A b \in DOMAIN m.appends : m.appends[b] \in Seq(Expr)
       /\ IsList(m.assigns) /\ \A a \in Range(m.assigns) : a.rhs \in Expr
  /\ \A fs \in Sources : IsList(fs) /\ \A f \in Range(fs) :
       f.methods \in Seq(Method) /\ IsList(f.algorithms)
  /\ \A a \in Answers : IsList(a.inputs) /\ a.conf \in Int
  /\ ResolveDepth \in Nat /\ CallDepth \in Nat /\ CallDepth <= ResolveDepth
  /\ MaxRetries \in Nat

-----------------------------------------------------------------------------
(* Methods: in the class itself by its text; in the app by the call graph, *)
(* which is keyed by the simple name of the class and of the method: the   *)
(* first key of that name, with the source that was indexed last.          *)

\* The pipeline looks for the file of a class in a directory above the one the
\* classes' packages are in: never at the path its full name tells, but by its
\* simple name, of whatever package, and the first that is found is read.
ClassFile(class) ==
  LET own == CHOOSE f \in Range(classes) : f.class = class
  IN  Select(classes, LAMBDA f : f.simple = own.simple)

InClass(class, name) ==
  LET f == ClassFile(class)[1]
  IN  Select(f.methods, LAMBDA m : m.name = name /\ m.plain)

GraphKeys ==
  FlattenSeq([i \in DOMAIN classes |->
    [k \in DOMAIN classes[i].methods |->
      [simple |-> classes[i].simple, method |-> classes[i].methods[k]]]])

InGraph(name) ==
  LET places == {i \in DOMAIN GraphKeys : GraphKeys[i].method.name = name}
      first == GraphKeys[Min(places)].simple
      same == {i \in places : GraphKeys[i].simple = first}
  IN  IF places = {} THEN <<>> ELSE <<GraphKeys[Max(same)].method>>

Called(class, name) ==
  IF InClass(class, name) # <<>> THEN InClass(class, name) ELSE InGraph(name)

-----------------------------------------------------------------------------
(* Resolving one item [what, expr, var, method, depth]: "var" for an       *)
(* expression, "rhs" for what is assigned to a name.  The result is what   *)
(* to resolve in its place, and what was found.                            *)

Item(what, expr, var, method, depth) ==
  [what |-> what, expr |-> expr, var |-> var, method |-> method, depth |-> depth]

Items(exprs, method, depth) ==
  [i \in DOMAIN exprs |-> Item("var", exprs[i], exprs[i].name, method, depth)]

\* What is signed in a method: the argument of doFinal, or of each update.
Inputs(m) == IF m.final # <<>> THEN m.final ELSE m.updates

Rest(items) == [push |-> items, found |-> <<>>, doubt |-> <<>>]

Component(kind, name, conf) == [kind |-> kind, name |-> name, conf |-> conf]

Given(kind, name, conf, doubt) ==
  [push |-> <<>>, found |-> <<Component(kind, name, conf)>>, doubt |-> doubt]

\* What could not be resolved, and why; only an unknown name is told by name.
Doubt(name, why) == [name |-> name, why |-> why]

LiteralOf(e) == Given("literal", e.name, 100, <<>>)

\* A concatenation: its parts, in order.
Concat(it, depth) == Rest(Items(Operands(it.expr), it.method, depth))

\* A name is known by what it sounds like, or not known.
ByName(name, known, unknown) ==
  IF KindOf(name) # "unknown" THEN Given(KindOf(name), name, known, <<>>)
  ELSE Given("unknown", name, unknown, <<Doubt(name, "unknown")>>)

Appended(args) ==
  [push |-> <<>>, doubt |-> <<>>,
   found |-> [i \in DOMAIN args |->
     IF IsLiteral(args[i]) THEN Component("literal", args[i].name, 100)
     ELSE Component(KindOf(args[i].name), args[i].name,
                    IF KindOf(args[i].name) # "unknown" THEN 80 ELSE 40)]]

\* The first declaration of a name, or else the first assignment to it.
Assignment(method, var) ==
  LET all == Select(method.assigns, LAMBDA a : a.var = var)
  IN  Select(all, LAMBDA a : a.typed) \o all

ResolveName(it) ==
  LET name == it.expr.name
      assigned == Assignment(it.method, name)
  IN  IF name \in DOMAIN it.method.appends THEN Appended(it.method.appends[name])
      ELSE IF assigned # <<>>
           THEN Rest(<<Item("rhs", assigned[1].rhs, name, it.method, it.depth + 1)>>)
      ELSE ByName(name, 80, 35)

\* Mutant: a name that refers to itself is resolved again and again.
ResolveForever(it) ==
  CASE it.expr.is = "literal"  -> LiteralOf(it.expr)
    [] it.expr.is = "concat"   -> Concat(it, it.depth + 1)
    [] it.expr.is = "name"     -> ResolveName(it)
    [] OTHER                   -> ByName(it.expr.name, 50, 20)

ResolveVar(item) ==
  LET it == [item EXCEPT !.expr = Unwrapped(@)]
      name == it.expr.name
  IN  IF it.depth > ResolveDepth THEN Given("unknown", name, 10, <<Doubt(name, "depth")>>)
      ELSE CASE IsLiteral(it.expr)   -> LiteralOf(it.expr)
             [] IsConcat(it.expr)    -> Concat(it, it.depth + 1)
             [] it.expr.is = "name"  -> ResolveName(it)
             [] OTHER                -> ByName(name, 50, 20)

\* A method that is called: what it signs, or else what it returns.
ResolveCall(it, class) ==
  LET called == Called(class, it.expr.name)
      inner == called[1]
      exprs == IF Inputs(inner) # <<>> THEN Inputs(inner) ELSE inner.returns
  IN  IF called = <<>> \/ exprs = <<>>
      THEN Given(KindOf(it.var), it.var, 35, <<Doubt(it.var, "call")>>)
      ELSE Rest(Items(exprs, inner, it.depth + 1))

ResolveRhs(it, class) ==
  LET e == it.expr
      joined == e.is = "bytes" /\ it.depth < CallDepth
      followed == e.is = "call" /\ it.depth < CallDepth
      Part(p) == IF p.is = "name" THEN Item("var", p, p.name, it.method, it.depth + 1)
                 ELSE Item("rhs", p, p.name, it.method, it.depth + 1)
  IN  CASE IsLiteral(e)     -> LiteralOf(e)
        [] IsConcat(e)      -> Concat(it, it.depth)
        [] joined           -> Rest([i \in DOMAIN e.parts |-> Part(e.parts[i])])
        [] e.is = "field"   ->
             Given(KindOf(e.name), e.name, IF KindOf(e.name) # "unknown" THEN 80 ELSE 50, <<>>)
        [] followed         -> ResolveCall(it, class)
        [] OTHER            -> ByName(it.var, 75, 35)

Resolve(it, class) == IF it.what = "var" THEN ResolveVar(it) ELSE ResolveRhs(it, class)

-----------------------------------------------------------------------------
(* A trace.                                                                *)

\* Mutant: a trace is as sure as its surest part.
ScoreOfBest(found, doubt) ==
  LET cover == Max({50 * Len(found), 100 * Len(found) - 40 * Len(doubt)})
  IN  IF found = <<>> THEN 10
      ELSE (Max({c.conf : c \in Range(found)}) * cover) \div (100 * Len(found))

\* The least confidence of a part, less up to a half for what is in doubt.
Score(found, doubt) ==
  LET least == Min({c.conf : c \in Range(found)})
      cover == Max({50 * Len(found), 100 * Len(found) - 40 * Len(doubt)})
  IN  IF found = <<>> THEN 10 ELSE Max({5, (least * cover) \div (100 * Len(found))})

Trace(usage, key, found, doubt) ==
  [algorithm |-> usage.algorithm, components |-> found, key |-> key,
   method |-> usage.class, conf |-> Score(found, doubt), unresolved |-> doubt]

\* A trace of which nothing could be found.
LowConf(usage) == Trace(usage, "", <<>>, <<Doubt("", "input")>>)

CryptoMethod(class) ==
  LET f == ClassFile(class)[1]
  IN  Select(f.methods, LAMBDA m : m.name = f.crypto)

TraceInit ==
  /\ classes \in Sources
  /\ usages = Usages(classes)
  /\ todo = <<>> /\ components = <<>> /\ unresolved = <<>> /\ traces = <<>>
  /\ stage = "next" /\ asked = 1 /\ retries = 0

\* A usage that only an import tells of is skipped; one without a method or
\* an input gives a trace in doubt.
Begin ==
  /\ stage = "next" /\ usages # <<>>
  /\ LET u == Head(usages)
         methods == CryptoMethod(u.class)
         m == methods[1]
         inputs == Inputs(m)
     IN  IF u.conf < 50 THEN stage' = "next" /\ usages' = Tail(usages) /\ UNCHANGED <<todo, traces>>
         ELSE IF methods = <<>> \/ inputs = <<>>
         THEN /\ traces' = Append(traces, LowConf(u))
              /\ stage' = "next" /\ usages' = Tail(usages) /\ UNCHANGED todo
         ELSE /\ todo' = Items(inputs, m, 0)
              /\ stage' = "tracing" /\ UNCHANGED <<usages, traces>>
  /\ UNCHANGED <<classes, components, unresolved, asked, retries>>

\* Mutant: what stands for a name is resolved after the rest.
StepBreadthFirst ==
  /\ stage = "tracing" /\ todo # <<>>
  /\ \E r \in {Resolve(Head(todo), Head(usages).class)} :
       /\ todo' = Tail(todo) \o r.push
       /\ components' = components \o r.found
       /\ unresolved' = unresolved \o r.doubt
  /\ UNCHANGED <<classes, usages, traces, stage, asked, retries>>

Step ==
  /\ stage = "tracing" /\ todo # <<>>
  /\ \E r \in {Resolve(Head(todo), Head(usages).class)} :
       /\ todo' = r.push \o Tail(todo)
       /\ components' = components \o r.found
       /\ unresolved' = unresolved \o r.doubt
  /\ UNCHANGED <<classes, usages, traces, stage, asked, retries>>

Traced ==
  /\ stage = "tracing" /\ todo = <<>>
  /\ LET u == Head(usages)
     IN  traces' = Append(traces, Trace(u, CryptoMethod(u.class)[1].key, components, unresolved))
  /\ usages' = Tail(usages) /\ components' = <<>> /\ unresolved' = <<>> /\ stage' = "next"
  /\ UNCHANGED <<classes, todo, asked, retries>>

-----------------------------------------------------------------------------
(* The escalation.                                                         *)

Doubtful(t) == t.conf < Threshold /\ t.unresolved # <<>>

\* Mutant: the LLM's answer takes the place of what was found.
MergedAlone(t, answer) ==
  [t EXCEPT !.conf = answer.conf, !.unresolved = <<>>,
     !.components = [i \in DOMAIN answer.inputs |->
       Component(answer.inputs[i].kind, answer.inputs[i].name, answer.conf)]]

\* What the LLM answers is added after what was found; a name counts as
\* resolved when any part has it.
Merged(t, answer) ==
  LET named == Select(answer.inputs, LAMBDA x :
                 Doubt(x.name, "unknown") \in Range(t.unresolved))
      all == t.components \o
               [i \in DOMAIN named |-> Component(named[i].kind, named[i].name, answer.conf)]
  IN  [t EXCEPT !.components = all, !.conf = Max({t.conf, answer.conf}),
        !.unresolved = Select(@, LAMBDA v :
          v \notin {Doubt(c.name, "unknown") : c \in Range(all)})]

Escalate ==
  /\ stage = "next" /\ usages = <<>>
  /\ stage' = "escalating"
  /\ UNCHANGED <<classes, usages, todo, components, unresolved, traces, asked, retries>>

Passed ==
  /\ stage = "escalating" /\ asked <= Len(traces) /\ ~Doubtful(traces[asked])
  /\ asked' = asked + 1
  /\ UNCHANGED <<classes, usages, todo, components, unresolved, traces, stage, retries>>

Asking == stage = "escalating" /\ asked <= Len(traces) /\ Doubtful(traces[asked])

Answered ==
  /\ Asking
  /\ \E answer \in Answers : traces' = [traces EXCEPT ![asked] = Merged(@, answer)]
  /\ asked' = asked + 1 /\ retries' = 0
  /\ UNCHANGED <<classes, usages, todo, components, unresolved, stage>>

\* No key, no package, a failure, an answer of another form, or one rate
\* limit too many.
NotAnswered ==
  /\ Asking
  /\ asked' = asked + 1 /\ retries' = 0
  /\ UNCHANGED <<classes, usages, todo, components, unresolved, traces, stage>>

\* Mutant: a rate-limited request is repeated without end.
RateLimitedForever ==
  /\ Asking
  /\ retries' = (retries + 1) % (MaxRetries + 1)
  /\ UNCHANGED <<classes, usages, todo, components, unresolved, traces, stage, asked>>

RateLimited ==
  /\ Asking /\ retries < MaxRetries
  /\ retries' = retries + 1
  /\ UNCHANGED <<classes, usages, todo, components, unresolved, traces, stage, asked>>

\* The capture: here the IR has traces only.
Captured ==
  /\ stage = "escalating" /\ asked > Len(traces)
  /\ \E session \in Captures, ir \in {[traces |-> traces, commands |-> <<>>, events |-> <<>>,
                                       port |-> 0, discovers |-> FALSE, auth |-> "",
                                       transport |-> "http"]} :
       \E out \in Outcomes(ir, session) : traces' = out.traces
  /\ stage' = "done"
  /\ UNCHANGED <<classes, usages, todo, components, unresolved, asked, retries>>

TraceNext ==
  \/ Begin \/ Step \/ Traced
  \/ Escalate \/ Passed \/ Answered \/ NotAnswered \/ RateLimited \/ Captured

TraceSpec == TraceInit /\ [][TraceNext]_traceVars /\ WF_traceVars(TraceNext)
-----------------------------------------------------------------------------
Kinds == {"literal", "unknown"} \cup {Rules[i].kind : i \in DOMAIN Rules}

UsageType ==
  [class: {f.class : f \in Range(classes)}, conf: {40, 100},
   algorithm: {"unknown"} \cup UNION {Range(f.algorithms) : f \in Range(classes)}]
ItemType ==
  [what: {"var", "rhs"}, expr: Expr, var: {e.name : e \in Expr}, method: Method,
   depth: 0..(ResolveDepth + 1)]
ComponentType == [kind: Kinds, name: STRING, conf: 1..100]
DoubtType == [name: STRING, why: {"depth", "unknown", "call"}]

\* Each use is of a class of the app; the chain of names being resolved never
\* gets longer than the bound; a part found has one of the IR's kinds and a
\* confidence from 1 to 100, and so has a trace until somebody is asked.
TracesTyped ==
  /\ classes \in Sources /\ usages \in Seq(UsageType)
  /\ todo \in Seq(ItemType)
  /\ components \in Seq(ComponentType) /\ unresolved \in Seq(DoubtType)
  /\ stage \in {"next", "tracing", "escalating", "done"}
  /\ stage \in {"next", "tracing"} =>
       IsList(traces) /\ \A t \in Range(traces) :
         t.components \in Seq(ComponentType) /\ t.conf \in 1..100
  /\ asked \in Nat \ {0} /\ retries \in 0..MaxRetries

\* The expressions in the text of a method, and their parts.
Expressions(m) ==
  LET whole == Range(m.final \o m.updates \o m.returns) \cup {a.rhs : a \in Range(m.assigns)}
                 \cup UNION {Range(x) : x \in Range(m.appends)}
  IN  whole \cup UNION {Range(e.parts) : e \in whole}

Calls(f) ==
  {e.name : e \in {x \in UNION {Expressions(m) : m \in Range(f.methods)} : x.is = "call"}}

\* No concatenation begins and ends with a literal; a name is assigned once, and
\* not another name; a method has updates or an argument of doFinal; no name that
\* was assigned is appended to a builder.
IsStraight(m) ==
  /\ \A e \in Expressions(m) : e.is = "concat" => ~IsLiteral(e)
  /\ \A i, j \in DOMAIN m.assigns : m.assigns[i].var = m.assigns[j].var => i = j
  /\ \A a \in Range(m.assigns) : a.rhs.is \notin {"name", "conversion"}
  /\ m.updates = <<>> \/ m.final = <<>>
  /\ \A args \in Range(m.appends) : \A e \in Range(args), a \in Range(m.assigns) : a.var # e.name

\* The text search finds the method a class calls by name, for there is one.
CallsItsOwn(f, name) ==
  LET own == Select(f.methods, LAMBDA m : m.name = name) IN Len(own) = 1 /\ own[1].plain

\* A file one of whose methods is called from another file.
IsHelper(f) ==
  \E g \in Range(classes) \ {f} : \E name \in Calls(g) :
    ~CallsItsOwn(g, name) /\ \E m \in Range(f.methods) : m.name = name

\* A method that is called signs nothing itself, and is told by its name: no
\* other of the app has it, or it is the caller's, which no other file calls.
IsClear(f, name) ==
  LET named == Select(GraphKeys, LAMBDA g : g.method.name = name)
  IN  /\ \A k \in DOMAIN named : Inputs(named[k].method) = <<>>
      /\ Len(named) <= 1 \/ (CallsItsOwn(f, name) /\ ~IsHelper(f))

\* An app the tracer reads right.
IsReadable ==
  \A f \in Range(classes) :
    /\ \A m \in Range(f.methods) : IsStraight(m)
    /\ \A name \in Calls(f) : IsClear(f, name)
    /\ f.first /\ f.algorithms # <<>> => ClassFile(f.class)[1] = f

\* A trace that static analysis is confident of lists exactly what its method
\* signs, in the order it is signed, however the text is put together over names,
\* builders, fields and calls within the class and across files.  This is so of
\* an app whose methods run straight to their use of cryptography (the model has
\* no branches and loops), nest calls less than CallDepth deep, and is readable:
\* no concatenation between two literals, no name assigned twice or for another
\* name, no updates before an argument of doFinal, no assigned name in a builder,
\* no called method that digests or has a namesake where it is looked for, and no
\* file found before the class's own under the same simple name.
SignsTheMessage ==
  stage \in {"next", "tracing"} /\ IsReadable =>
    \A i \in DOMAIN traces : traces[i].conf >= Threshold =>
      [k \in DOMAIN traces[i].components |-> traces[i].components[k].name]
        = Signed[traces[i].method]

\* Whatever static analysis could not resolve or classify keeps the trace below
\* the threshold of the LLM: nothing in doubt passes for certain.
DoubtIsLow ==
  stage \in {"next", "tracing"} =>
    \A i \in DOMAIN traces :
      \/ traces[i].conf < Threshold
      \/ traces[i].unresolved = <<>>
         /\ \A c \in Range(traces[i].components) : c.kind # "unknown"

\* The escalation only adds: "high-confidence traces are passed through
\* unchanged", and the parts found and the confidence in them stay.
EscalationAdds ==
  [][stage = "escalating" /\ stage' = "escalating" =>
       \A i \in DOMAIN traces :
         /\ traces[i].conf >= Threshold => traces'[i] = traces[i]
         /\ IsPrefix(traces[i].components, traces'[i].components)
         /\ traces[i].conf <= traces'[i].conf]_traceVars

\* Tracing ends although assignments and calls may refer to themselves, and so
\* does the escalation although the LLM may limit its rate.
TraceEnds == <>(stage = "done")

\* What the IR says of a trace: "signing input parts, in order".
PartsInOrder ==
  \A i \in DOMAIN traces : traces[i].unresolved = <<>> =>
    [k \in DOMAIN traces[i].components |-> traces[i].components[k].name]
      = Signed[traces[i].method]
=============================================================================
