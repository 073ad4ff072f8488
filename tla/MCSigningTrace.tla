---------------------------- MODULE MCSigningTrace ----------------------------
(***************************************************************************)
(* Classes that sign in the ways the tracer's tests have, one whose text   *)
(* refers to itself, and some the tracer takes for what they are not, in   *)
(* the orders the files may be found in.                                   *)
(***************************************************************************)
EXTENDS SigningTrace

E(is, name, parts) == [is |-> is, name |-> name, parts |-> parts]
N(name) == E("name", name, <<>>)
L(text) == E("literal", text, <<>>)
Call(name) == E("call", name, <<>>)
Field(name) == E("field", name, <<>>)
Symbol(is) == E(is, "", <<>>)
Plus(parts) ==  \* part + part + ...
  E("concat", "", FoldLeft(LAMBDA text, p : text \o <<Symbol("plus"), p>>, <<parts[1]>>, Tail(parts)))
ValueOf(e) == E("conversion", "", <<e>>)
Bytes(parts) == E("bytes", "", parts)

Is(var, rhs) == [var |-> var, typed |-> TRUE, rhs |-> rhs]
Again(var, rhs) == [var |-> var, typed |-> FALSE, rhs |-> rhs]

M(name) == [name |-> name, plain |-> TRUE, final |-> <<>>, updates |-> <<>>, key |-> "secret",
            assigns |-> <<>>, appends |-> [b \in {} |-> <<>>], returns |-> <<>>]
Class(class, methods, crypto) ==
  [class |-> class, simple |-> class, first |-> TRUE, imports |-> TRUE,
   algorithms |-> <<"HMAC-SHA256">>, methods |-> methods, crypto |-> crypto]

\* msg = rest + "|" + timestamp, rest = build() in the same class
Signer == Class("Signer", <<
  [M("sign") EXCEPT !.final = <<N("msg")>>, !.assigns = <<
     Is("msg", Plus(<<N("rest"), L("|"), ValueOf(N("timestamp"))>>)), Is("rest", Call("build"))>>],
  [M("build") EXCEPT !.returns = <<Plus(<<N("path"), N("body")>>)>>]>>, "sign")

\* mac.update(nonce), mac.update(data), data = plus(text, tail()) of a helper,
\* which has a text of its own
Codec == Class("Codec", <<
  [M("mac") EXCEPT !.updates = <<N("nonce"), N("data")>>, !.assigns = <<
     Is("data", Bytes(<<N("text"), Call("tail")>>)), Is("text", Field("path"))>>]>>, "mac")
Helper == [Class("Helper", <<
  [M("tail") EXCEPT !.plain = FALSE, !.returns = <<N("sb")>>,
     !.assigns = <<Is("text", Field("nonce"))>>,
     !.appends = [b \in {"sb"} |-> <<N("body"), L(".")>>]]>>, "") EXCEPT !.algorithms = <<>>]
\* files of other packages: a method of the same name, a class of the same name
Namesake(name) == [Class("Namesake", <<[M(name) EXCEPT !.returns = <<N("token")>>]>>, "")
  EXCEPT !.algorithms = <<>>]
Twin == [Class("lib.Signer", <<[M("sign") EXCEPT !.final = <<N("nonce")>>]>>, "sign")
  EXCEPT !.simple = "Signer", !.first = FALSE]

\* x = x + path, of a parameter x; and two methods that call each other
Loop == Class("Loop", <<
  [M("sign") EXCEPT !.final = <<N("x")>>, !.assigns = <<Again("x", Plus(<<N("x"), N("path")>>))>>]
  >>, "sign")
Ring == Class("Ring", <<
  [M("sign") EXCEPT !.updates = <<N("a")>>, !.assigns = <<Is("a", Call("other"))>>],
  [M("other") EXCEPT !.assigns = <<Is("b", Call("again"))>>, !.returns = <<N("b")>>],
  [M("again") EXCEPT !.assigns = <<Is("c", Call("other"))>>, !.returns = <<N("c")>>]>>, "sign")

\* seed sounds like nothing
Odd == [Class("Odd", <<
  [M("sign") EXCEPT !.final = <<Plus(<<N("seed"), N("path")>>)>>]>>, "sign")
  EXCEPT !.algorithms = <<"AES", "HMAC-SHA256", "AES">>]
\* hash(path + body) + nonce, and "<" + path + ">", which is taken for a literal
Nested == Class("Nested", <<
  [M("sign") EXCEPT !.final = <<E("concat", "",
     <<N("hash"), Symbol("open"), N("path"), Symbol("plus"), N("body"), Symbol("close"),
       Symbol("plus"), N("nonce")>>)>>]>>, "sign")
Quoted == Class("Quoted", <<
  [M("sign") EXCEPT !.final = <<Plus(<<L("<"), N("path"), L(">")>>)>>]>>, "sign")
Builder == Class("Builder", <<
  [M("sign") EXCEPT !.final = <<N("sb")>>,
     !.appends = [b \in {"sb"} |-> <<N("seed"), L("|"), N("body")>>]]>>, "sign")
\* x = this.path; x = x + body.  data = path.  update(nonce); doFinal(path).
\* A builder of body, which is path + data.  x = hash(), which digests body.
Rewritten == Class("Rewritten", <<
  [M("sign") EXCEPT !.final = <<N("x")>>, !.assigns = <<
     Is("x", Field("path")), Again("x", Plus(<<N("x"), N("body")>>))>>]>>, "sign")
Renamed == Class("Renamed", <<
  [M("sign") EXCEPT !.final = <<N("data")>>, !.assigns = <<Is("data", N("path"))>>]>>, "sign")
Twofold == Class("Twofold", <<
  [M("sign") EXCEPT !.updates = <<N("nonce")>>, !.final = <<N("path")>>]>>, "sign")
Built == Class("Built", <<
  [M("sign") EXCEPT !.final = <<N("sb")>>, !.assigns = <<Is("body", Plus(<<N("path"), N("data")>>))>>,
     !.appends = [b \in {"sb"} |-> <<N("body")>>]]>>, "sign")
Hashed == Class("Hashed", <<
  [M("sign") EXCEPT !.final = <<N("x")>>, !.assigns = <<Is("x", Call("hash"))>>],
  [M("hash") EXCEPT !.updates = <<N("body")>>, !.returns = <<N("digest")>>]>>, "sign")
\* calls the helper's tail(), which calls the helper's pad(); and has a pad()
Padded == Class("Padded", <<
  [M("mac") EXCEPT !.updates = <<N("data")>>, !.assigns = <<Is("data", Call("tail"))>>],
  [M("pad") EXCEPT !.returns = <<N("token")>>]>>, "mac")
Padding == [Class("Padding", <<
  [M("tail") EXCEPT !.returns = <<N("x")>>, !.assigns = <<Is("x", Call("pad"))>>],
  [M("pad") EXCEPT !.returns = <<N("body")>>]>>, "") EXCEPT !.algorithms = <<>>]
Empty == Class("Empty", <<M("sign")>>, "sign")
Library == [Signer EXCEPT !.class = "Library", !.first = FALSE]
Importer == [Empty EXCEPT !.class = "Importer", !.algorithms = <<>>]

MCSources == SetToSeqs({Signer, Codec, Helper, Loop}) \cup
  {<<Odd, Library, Ring, Importer>>, <<Importer, Empty, Builder, Signer>>, <<Ring, Odd, Empty>>,
   <<Nested, Signer>>, <<Quoted, Builder>>, <<Namesake("build"), Signer>>,
   <<Rewritten>>, <<Renamed>>, <<Twofold>>, <<Built>>, <<Hashed>>, <<Padding, Padded>>}
  \cup SetToSeqs({Signer, Twin}) \cup SetToSeqs({Codec, Helper, Namesake("tail")})

MCMethod == UNION {UNION {Range(f.methods) : f \in Range(fs)} : fs \in MCSources}
Outer == UNION {Range(m.final) \cup Range(m.updates) \cup Range(m.returns)
                \cup {a.rhs : a \in Range(m.assigns)}
                \cup UNION {Range(args) : args \in Range(m.appends)} : m \in MCMethod}
Symbols == Outer \cup UNION {Range(e.parts) : e \in Outer}
MCExpr == Symbols \cup UNION {Range(Operands(e)) : e \in {x \in Symbols : x.is = "concat"}}
  \cup {Unwrapped(e) : e \in Symbols}

MCWords == [n \in {e.name : e \in MCExpr} |-> IF n = "" THEN <<>> ELSE <<n>>]

MCSigned ==
  [c \in {"Signer", "Codec", "Odd", "Builder", "Ring", "Loop", "Empty", "Nested", "Quoted",
          "Rewritten", "Renamed", "Twofold", "Built", "Hashed", "Padded"} |->
    CASE c = "Signer"  -> <<"path", "body", "|", "timestamp">>
      [] c = "Codec"   -> <<"nonce", "path", "body", ".">>
      [] c = "Odd"     -> <<"seed", "path">>
      [] c = "Builder" -> <<"seed", "|", "body">>
      [] c = "Loop"    -> <<"x", "path">>
      [] c = "Quoted"  -> <<"<", "path", ">">>
      [] c = "Nested"  -> <<"hash", "path", "body", "nonce">>
      [] c = "Rewritten" -> <<"path", "body">>
      [] c = "Renamed" -> <<"path">>
      [] c = "Twofold" -> <<"nonce", "path">>
      [] c = "Built"   -> <<"path", "data">>
      [] c = "Hashed"  -> <<"digest">>
      [] c = "Padded"  -> <<"body">>
      [] OTHER         -> <<>>]

MCAnswers == {
  [inputs |-> <<[name |-> "seed", kind |-> "nonce"]>>, conf |-> 85],
  [inputs |-> <<>>, conf |-> 70]}

MCSeparators == <<"n", "", "&", "|">>
MCDigestOf == [a \in {"HMAC-SHA256", "AES"} |-> "sha256"]
Quiet == [hmac |-> <<>>, http |-> <<>>, ws |-> <<>>, udp |-> <<>>]
Captured1(digest, n) == [known |-> TRUE, digest |-> digest, text |-> TRUE,
  pieces |-> [s \in Range(MCSeparators) |-> IF s = "|" THEN n ELSE 1]]
MCCaptures == {Quiet, [Quiet EXCEPT !.hmac = <<Captured1("sha256", 2)>>],
  [Quiet EXCEPT !.hmac = <<[Captured1("sha1", 2) EXCEPT !.known = FALSE], Captured1("sha1", 2)>>]}
=============================================================================
