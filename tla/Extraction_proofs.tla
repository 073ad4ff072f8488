-------------------------- MODULE Extraction_proofs --------------------------
(***************************************************************************)
(* For every app, however its modules import each other: what is scanned;  *)
(* whatever its files hold and in whatever order they come: that the IR is *)
(* an IR after each pass; for every capture: what it does to the IR; for   *)
(* whatever an app signs, and every answer of the LLM: what a trace's      *)
(* confidence says of it, and what the escalation leaves alone; and for a  *)
(* framed protocol, whichever device it is checked against: what is        *)
(* written to it, and what becomes of each request.                        *)
(***************************************************************************)
EXTENDS ProtocolScan, SigningTrace, FramedCheck, FunctionTheorems, FiniteSetTheorems, SequenceTheorems, TLAPS

Own == Dirs({"root", "module", "vendor"})

Closed(ds) ==
  Dirs({"root"}) \subseteq ds /\ \A d \in ds : app.dirs[d].imports \cap Own \subseteq ds

\* What is still to be followed is all that may be missing.
Followed ==
  /\ Dirs({"root"}) \subseteq included /\ frontier \subseteq included
  /\ \A d \in included \ frontier : app.dirs[d].imports \cap Own \subseteq included
  /\ \A ds \in SUBSET Own : Closed(ds) => included \subseteq ds
  /\ at # "sources" => frontier = {}

\* Roots are included from the start: only the other own directories are
\* imported.
LEMMA ImportedIsOwn ==
  ASSUME Followed
  PROVE  /\ Imported \subseteq Own
         /\ \A d \in frontier : app.dirs[d].imports \cap Own \subseteq included \cup Imported
  BY DEF Followed, Imported, Own, Dirs

LEMMA FollowedInit == Init => Followed
  BY DEF Init, Followed, Closed

\* A step that leaves the directories alone, or gets past them when all is
\* followed, keeps what is followed.
LEMMA FollowedKept ==
  ASSUME Followed, UNCHANGED <<app, included, frontier>>, at' # "sources" => frontier = {}
  PROVE  Followed'
  BY DEF Followed, Closed, Own, Dirs

LEMMA FollowedNext == Followed /\ [Next]_vars => Followed'
<1> SUFFICES ASSUME Followed, [Next]_vars PROVE Followed'
  OBVIOUS
<1>1. CASE FollowImports
  <2>1. app' = app /\ at' = at /\ at = "sources"
    BY <1>1 DEF FollowImports
  <2>2. frontier' = Imported \ included /\ included' = included \cup Imported
    BY <1>1 DEF FollowImports
  <2>3. \A d \in included' \ frontier' : app.dirs[d].imports \cap Own \subseteq included'
    BY <2>2, ImportedIsOwn DEF Followed
  <2>4. ASSUME NEW ds \in SUBSET Own, Closed(ds)
        PROVE  included' \subseteq ds
    <3>1. included \subseteq ds
      BY <2>4 DEF Followed
    <3>2. Imported \subseteq ds
      BY <2>4, <3>1, ImportedIsOwn DEF Followed, Closed, Imported
    <3> QED  BY <2>2, <3>1, <3>2
  <2> QED  BY <2>1, <2>2, <2>3, <2>4 DEF Followed, Closed, Own, Dirs
<1>2. CASE FindFiles
  BY <1>2, FollowedKept DEF FindFiles
<1>3. CASE at # "sources" /\ UNCHANGED <<app, included, frontier>>
  BY <1>3, FollowedKept DEF Followed
<1>4. CASE UNCHANGED vars
  BY <1>4, FollowedKept DEF vars, Followed
<1>5. CASE Scan
  <2>1. ASSUME CollectConstants \/ CollectLists \/ DetectTransport
        PROVE  at # "sources" /\ UNCHANGED <<app, included, frontier>>
    BY <2>1 DEF CollectConstants, CollectLists, DetectTransport
  <2>2. ASSUME ExtractEndpoints \/ AttachResponses \/ Split
        PROVE  at # "sources" /\ UNCHANGED <<app, included, frontier>>
    BY <2>2 DEF ExtractEndpoints, AttachResponses, Split
  <2>3. ASSUME AddGraphQL \/ ExtractModes \/ DetectStreaming \/ FillHttpState
        PROVE  at # "sources" /\ UNCHANGED <<app, included, frontier>>
    BY <2>3 DEF AddGraphQL, ExtractModes, DetectStreaming, FillHttpState
  <2> QED  BY <1>1, <1>2, <1>3, <1>5, <2>1, <2>2, <2>3 DEF Scan
<1>6. CASE AddBluetooth \/ Oracle \/ Emit
  <2>1. ASSUME AddBluetooth
        PROVE  at # "sources" /\ UNCHANGED <<app, included, frontier>>
    BY <2>1, Zenon DEF AddBluetooth
  <2>2. ASSUME Oracle \/ Emit
        PROVE  at # "sources" /\ UNCHANGED <<app, included, frontier>>
    BY <2>2 DEF Oracle, Emit
  <2> QED  BY <2>1, <2>2, <1>3, <1>6
<1> QED  BY <1>4, <1>5, <1>6 DEF Next

LEMMA FollowedIsClosed == Followed => SourcesAreClosed
  BY DEF Followed, SourcesAreClosed, Closed, Own, Dirs

\* For every app, any graph of imports, with cycles or without: the directories
\* scanned are the least set that holds the app's roots and whatever modules its
\* members import.
THEOREM SourcesClosed == Spec => []SourcesAreClosed
<1>1. Init => Followed
  BY FollowedInit
<1>2. Followed /\ [Next]_vars => Followed'
  BY FollowedNext
<1> QED  BY <1>1, <1>2, FollowedIsClosed, PTL DEF Spec

-----------------------------------------------------------------------------
(* Lists, folds and finite sets.                                           *)

LEMMA Induction ==
  ASSUME NEW A \in SUBSET Nat, 0 \in A, \A n \in A : n + 1 \in A
  PROVE  A = Nat
<1> SUFFICES ASSUME NEW k \in Nat, k \notin A PROVE FALSE
  OBVIOUS
<1> DEFINE S == A \cap 0..k
           next == [n \in S |-> n + 1]
<1>1. IsFiniteSet(S)
  <2>1. IsFiniteSet(0..k) /\ S \in SUBSET (0..k)
    BY FS_Interval
  <2> HIDE DEF S
  <2> QED BY <2>1, FS_Subset
<1>2. next \in [S -> S]
  OBVIOUS
<1>3. next \in Injection(S, S)
  BY <1>2 DEF Injection, IsInjective
<1>4. next \in Surjection(S, S)
  BY <1>1, <1>3, FS_Injection
<1>5. \A m \in S : \E n \in S : next[n] = m
  BY <1>4 DEF Surjection
<1>6. 0 \in S
  OBVIOUS
<1> QED BY <1>5, <1>6

\* What holds at 0 and from each place to the next holds up to n.
LEMMA Climb ==
  ASSUME NEW n \in Nat, NEW u, NEW Y, u[0] \in Y,
         \A i \in 1..n : u[i - 1] \in Y => u[i] \in Y
  PROVE  \A i \in 0..n : u[i] \in Y
<1> DEFINE A == {i \in Nat : i <= n => u[i] \in Y}
<1>1. 0 \in A
  OBVIOUS
<1>2. ASSUME NEW i \in A PROVE i + 1 \in A
  <2>1. CASE i + 1 <= n
    <3>1. i + 1 \in 1..n /\ (i + 1) - 1 = i /\ i <= n
      BY <2>1
    <3> QED BY <3>1
  <2> QED BY <2>1
<1>3. A = Nat
  <2>1. A \in SUBSET Nat
    OBVIOUS
  <2> HIDE DEF A
  <2> QED BY <1>1, <1>2, <2>1, Induction
<1>4. ASSUME NEW i \in 0..n PROVE u[i] \in Y
  <2>1. i \in A
    BY <1>3
  <2> QED BY <2>1
<1> QED BY <1>4

\* f is defined by primitive recursion from b, up to n.
Recurs(f, n, Y, b, step) ==
  f \in [0..n -> Y] /\ f[0] = b /\ \A i \in 1..n : f[i] = step[i][f[i - 1]]

LEMMA Recursion ==
  ASSUME NEW n \in Nat, NEW Y, NEW b \in Y, NEW step, step \in [1..n -> [Y -> Y]]
  PROVE  \E f : Recurs(f, n, Y, b, step)
<1> DEFINE Upto(m, f) ==
             f \in [0..m -> Y] /\ f[0] = b /\ \A i \in 1..m : f[i] = step[i][f[i - 1]]
           Has(m) == \E f : Upto(m, f)
           A == {m \in Nat : m <= n => Has(m)}
<1>1. Has(0)
  <2>1. Upto(0, [i \in 0..0 |-> b])
    OBVIOUS
  <2> QED BY <2>1
<1>2. ASSUME NEW m \in Nat, m + 1 <= n, Has(m) PROVE Has(m + 1)
  <2>1. PICK f : Upto(m, f)
    BY <1>2
  <2> DEFINE g == [i \in 0..(m + 1) |-> IF i = m + 1 THEN step[m + 1][f[m]] ELSE f[i]]
  <2>2. f[m] \in Y /\ m + 1 \in 1..n
    BY <1>2, <2>1
  <2>3. step[m + 1][f[m]] \in Y
    BY <2>2
  <2>4. g \in [0..(m + 1) -> Y]
    BY <2>1, <2>3
  <2>5. g[0] = b
    BY <2>1
  <2>6. ASSUME NEW i \in 1..(m + 1) PROVE g[i] = step[i][g[i - 1]]
    <3>1. CASE i = m + 1
      BY <3>1
    <3>2. CASE i # m + 1
      <4>1. i \in 1..m /\ i - 1 \in 0..m /\ i - 1 # m + 1
        BY <3>2
      <4> QED BY <2>1, <4>1
    <3> QED BY <3>1, <3>2
  <2> HIDE DEF g
  <2>7. Upto(m + 1, g)
    BY <2>4, <2>5, <2>6
  <2> QED BY <2>7
<1> HIDE DEF Has
<1>3. 0 \in A
  BY <1>1
<1>4. ASSUME NEW m \in A PROVE m + 1 \in A
  BY <1>2
<1>5. n \in A
  <2> HIDE DEF A
  <2>1. A \in SUBSET Nat
    BY DEF A
  <2>2. A = Nat
    BY <1>3, <1>4, <2>1, Induction
  <2> QED BY <2>2
<1>6. Has(n)
  BY <1>5
<1> QED BY <1>6 DEF Has, Recurs

\* The elements at some of the places up to each.
TakenUpto(u, s, ps, T) ==
  /\ Those(s, ps) = u[Len(s)] /\ u[0] = <<>>
  /\ \A i \in 1..Len(s) : u[i] = IF i \in ps THEN Append(u[i - 1], s[i]) ELSE u[i - 1]
  /\ \A i \in 0..Len(s) : u[i] \in Seq(T)

LEMMA ThoseUpto ==
  ASSUME NEW S, NEW s \in Seq(S), NEW ps, NEW T, \A i \in DOMAIN s \cap ps : s[i] \in T
  PROVE  \E u : TakenUpto(u, s, ps, T)
<1> DEFINE n == Len(s)
           e == <<>>
           Y == Seq(T)
           Upon(v, i) == IF i \in ps THEN Append(v, s[i]) ELSE v
           step == [i \in 1..n |-> [v \in Y |-> Upon(v, i)]]
           Eq(u) == u = [i \in 0..n |-> IF i = 0 THEN e ELSE Upon(u[i - 1], i)]
           upto == CHOOSE u : Eq(u)
<1>1. n \in Nat /\ DOMAIN s = 1..n
  BY LenProperties
<1>2. ASSUME NEW v \in Y, NEW i \in 1..n PROVE Upon(v, i) \in Y
  BY <1>1, AppendProperties
<1>3. e \in Y
  BY EmptySeq
<1>4. Those(s, ps) = upto[n]
  BY DEF Those
<1> HIDE DEF n, e, Y, Upon
<1>5. step \in [1..n -> [Y -> Y]]
  BY <1>2
<1>6. \E f : Recurs(f, n, Y, e, step)
  <2> HIDE DEF step
  <2> QED BY <1>1, <1>3, <1>5, Recursion
<1>7. PICK f \in [0..n -> Y] : f[0] = e /\ \A i \in 1..n : f[i] = step[i][f[i - 1]]
  BY <1>6 DEF Recurs
<1>8. ASSUME NEW i \in 1..n PROVE f[i] = Upon(f[i - 1], i)
  <2>1. f[i - 1] \in Y
    BY <1>1
  <2> QED BY <1>7, <2>1
<1>9. Eq(f)
  BY <1>1, <1>7, <1>8
<1>10. Eq(upto)
  <2> HIDE DEF Eq
  <2> QED BY <1>9
<1> HIDE DEF upto
<1>11. upto[0] = e /\ \A i \in 1..n : upto[i] = Upon(upto[i - 1], i)
  BY <1>1, <1>10
<1>12. \A i \in 0..n : upto[i] \in Y
  <2>1. \A i \in 1..n : upto[i - 1] \in Y => upto[i] \in Y
    BY <1>2, <1>11
  <2> QED BY <1>1, <1>3, <1>11, <2>1, Climb
<1> QED BY <1>4, <1>11, <1>12 DEF n, e, Y, Upon, TakenUpto

LEMMA ThoseTyped ==
  ASSUME NEW S, NEW s \in Seq(S), NEW ps, NEW T, \A i \in DOMAIN s \cap ps : s[i] \in T
  PROVE  Those(s, ps) \in Seq(T)
<1>1. PICK u : TakenUpto(u, s, ps, T)
  BY ThoseUpto
<1> QED BY <1>1, LenProperties DEF TakenUpto

\* What is taken from a list that has it is not nothing.
LEMMA ThoseSome ==
  ASSUME NEW S, NEW s \in Seq(S), NEW ps, NEW j \in DOMAIN s \cap ps
  PROVE  Those(s, ps) # <<>>
<1> DEFINE n == Len(s)
           Y == {p \in Nat \X Seq(S) : p[1] >= j => p[2] # <<>>}
<1>1. n \in Nat /\ DOMAIN s = 1..n /\ \A i \in 1..n : s[i] \in S
  BY LenProperties, ElementOfSeq
<1>0. PICK u : TakenUpto(u, s, ps, S)
  BY <1>1, ThoseUpto
<1>2. /\ Those(s, ps) = u[n] /\ u[0] = <<>>
      /\ \A i \in 1..n : u[i] = IF i \in ps THEN Append(u[i - 1], s[i]) ELSE u[i - 1]
      /\ \A i \in 0..n : u[i] \in Seq(S)
  BY <1>0 DEF TakenUpto
<1> HIDE DEF n
<1> DEFINE v == [i \in 0..n |-> <<i, u[i]>>]
<1>3. v[0] \in Y
  BY <1>1, <1>2
<1>4. ASSUME NEW i \in 1..n, v[i - 1] \in Y PROVE v[i] \in Y
  <2>1. /\ i - 1 \in 0..n /\ i \in 0..n /\ u[i - 1] \in Seq(S) /\ u[i] \in Seq(S)
        /\ v[i - 1] = <<i - 1, u[i - 1]>> /\ v[i] = <<i, u[i]>>
    BY <1>1, <1>2
  <2>2. i - 1 >= j => u[i - 1] # <<>>
    BY <1>4, <2>1
  <2>3. i >= j => u[i] # <<>>
    <3>1. CASE i \in ps
      <4>1. u[i] = Append(u[i - 1], s[i]) /\ s[i] \in S
        BY <1>1, <1>2, <3>1
      <4> QED BY <2>1, <4>1, AppendProperties
    <3>2. CASE i \notin ps
      <4>1. u[i] = u[i - 1] /\ i # j
        BY <1>2, <3>2
      <4> QED BY <1>1, <2>2, <4>1
    <3> QED BY <3>1, <3>2
  <2> HIDE DEF v
  <2> QED BY <2>1, <2>3
<1>5. v[n] \in Y
  <2> HIDE DEF v, Y
  <2>1. \A i \in 0..n : v[i] \in Y
    BY <1>1, <1>3, <1>4, Climb
  <2> QED BY <1>1, <2>1
<1>6. v[n] = <<n, u[n]>> /\ n >= j
  BY <1>1
<1> QED BY <1>2, <1>5, <1>6

LEMMA MaxUpto ==
  ASSUME NEW n \in Nat \ {0}
  PROVE  Max(1..n) = n /\ 1..n # {} /\ (1..n) \ {n} = 1..(n - 1)
<1>1. n \in 1..n /\ \A y \in 1..n : n >= y
  OBVIOUS
<1>2. \A x \in 1..n : (\A y \in 1..n : x >= y) => x = n
  OBVIOUS
<1>3. Max(1..n) = n
  BY <1>1, <1>2 DEF Max
<1> QED BY <1>3

\* What FoldLeft makes of the places in each set, from the last.
Folded(f, n, Y, b, step) ==
  /\ f \in [SUBSET (1..n) -> Y] /\ f[{}] = b
  /\ \A s \in SUBSET (1..n) : s # {} => f[s] = step[Max(s)][f[s \ {Max(s)}]]

LEMMA Folding ==
  ASSUME NEW n \in Nat, NEW Y, NEW b \in Y, NEW step, step \in [1..n -> [Y -> Y]]
  PROVE  \E f : Folded(f, n, Y, b, step)
<1> DEFINE Has(m) == \E f : Folded(f, m, Y, b, step)
           A == {m \in Nat : m <= n => Has(m)}
<1>1. Has(0)
  <2> DEFINE f == [s \in SUBSET (1..0) |-> b]
  <2>1. \A s \in SUBSET (1..0) : s = {}
    OBVIOUS
  <2>2. Folded(f, 0, Y, b, step)
    BY <2>1 DEF Folded
  <2> QED BY <2>2
<1>2. ASSUME NEW m \in Nat, m + 1 <= n, Has(m) PROVE Has(m + 1)
  <2>1. PICK f : Folded(f, m, Y, b, step)
    BY <1>2
  <2> DEFINE k == m + 1
             g == [s \in SUBSET (1..k) |-> IF k \in s THEN step[k][f[s \ {k}]] ELSE f[s]]
  <2>2. k \in 1..n /\ 1..m \subseteq 1..k /\ k \notin 1..m
    BY <1>2
  <2>3. ASSUME NEW s \in SUBSET (1..k) PROVE s \ {k} \in SUBSET (1..m)
    OBVIOUS
  <2>4. ASSUME NEW s \in SUBSET (1..k), k \in s PROVE Max(s) = k
    <3>1. \A y \in s : k >= y
      OBVIOUS
    <3>2. \A x \in s : (\A y \in s : x >= y) => x = k
      BY <2>4
    <3> QED BY <2>4, <3>1, <3>2 DEF Max
  <2> HIDE DEF k
  <2>5. g \in [SUBSET (1..k) -> Y]
    <3>1. ASSUME NEW s \in SUBSET (1..k)
          PROVE  (IF k \in s THEN step[k][f[s \ {k}]] ELSE f[s]) \in Y
      <4>1. f \in [SUBSET (1..m) -> Y]
        BY <2>1 DEF Folded
      <4>2. f[s \ {k}] \in Y
        BY <2>3, <4>1
      <4>3. k \notin s => s \ {k} = s
        OBVIOUS
      <4> QED BY <2>2, <4>2, <4>3
    <3> QED BY <3>1
  <2>6. g[{}] = b
    BY <2>1 DEF Folded
  <2>7. ASSUME NEW s \in SUBSET (1..k), s # {} PROVE g[s] = step[Max(s)][g[s \ {Max(s)}]]
    <3>1. CASE k \in s
      <4>1. k \notin s \ {k} /\ s \ {k} \in SUBSET (1..k)
        OBVIOUS
      <4>2. g[s \ {k}] = f[s \ {k}]
        BY <4>1
      <4> QED BY <2>4, <3>1, <4>2
    <3>2. CASE k \notin s
      <4>1. s \in SUBSET (1..m) /\ s \ {Max(s)} \in SUBSET (1..m)
        <5>1. s \ {k} = s
          BY <3>2
        <5> QED BY <2>3, <5>1
      <4>2. g[s] = f[s] /\ g[s \ {Max(s)}] = f[s \ {Max(s)}]
        <5>1. s \ {Max(s)} \in SUBSET (1..k) /\ k \notin s \ {Max(s)}
          BY <3>2
        <5> QED BY <3>2, <5>1
      <4> QED BY <2>1, <2>7, <4>1, <4>2 DEF Folded
    <3> QED BY <3>1, <3>2
  <2> HIDE DEF g
  <2>8. Folded(g, k, Y, b, step)
    BY <2>5, <2>6, <2>7 DEF Folded
  <2> QED BY <2>8 DEF k
<1> HIDE DEF Has
<1>3. 0 \in A
  BY <1>1
<1>4. ASSUME NEW m \in A PROVE m + 1 \in A
  BY <1>2
<1>5. n \in A
  <2>1. A \in SUBSET Nat
    OBVIOUS
  <2> HIDE DEF A
  <2>2. A = Nat
    BY <1>3, <1>4, <2>1, Induction
  <2> QED BY <2>2
<1>6. Has(n)
  BY <1>5
<1> QED BY <1>6 DEF Has

\* The lists in a list, one after the other.
LEMMA FlattenTyped ==
  ASSUME NEW T, NEW ss \in Seq(Seq(T))
  PROVE  FlattenSeq(ss) \in Seq(T)
<1> DEFINE n == Len(ss)
           Y == Seq(T)
           e == <<>>
           Upon(v, i) == IF i = 1 THEN ss[i] ELSE v \o ss[i]
           step == [i \in 1..n |-> [v \in Y |-> Upon(v, i)]]
           Eq(u) == u = [i \in 1..n |-> IF i = 1 THEN ss[i] ELSE u[i - 1] \o ss[i]]
           flatten == CHOOSE u : Eq(u)
<1>1. n \in Nat /\ DOMAIN ss = 1..n /\ \A i \in 1..n : ss[i] \in Y
  BY LenProperties, ElementOfSeq
<1>2. ASSUME NEW v \in Y, NEW i \in 1..n PROVE Upon(v, i) \in Y
  BY <1>1, ConcatProperties
<1>3. e \in Y
  BY EmptySeq
<1>4. FlattenSeq(ss) = IF n = 0 THEN ss ELSE flatten[n]
  BY DEF FlattenSeq
<1>5. CASE n = 0
  <2>1. ss = <<>>
    BY <1>5, EmptySeq
  <2> QED BY <1>3, <1>4, <1>5, <2>1
<1>6. CASE n # 0
  <2> HIDE DEF n, e, Y, Upon
  <2>1. step \in [1..n -> [Y -> Y]]
    BY <1>2
  <2>2. \E f : Recurs(f, n, Y, e, step)
    <3> HIDE DEF step
    <3> QED BY <1>1, <1>3, <2>1, Recursion
  <2>3. PICK f : f \in [0..n -> Y] /\ f[0] = e /\ \A i \in 1..n : f[i] = step[i][f[i - 1]]
    BY <2>2 DEF Recurs
  <2>4. ASSUME NEW i \in 1..n PROVE f[i] = Upon(f[i - 1], i)
    <3>1. f[i - 1] \in Y
      BY <1>1, <2>3
    <3> QED BY <2>3, <3>1
  <2> DEFINE g == [i \in 1..n |-> f[i]]
  <2>5. Eq(g)
    <3>1. ASSUME NEW i \in 1..n
          PROVE  f[i] = IF i = 1 THEN ss[i] ELSE g[i - 1] \o ss[i]
      BY <1>1, <2>4 DEF Upon
    <3> QED BY <3>1
  <2>6. Eq(flatten)
    <3> HIDE DEF Eq, g
    <3> QED BY <2>5
  <2> HIDE DEF flatten
  <2> DEFINE u == [i \in 0..n |-> IF i = 0 THEN e ELSE flatten[i]]
  <2>7. ASSUME NEW i \in 1..n, u[i - 1] \in Y PROVE u[i] \in Y
    <3>1. flatten[i] = IF i = 1 THEN ss[i] ELSE flatten[i - 1] \o ss[i]
      BY <2>6
    <3>2. i # 1 => u[i - 1] = flatten[i - 1]
      BY <1>1
    <3>3. u[i] = flatten[i]
      BY <1>1
    <3> HIDE DEF u
    <3>4. u[i] = Upon(u[i - 1], i)
      BY <3>1, <3>2, <3>3 DEF Upon
    <3> QED BY <1>2, <2>7, <3>4
  <2>8. u[0] \in Y
    BY <1>1, <1>3
  <2>9. \A i \in 0..n : u[i] \in Y
    <3> HIDE DEF u
    <3> QED BY <1>1, <2>7, <2>8, Climb
  <2>10. flatten[n] \in Y
    BY <1>1, <1>6, <2>9
  <2> QED BY <1>4, <1>6, <2>10 DEF Y
<1> QED BY <1>5, <1>6

\* What a set of the places in a list has at its end is one of it.
LEMMA MaxIn ==
  ASSUME NEW n \in Nat, NEW s \in SUBSET (1..n), s # {}
  PROVE  Max(s) \in s /\ \A y \in s : Max(s) >= y
<1> DEFINE Topped(i) == s \cap 1..i = {} \/ \E x \in s \cap 1..i : \A y \in s \cap 1..i : x >= y
           A == {i \in Nat : Topped(i)}
<1>1. Topped(0)
  OBVIOUS
<1>2. ASSUME NEW i \in Nat, Topped(i) PROVE Topped(i + 1)
  <2>1. CASE i + 1 \in s
    <3>1. i + 1 \in s \cap 1..(i + 1) /\ \A y \in s \cap 1..(i + 1) : i + 1 >= y
      BY <2>1
    <3> QED BY <3>1
  <2>2. CASE i + 1 \notin s
    <3>1. s \cap 1..(i + 1) = s \cap 1..i
      BY <2>2
    <3> QED BY <1>2, <3>1
  <2> QED BY <2>1, <2>2
<1> HIDE DEF Topped
<1>3. n \in A
  <2>1. A \in SUBSET Nat /\ 0 \in A /\ \A i \in A : i + 1 \in A
    BY <1>1, <1>2
  <2> HIDE DEF A
  <2>2. A = Nat
    BY <2>1, Induction
  <2> QED BY <2>2
<1>4. Topped(n)
  BY <1>3
<1>5. s \cap 1..n = s
  OBVIOUS
<1>6. \E x \in s : \A y \in s : x >= y
  BY <1>4, <1>5 DEF Topped
<1> QED BY <1>6 DEF Max

LEMMA FiniteImages ==
  ASSUME NEW S, IsFiniteSet(S), NEW f
  PROVE  IsFiniteSet({f[x] : x \in S})
<1> DEFINE T == {f[x] : x \in S}
           g == [x \in S |-> f[x]]
<1>1. g \in [S -> T] /\ \A t \in T : \E x \in S : g[x] = t
  OBVIOUS
<1>2. g \in Surjection(S, T)
  BY <1>1, Fun_IsSurj
<1> QED BY <1>2, FS_Surjection

LEMMA ListOf ==
  ASSUME NEW n \in Nat, NEW T, NEW f \in [1..n -> T]
  PROVE  f \in Seq(T) /\ Len(f) = n
<1>1. f \in Seq(T)
  BY SeqDef
<1> QED BY <1>1, LenProperties

\* A finite set, as a list.
LEMMA SetToSeqTyped ==
  ASSUME NEW S, IsFiniteSet(S)
  PROVE  SetToSeq(S) \in Seq(S)
<1> DEFINE n == Cardinality(S)
<1>1. n \in Nat /\ \E f : ExistsBijection(1..n, S)
  BY FS_CardinalityType
<1>2. PICK f \in Bijection(1..n, S) : TRUE
  BY <1>1 DEF ExistsBijection
<1>3. f \in [1..n -> S] /\ IsInjective(f)
  BY <1>2 DEF Bijection, Injection
<1>4. SetToSeq(S) \in [1..n -> S]
  BY <1>3 DEF SetToSeq
<1> QED BY <1>1, <1>4, ListOf

\* What is taken from a list is of it.
LEMMA ThoseOf ==
  ASSUME NEW T, NEW s \in Seq(T), NEW ps
  PROVE  Those(s, ps) \in Seq(T)
<1>1. \A i \in DOMAIN s : s[i] \in T
  BY LenProperties, ElementOfSeq
<1> QED BY <1>1, ThoseTyped

LEMMA ListInto ==
  ASSUME NEW s, IsList(s), NEW T, Range(s) \subseteq T
  PROVE  s \in Seq(T)
  BY SeqMonotonic DEF IsList

-----------------------------------------------------------------------------
(* What the passes make: constants, lists, endpoints, the IR.              *)

Catalogue == UNION {[D -> ScannedType] : D \in {names \in SUBSET STRING : IsFiniteSet(names)}}

LEMMA PutTyped ==
  ASSUME NEW eps \in Catalogue, NEW ep \in ScannedType
  PROVE  Put(eps, ep.cmd, ep) \in Catalogue
<1>1. PICK D \in SUBSET STRING : IsFiniteSet(D) /\ eps \in [D -> ScannedType]
  BY DEF Catalogue
<1>2. ep.cmd \in STRING
  BY DEF ScannedType, EndpointType
<1>3. IsFiniteSet(D \cup {ep.cmd})
  BY <1>1, FS_AddElement
<1>4. Put(eps, ep.cmd, ep) \in [D \cup {ep.cmd} -> ScannedType]
  BY <1>1 DEF Put
<1> QED BY <1>2, <1>3, <1>4 DEF Catalogue

\* A fold, by its steps.
LEMMA FoldsUp ==
  ASSUME NEW n \in Nat, NEW Y, NEW iter, iter[{}] \in Y,
         \A i \in 1..n : iter[1..(i - 1)] \in Y => iter[1..i] \in Y
  PROVE  iter[1..n] \in Y
<1> DEFINE u == [i \in 0..n |-> iter[1..i]]
<1>1. u[0] \in Y
  <2>1. 1..0 = {}
    OBVIOUS
  <2> QED BY <2>1
<1>2. ASSUME NEW i \in 1..n PROVE u[i - 1] \in Y => u[i] \in Y
  <2>1. i \in 0..n /\ i - 1 \in 0..n
    OBVIOUS
  <2> QED BY <2>1
<1>3. u[n] = iter[1..n]
  OBVIOUS
<1>4. \A i \in 0..n : u[i] \in Y
  <2> HIDE DEF u
  <2> QED BY <1>1, <1>2, Climb
<1> QED BY <1>3, <1>4

Constants == UNION {[D -> NameType] : D \in SUBSET STRING}
ListsType == [{"response", "none"} -> {names \in SUBSET NameType : IsFiniteSet(names)}]

LEMMA EmptyTyped == Empty \in Constants /\ Empty \in Catalogue
<1>1. Empty \in [{} -> NameType] /\ Empty \in [{} -> ScannedType]
  BY DEF Empty
<1>2. {} \in SUBSET STRING /\ IsFiniteSet({})
  BY FS_EmptySet
<1> QED BY <1>1, <1>2 DEF Constants, Catalogue

LEMMA NoLists == [response |-> {}, none |-> {}] \in ListsType
<1>1. {} \in SUBSET NameType /\ IsFiniteSet({})
  BY FS_EmptySet
<1> QED BY <1>1 DEF ListsType

\* The passes register endpoints.
LEMMA RegisterTyped ==
  ASSUME NEW base \in Catalogue, NEW eps \in Seq(ScannedType)
  PROVE  FoldLeft(Register, base, eps) \in Catalogue
<1> DEFINE n == Len(eps)
           Y == Catalogue
           Op(v, i) == Register(v, eps[i])
           step == [i \in 1..n |-> [v \in Y |-> Op(v, i)]]
           Eq(g) == g = [s \in SUBSET (1..n) |->
                           IF s = {} THEN base ELSE Op(g[s \ {Max(s)}], Max(s))]
           iter == CHOOSE g : Eq(g)
<1>1. n \in Nat /\ DOMAIN eps = 1..n
  BY LenProperties
<1>2. ASSUME NEW v \in Y, NEW i \in 1..n PROVE Op(v, i) \in Y
  <2>1. eps[i] \in ScannedType
    BY ElementOfSeq
  <2> QED BY <2>1, PutTyped DEF Register
<1>3. FoldLeft(Register, base, eps) = iter[1..n]
  BY <1>1 DEF FoldLeft, MapThenFoldSet
<1> HIDE DEF n, Y, Op
<1>4. \E f : Folded(f, n, Y, base, step)
  <2>1. step \in [1..n -> [Y -> Y]]
    BY <1>2
  <2> HIDE DEF step
  <2>2. base \in Y
    BY DEF Y
  <2> QED BY <1>1, <2>1, <2>2, Folding
<1>5. PICK f : Folded(f, n, Y, base, step)
  BY <1>4
<1>6. Eq(f)
  <2>1. ASSUME NEW s \in SUBSET (1..n), s # {} PROVE f[s] = Op(f[s \ {Max(s)}], Max(s))
    <3>1. Max(s) \in 1..n /\ s \ {Max(s)} \in SUBSET (1..n)
      BY <1>1, <2>1, MaxIn
    <3>2. f[s \ {Max(s)}] \in Y /\ f[s] = step[Max(s)][f[s \ {Max(s)}]]
      BY <1>5, <2>1, <3>1 DEF Folded
    <3> HIDE DEF Eq
    <3> QED BY <3>1, <3>2
  <2> QED BY <1>5, <2>1 DEF Folded
<1>7. Eq(iter)
  <2> HIDE DEF Eq
  <2> QED BY <1>6
<1> HIDE DEF iter
<1>8. iter[{}] \in Y
  <2>1. iter[{}] = base
    BY <1>7
  <2> QED BY <2>1 DEF Y
<1>9. ASSUME NEW i \in 1..n, iter[1..(i - 1)] \in Y PROVE iter[1..i] \in Y
  <2>1. i \in Nat \ {0} /\ 1..i \in SUBSET (1..n)
    BY <1>1
  <2>2. Max(1..i) = i /\ 1..i # {} /\ (1..i) \ {i} = 1..(i - 1)
    BY <2>1, MaxUpto
  <2>3. iter[1..i] = Op(iter[1..(i - 1)], i)
    BY <1>7, <2>1, <2>2
  <2> QED BY <1>2, <1>9, <2>3
<1>10. iter[1..n] \in Y
  BY <1>1, <1>8, <1>9, FoldsUp
<1> QED BY <1>3, <1>10 DEF Y

LEMMA AddNewTyped ==
  ASSUME NEW base \in Catalogue, NEW eps \in Seq(ScannedType)
  PROVE  FoldLeft(AddNew, base, eps) \in Catalogue
<1> DEFINE n == Len(eps)
           Y == Catalogue
           Op(v, i) == AddNew(v, eps[i])
           step == [i \in 1..n |-> [v \in Y |-> Op(v, i)]]
           Eq(g) == g = [s \in SUBSET (1..n) |->
                           IF s = {} THEN base ELSE Op(g[s \ {Max(s)}], Max(s))]
           iter == CHOOSE g : Eq(g)
<1>1. n \in Nat /\ DOMAIN eps = 1..n
  BY LenProperties
<1>2. ASSUME NEW v \in Y, NEW i \in 1..n PROVE Op(v, i) \in Y
  <2>1. eps[i] \in ScannedType
    BY ElementOfSeq
  <2> QED BY <2>1, PutTyped DEF AddNew
<1>3. FoldLeft(AddNew, base, eps) = iter[1..n]
  BY <1>1 DEF FoldLeft, MapThenFoldSet
<1> HIDE DEF n, Y, Op
<1>4. \E f : Folded(f, n, Y, base, step)
  <2>1. step \in [1..n -> [Y -> Y]]
    BY <1>2
  <2> HIDE DEF step
  <2>2. base \in Y
    BY DEF Y
  <2> QED BY <1>1, <2>1, <2>2, Folding
<1>5. PICK f : Folded(f, n, Y, base, step)
  BY <1>4
<1>6. Eq(f)
  <2>1. ASSUME NEW s \in SUBSET (1..n), s # {} PROVE f[s] = Op(f[s \ {Max(s)}], Max(s))
    <3>1. Max(s) \in 1..n /\ s \ {Max(s)} \in SUBSET (1..n)
      BY <1>1, <2>1, MaxIn
    <3>2. f[s \ {Max(s)}] \in Y /\ f[s] = step[Max(s)][f[s \ {Max(s)}]]
      BY <1>5, <2>1, <3>1 DEF Folded
    <3> HIDE DEF Eq
    <3> QED BY <3>1, <3>2
  <2> QED BY <1>5, <2>1 DEF Folded
<1>7. Eq(iter)
  <2> HIDE DEF Eq
  <2> QED BY <1>6
<1> HIDE DEF iter
<1>8. iter[{}] \in Y
  <2>1. iter[{}] = base
    BY <1>7
  <2> QED BY <2>1 DEF Y
<1>9. ASSUME NEW i \in 1..n, iter[1..(i - 1)] \in Y PROVE iter[1..i] \in Y
  <2>1. i \in Nat \ {0} /\ 1..i \in SUBSET (1..n)
    BY <1>1
  <2>2. Max(1..i) = i /\ 1..i # {} /\ (1..i) \ {i} = 1..(i - 1)
    BY <2>1, MaxUpto
  <2>3. iter[1..i] = Op(iter[1..(i - 1)], i)
    BY <1>7, <2>1, <2>2
  <2> QED BY <1>2, <1>9, <2>3
<1>10. iter[1..n] \in Y
  BY <1>1, <1>8, <1>9, FoldsUp
<1> QED BY <1>3, <1>10 DEF Y

\* The constants of all files.
LEMMA ConstantsTyped ==
  ASSUME NEW S, NEW fs \in Seq(S), \A f \in S : IsFile(f)
  PROVE  FoldLeft(LAMBDA c, f : Override(f.consts, c), Empty, fs) \in Constants
<1> DEFINE n == Len(fs)
           Y == Constants
           Op(v, i) == Override(fs[i].consts, v)
           step == [i \in 1..n |-> [v \in Y |-> Op(v, i)]]
           Eq(g) == g = [s \in SUBSET (1..n) |->
                           IF s = {} THEN Empty ELSE Op(g[s \ {Max(s)}], Max(s))]
           iter == CHOOSE g : Eq(g)
<1>1. n \in Nat /\ DOMAIN fs = 1..n
  BY LenProperties
<1>2. ASSUME NEW v \in Y, NEW i \in 1..n PROVE Op(v, i) \in Y
  <2>1. IsFile(fs[i])
    BY ElementOfSeq
  <2>2. PICK D \in SUBSET STRING : v \in [D -> NameType]
    BY DEF Constants
  <2>3. Override(fs[i].consts, v) \in [D \cup DOMAIN fs[i].consts -> NameType]
    BY <2>1, <2>2 DEF Override, IsFile
  <2> QED BY <2>1, <2>3 DEF Constants, IsFile
<1>3. FoldLeft(LAMBDA c, f : Override(f.consts, c), Empty, fs) = iter[1..n]
  BY <1>1 DEF FoldLeft, MapThenFoldSet
<1> HIDE DEF n, Y, Op
<1>4. \E f : Folded(f, n, Y, Empty, step)
  <2>1. step \in [1..n -> [Y -> Y]]
    BY <1>2
  <2> HIDE DEF step
  <2>2. Empty \in Y
    BY EmptyTyped DEF Y
  <2> QED BY <1>1, <2>1, <2>2, Folding
<1>5. PICK f : Folded(f, n, Y, Empty, step)
  BY <1>4
<1>6. Eq(f)
  <2>1. ASSUME NEW s \in SUBSET (1..n), s # {} PROVE f[s] = Op(f[s \ {Max(s)}], Max(s))
    <3>1. Max(s) \in 1..n /\ s \ {Max(s)} \in SUBSET (1..n)
      BY <1>1, <2>1, MaxIn
    <3>2. f[s \ {Max(s)}] \in Y /\ f[s] = step[Max(s)][f[s \ {Max(s)}]]
      BY <1>5, <2>1, <3>1 DEF Folded
    <3> HIDE DEF Eq
    <3> QED BY <3>1, <3>2
  <2> QED BY <1>5, <2>1 DEF Folded
<1>7. Eq(iter)
  <2> HIDE DEF Eq
  <2> QED BY <1>6
<1> HIDE DEF iter
<1>8. iter[{}] \in Y
  <2>1. iter[{}] = Empty
    BY <1>7
  <2> QED BY <2>1, EmptyTyped DEF Y
<1>9. ASSUME NEW i \in 1..n, iter[1..(i - 1)] \in Y PROVE iter[1..i] \in Y
  <2>1. i \in Nat \ {0} /\ 1..i \in SUBSET (1..n)
    BY <1>1
  <2>2. Max(1..i) = i /\ 1..i # {} /\ (1..i) \ {i} = 1..(i - 1)
    BY <2>1, MaxUpto
  <2>3. iter[1..i] = Op(iter[1..(i - 1)], i)
    BY <1>7, <2>1, <2>2
  <2> QED BY <1>2, <1>9, <2>3
<1>10. iter[1..n] \in Y
  BY <1>1, <1>8, <1>9, FoldsUp
<1> QED BY <1>3, <1>10 DEF Y

\* The lists of commands.
LEMMA ListsTyped ==
  ASSUME consts \in Constants, NEW ls \in Seq(ListType),
         \A l \in Range(ls) : IsFiniteSet(l.names), NEW base \in ListsType
  PROVE  FoldLeft(LAMBDA s, l : [s EXCEPT ![l.list] = {Value(x.const, x.lower) : x \in l.names}],
                  base, ls) \in ListsType
<1> DEFINE n == Len(ls)
           Y == ListsType
           Op(v, i) == [v EXCEPT ![ls[i].list] = {Value(x.const, x.lower) : x \in ls[i].names}]
           step == [i \in 1..n |-> [v \in Y |-> Op(v, i)]]
           Eq(g) == g = [s \in SUBSET (1..n) |->
                           IF s = {} THEN base ELSE Op(g[s \ {Max(s)}], Max(s))]
           iter == CHOOSE g : Eq(g)
<1>1. n \in Nat /\ DOMAIN ls = 1..n
  BY LenProperties
<1>2. ASSUME NEW v \in Y, NEW i \in 1..n PROVE Op(v, i) \in Y
  <2> DEFINE names == ls[i].names
             g == [x \in names |-> Value(x.const, x.lower)]
             values == {g[x] : x \in names}
  <2>1. ls[i] \in ListType /\ IsFiniteSet(names)
    <3>1. ls[i] \in Range(ls)
      BY <1>1 DEF Range
    <3> QED BY <3>1, ElementOfSeq
  <2>2. names \in SUBSET [const: STRING, lower: NameType] /\ ls[i].list \in {"response", "none"}
    BY <2>1 DEF ListType
  <2>3. ASSUME NEW x \in names PROVE Value(x.const, x.lower) \in NameType
    <3>1. x.lower \in NameType
      BY <2>2
    <3>2. PICK D \in SUBSET STRING : consts \in [D -> NameType]
      BY DEF Constants
    <3> QED BY <3>1, <3>2 DEF Value
  <2>4. values \in SUBSET NameType
    BY <2>3
  <2>5. IsFiniteSet(values)
    <3> HIDE DEF g, names
    <3> QED BY <2>1, FiniteImages
  <2>6. values = {Value(x.const, x.lower) : x \in names}
    OBVIOUS
  <2> HIDE DEF values
  <2> QED BY <2>2, <2>4, <2>5, <2>6 DEF ListsType
<1>3. FoldLeft(LAMBDA s, l : [s EXCEPT ![l.list] = {Value(x.const, x.lower) : x \in l.names}],
               base, ls) = iter[1..n]
  BY <1>1 DEF FoldLeft, MapThenFoldSet
<1> HIDE DEF n, Y, Op
<1>4. \E f : Folded(f, n, Y, base, step)
  <2>1. step \in [1..n -> [Y -> Y]]
    BY <1>2
  <2> HIDE DEF step
  <2>2. base \in Y
    BY DEF Y
  <2> QED BY <1>1, <2>1, <2>2, Folding
<1>5. PICK f : Folded(f, n, Y, base, step)
  BY <1>4
<1>6. Eq(f)
  <2>1. ASSUME NEW s \in SUBSET (1..n), s # {} PROVE f[s] = Op(f[s \ {Max(s)}], Max(s))
    <3>1. Max(s) \in 1..n /\ s \ {Max(s)} \in SUBSET (1..n)
      BY <1>1, <2>1, MaxIn
    <3>2. f[s \ {Max(s)}] \in Y /\ f[s] = step[Max(s)][f[s \ {Max(s)}]]
      BY <1>5, <2>1, <3>1 DEF Folded
    <3> HIDE DEF Eq
    <3> QED BY <3>1, <3>2
  <2> QED BY <1>5, <2>1 DEF Folded
<1>7. Eq(iter)
  <2> HIDE DEF Eq
  <2> QED BY <1>6
<1> HIDE DEF iter
<1>8. iter[{}] \in Y
  <2>1. iter[{}] = base
    BY <1>7
  <2> QED BY <2>1 DEF Y
<1>9. ASSUME NEW i \in 1..n, iter[1..(i - 1)] \in Y PROVE iter[1..i] \in Y
  <2>1. i \in Nat \ {0} /\ 1..i \in SUBSET (1..n)
    BY <1>1
  <2>2. Max(1..i) = i /\ 1..i # {} /\ (1..i) \ {i} = 1..(i - 1)
    BY <2>1, MaxUpto
  <2>3. iter[1..i] = Op(iter[1..(i - 1)], i)
    BY <1>7, <2>1, <2>2
  <2> QED BY <1>2, <1>9, <2>3
<1>10. iter[1..n] \in Y
  BY <1>1, <1>8, <1>9, FoldsUp
<1> QED BY <1>3, <1>10 DEF Y

\* The tokens of the files.
Toks(S) == UNION {Range(f.gatt) : f \in S}

LEMMA TextsTyped ==
  ASSUME NEW S, NEW fs \in Seq(S), \A f \in S : IsFile(f)
  PROVE  Texts(fs) \in Seq(Seq(Toks(S)))
<1> DEFINE ble == Select(fs, LAMBDA f : f.ble)
           n == Len(ble)
           Named(i) == {j \in DOMAIN ble : ble[j].stem = ble[i].stem}
           places == [i \in DOMAIN ble |-> i]
           ps == {k \in DOMAIN places : places[k] = Min(Named(places[k]))}
           firsts == Those(places, ps)
           text == [i \in DOMAIN firsts |-> ble[Max(Named(firsts[i]))].gatt]
<1>1. ble \in Seq(S)
  BY ThoseOf DEF Select
<1>2. n \in Nat /\ DOMAIN ble = 1..n
  BY <1>1, LenProperties
<1>3. Texts(fs) = text
  BY DEF Texts, Select
<1> HIDE DEF ble, n
<1>4. places \in Seq(1..n)
  <2>1. places \in [1..n -> 1..n]
    BY <1>2
  <2> HIDE DEF places
  <2> QED BY <1>2, <2>1, ListOf
<1> HIDE DEF places, ps
<1>5. firsts \in Seq(1..n)
  BY <1>4, ThoseOf
<1>6. /\ Len(firsts) \in Nat /\ DOMAIN firsts = 1..Len(firsts)
      /\ \A i \in 1..Len(firsts) : firsts[i] \in 1..n
  BY <1>5, LenProperties, ElementOfSeq
<1> HIDE DEF firsts
<1>7. ASSUME NEW i \in 1..Len(firsts) PROVE ble[Max(Named(firsts[i]))].gatt \in Seq(Toks(S))
  <2>1. firsts[i] \in Named(firsts[i]) /\ Named(firsts[i]) \in SUBSET (1..n)
    BY <1>2, <1>6
  <2>2. Max(Named(firsts[i])) \in 1..n
    <3> HIDE DEF Named
    <3> QED BY <1>2, <2>1, MaxIn
  <2> HIDE DEF Named
  <2>3. ble[Max(Named(firsts[i]))] \in S
    BY <1>1, <2>2, ElementOfSeq DEF n
  <2>4. \A f \in S : Range(f.gatt) \subseteq Toks(S) /\ IsList(f.gatt)
    BY DEF Toks, IsFile
  <2> QED BY <2>3, <2>4, ListInto
<1>8. text \in [1..Len(firsts) -> Seq(Toks(S))]
  BY <1>6, <1>7
<1> HIDE DEF text
<1> QED BY <1>3, <1>6, <1>8, ListOf

\* What the Bluetooth scanners make of the files.
LEMMA BleTyped ==
  ASSUME NEW S, NEW fs \in Seq(S), \A f \in S : IsFile(f)
  PROVE  BleScanned(fs).commands \in Seq(ScannedType) /\ BleScanned(fs).events \in Seq(ScannedType)
<1> DEFINE texts == Texts(fs)
           all == FlattenSeq(texts)
           constTokens == {t \in Toks(S) : t.is = "const"}
           chars == Chars(all)
           places == [i \in DOMAIN chars |-> i]
           ps == {k \in DOMAIN places :
                    \A j \in 1..(places[k] - 1) : chars[j].uuid # chars[places[k]].uuid}
           firsts == Those(places, ps)
           eps == [i \in DOMAIN firsts |-> CharEndpoint(texts, chars[firsts[i]])]
<1>1. all \in Seq(Toks(S))
  BY TextsTyped, FlattenTyped
<1>2. Uuids(all) \in Seq(constTokens)
  <2> DEFINE us == {i \in DOMAIN all : all[i].is = "const"}
  <2>1. \A i \in DOMAIN all \cap us : all[i] \in constTokens
    BY <1>1, LenProperties, ElementOfSeq
  <2>2. Uuids(all) = Those(all, us)
    BY DEF Uuids, Select
  <2> HIDE DEF us, constTokens
  <2> QED BY <1>1, <2>1, <2>2, ThoseTyped
<1>3. chars \in Seq(constTokens)
  BY <1>2, ThoseOf DEF Chars, Select
<1>4. /\ BleScanned(fs).commands = Select(eps, LAMBDA e : e.way = "to")
      /\ BleScanned(fs).events = Select(eps, LAMBDA e : e.way = "from")
  BY DEF BleScanned, Select
<1> HIDE DEF texts, all, chars
<1>5. Len(chars) \in Nat /\ DOMAIN chars = 1..Len(chars)
  BY <1>3, LenProperties
<1>6. places \in Seq(1..Len(chars))
  <2>1. places \in [1..Len(chars) -> 1..Len(chars)]
    BY <1>5
  <2> HIDE DEF places
  <2> QED BY <1>5, <2>1, ListOf
<1> HIDE DEF places, ps
<1>7. firsts \in Seq(1..Len(chars))
  BY <1>6, ThoseOf
<1>8. /\ Len(firsts) \in Nat /\ DOMAIN firsts = 1..Len(firsts)
      /\ \A i \in 1..Len(firsts) : firsts[i] \in 1..Len(chars)
  BY <1>7, LenProperties, ElementOfSeq
<1> HIDE DEF firsts
<1>9. ASSUME NEW i \in 1..Len(firsts) PROVE CharEndpoint(texts, chars[firsts[i]]) \in ScannedType
  <2>1. chars[firsts[i]] \in constTokens
    BY <1>3, <1>8, ElementOfSeq
  <2>2. chars[firsts[i]].name \in DOMAIN CmdOf
    BY <2>1 DEF Toks, IsFile
  <2>3. CmdOf[chars[firsts[i]].name] \in NameType
    BY <2>2, AppAssumption
  <2> DEFINE ep == CharEndpoint(texts, chars[firsts[i]])
  <2>4. ep.cmd = CmdOf[chars[firsts[i]].name]
    BY DEF CharEndpoint
  <2> DEFINE ch == chars[firsts[i]]
             flat == FlattenSeq(texts)
             way == IF "write" \in Access(flat, UuidOf(flat), ch.uuid) THEN "to" ELSE "from"
             fields == IF TakesValue(texts, UuidOf(flat), ch.uuid) THEN {"value"} ELSE {}
  <2>5. ep = [cmd |-> CmdOf[ch.name], transport |-> "ble", way |-> way,
              awaits |-> FALSE, fields |-> fields, response |-> {}, conf |-> 70]
    BY DEF CharEndpoint, BleConfidence
  <2>6. way \in {"to", "from"} /\ fields \in SUBSET STRING
    <3>1. "value" \in STRING
      BY LiteralAssumption
    <3>2. {"value"} \in SUBSET STRING /\ {} \in SUBSET STRING
      BY <3>1
    <3> QED BY <3>2, Zenon
  <2>7. CmdOf[ch.name] \in STRING
    BY <2>3 DEF NameType
  <2> HIDE DEF ep, way, fields, ch
  <2>8. ep \in EndpointType
    <3>1. "ble" \in STRING /\ FALSE \in BOOLEAN /\ {} \in SUBSET STRING /\ 70 \in 1..100
      BY LiteralAssumption
    <3> QED BY <2>5, <2>6, <2>7, <3>1, Zenon DEF EndpointType
  <2>9. ep.cmd # ""
    BY <2>3, <2>4 DEF NameType
  <2>10. ep \in ScannedType
    BY <2>8, <2>9 DEF ScannedType
  <2> QED BY <2>10 DEF ep
<1>10. eps \in Seq(ScannedType)
  <2>1. eps \in [1..Len(firsts) -> ScannedType]
    BY <1>8, <1>9
  <2> HIDE DEF eps
  <2> QED BY <1>8, <2>1, ListOf
<1> HIDE DEF eps
<1> QED BY <1>4, <1>10, ThoseOf DEF Select

LEMMA EndpointTyped ==
  ASSUME NEW cmd \in NameType, NEW transport \in STRING, NEW way \in {"to", "from"},
         NEW awaits \in BOOLEAN, NEW fields \in SUBSET STRING, NEW conf \in 1..100
  PROVE  /\ Endpoint(cmd, transport, way, awaits, fields, conf) \in ScannedType
         /\ Endpoint(cmd, transport, way, awaits, fields, conf).cmd = cmd
<1>1. Endpoint(cmd, transport, way, awaits, fields, conf) \in EndpointType
  <2>1. cmd \in STRING /\ {} \in SUBSET STRING
    BY DEF NameType
  <2> QED BY <2>1 DEF Endpoint, EndpointType
<1>2. Endpoint(cmd, transport, way, awaits, fields, conf).cmd = cmd
  BY DEF Endpoint
<1> HIDE DEF Endpoint
<1> QED BY <1>1, <1>2 DEF ScannedType, NameType

LEMMA FieldsNearTyped ==
  ASSUME NEW f, IsFile(f), NEW send, NEW cmd
  PROVE  FieldsNear(f, send, cmd) \in SUBSET STRING
<1> DEFINE ps == {i \in DOMAIN f.sends : send.const # "" /\ send.const \in f.sends[i].reads}
           qs == {i \in DOMAIN f.sends : f.sends[i].const = "" /\ f.sends[i].cmd = cmd}
           places == Those(f.sends, ps) \o Those(f.sends, qs)
<1>1. f.sends \in Seq(SendType)
  BY DEF IsFile
<1>2. FieldsNear(f, send, cmd) = IF places = <<>> THEN {} ELSE places[1].fields \ {"cmd", "seq"}
  BY DEF FieldsNear, Select
<1> HIDE DEF ps, qs
<1>3. places \in Seq(SendType)
  BY <1>1, ThoseOf, ConcatProperties
<1> HIDE DEF places
<1>4. ASSUME places # <<>> PROVE places[1].fields \in SUBSET STRING
  <2>1. 1 \in 1..Len(places)
    BY <1>3, <1>4, EmptySeq
  <2>2. places[1] \in SendType
    BY <1>3, <2>1, ElementOfSeq
  <2> QED BY <2>2 DEF SendType
<1> QED BY <1>2, <1>4

\* The endpoints a file has.
LEMMA CandidatesTyped ==
  ASSUME consts \in Constants, NEW f, IsFile(f)
  PROVE  Candidates(f) \in Seq(ScannedType)
<1> DEFINE sends == f.sends
           Good == {s \in SendType :
                      (s.const = "" /\ s.cmd # "") \/ (s.const # "" /\ s.const \in DOMAIN consts)}
           ps == {i \in DOMAIN sends : sends[i].const = ""}
           qs == {i \in DOMAIN sends : sends[i].const # "" /\ sends[i].const \in DOMAIN consts}
           all == SendsOf(f)
           Cmd(s) == IF s.const = "" THEN s.cmd ELSE consts[s.const]
           Conf(s) == IF FieldsNear(f, s, Cmd(s)) = {} THEN 81 ELSE 77
           Of(s) == Endpoint(Cmd(s), "ws", "to", Cmd(s) \in lists.response,
                             FieldsNear(f, s, Cmd(s)), Conf(s))
<1>1. sends \in Seq(SendType) /\ \A s \in Range(sends) : s.const = "" => s.cmd # ""
  BY DEF IsFile
<1>2. /\ DOMAIN sends = 1..Len(sends)
      /\ \A i \in DOMAIN sends : sends[i] \in SendType /\ sends[i] \in Range(sends)
  BY <1>1, LenProperties, ElementOfSeq DEF Range
<1>3. all = Those(sends, ps) \o Those(sends, qs)
  BY DEF SendsOf, Select
<1>4. all \in Seq(Good)
  <2>1. /\ \A i \in DOMAIN sends \cap ps : sends[i] \in Good
        /\ \A i \in DOMAIN sends \cap qs : sends[i] \in Good
    BY <1>1, <1>2
  <2> HIDE DEF ps, qs, sends, Good
  <2>2. Those(sends, ps) \in Seq(Good) /\ Those(sends, qs) \in Seq(Good)
    BY <1>1, <2>1, ThoseTyped
  <2> HIDE DEF all
  <2> QED BY <1>3, <2>2, ConcatProperties
<1>5. ASSUME NEW s \in Good PROVE Of(s) \in ScannedType
  <2>1. PICK D \in SUBSET STRING : consts \in [D -> NameType]
    BY DEF Constants
  <2>2. Cmd(s) \in NameType
    BY <2>1 DEF SendType, NameType
  <2>3. FieldsNear(f, s, Cmd(s)) \in SUBSET STRING
    BY FieldsNearTyped
  <2> HIDE DEF Good
  <2> DEFINE fields == FieldsNear(f, s, Cmd(s))
             awaits == Cmd(s) \in lists.response
  <2>4. "ws" \in STRING /\ "to" \in {"to", "from"} /\ Conf(s) \in 1..100
    <3> HIDE DEF Cmd
    <3>1. Conf(s) = 81 \/ Conf(s) = 77
      OBVIOUS
    <3>2. 81 \in 1..100 /\ 77 \in 1..100
      OBVIOUS
    <3> HIDE DEF Conf
    <3>3. Conf(s) \in 1..100
      BY <3>1, <3>2, Zenon
    <3>4. "ws" \in STRING /\ "to" \in {"to", "from"}
      BY LiteralAssumption
    <3> QED BY <3>3, <3>4
  <2> HIDE DEF Cmd, Conf
  <2>5. ASSUME NEW x, NEW X PROVE (x \in X) \in BOOLEAN
    OBVIOUS
  <2>6. awaits \in BOOLEAN
    BY <2>5, Zenon
  <2> HIDE DEF fields, awaits
  <2>7. Endpoint(Cmd(s), "ws", "to", awaits, fields, Conf(s)) \in ScannedType
    BY <2>2, <2>3, <2>4, <2>6, EndpointTyped DEF fields
  <2> QED BY <2>7 DEF awaits, fields
<1>6. Candidates(f) = [i \in DOMAIN all |-> Of(all[i])]
  BY DEF Candidates
<1> HIDE DEF all, Of, Good
<1>7. Len(all) \in Nat /\ DOMAIN all = 1..Len(all) /\ \A i \in 1..Len(all) : all[i] \in Good
  BY <1>4, LenProperties, ElementOfSeq
<1>8. Candidates(f) \in [1..Len(all) -> ScannedType]
  BY <1>5, <1>6, <1>7
<1> QED BY <1>7, <1>8, ListOf

\* A path in an annotation, and a name that is only in a list.
LEMMA BareTyped ==
  ASSUME NEW cmd \in NameType
  PROVE  /\ Endpoint(cmd, "http", "to", TRUE, {}, 85) \in ScannedType
         /\ Endpoint(cmd, "ws", "from", FALSE, {}, 72) \in ScannedType
<1> DEFINE http == "http" ws == "ws" to == "to" from == "from"
           yes == TRUE no == FALSE none == {} path == 85 listed == 72
<1>1. /\ http \in STRING /\ ws \in STRING /\ to \in {"to", "from"} /\ from \in {"to", "from"}
      /\ yes \in BOOLEAN /\ no \in BOOLEAN /\ none \in SUBSET STRING
      /\ path \in 1..100 /\ listed \in 1..100
  BY LiteralAssumption
<1> HIDE DEF http, ws, to, from, yes, no, none, path, listed
<1>2. /\ Endpoint(cmd, http, to, yes, none, path) \in ScannedType
      /\ Endpoint(cmd, ws, from, no, none, listed) \in ScannedType
  BY <1>1, EndpointTyped
<1> QED BY <1>2 DEF http, ws, to, from, yes, no, none, path, listed

LEMMA AnnotatedTyped ==
  ASSUME NEW f, IsFile(f)
  PROVE  Annotated(f) \in Seq(ScannedType)
<1> DEFINE names == f.annotated
<1>1. names \in Seq(NameType)
  BY DEF IsFile
<1>2. /\ Len(names) \in Nat /\ DOMAIN names = 1..Len(names)
      /\ \A i \in 1..Len(names) : names[i] \in NameType
  BY <1>1, LenProperties, ElementOfSeq
<1>3. ASSUME NEW i \in 1..Len(names)
      PROVE  Endpoint(names[i], "http", "to", TRUE, {}, 85) \in ScannedType
  <2>1. names[i] \in NameType
    BY <1>2
  <2> HIDE DEF names
  <2> QED BY <2>1, BareTyped
<1>4. Annotated(f) \in [1..Len(names) -> ScannedType]
  BY <1>2, <1>3 DEF Annotated
<1> HIDE DEF names
<1> QED BY <1>2, <1>4, ListOf

\* One of a list for each file, in one list.
LEMMA EachTyped ==
  ASSUME NEW S, NEW fs \in Seq(S), NEW T, NEW of, of \in [S -> Seq(T)]
  PROVE  FlattenSeq([i \in DOMAIN fs |-> of[fs[i]]]) \in Seq(T)
<1> DEFINE each == [i \in DOMAIN fs |-> of[fs[i]]]
<1>1. Len(fs) \in Nat /\ DOMAIN fs = 1..Len(fs) /\ \A i \in 1..Len(fs) : fs[i] \in S
  BY LenProperties, ElementOfSeq
<1>2. each \in [1..Len(fs) -> Seq(T)]
  BY <1>1
<1> HIDE DEF each
<1>3. each \in Seq(Seq(T))
  BY <1>1, <1>2, ListOf
<1>4. FlattenSeq(each) \in Seq(T)
  BY <1>3, FlattenTyped
<1> QED BY <1>4 DEF each

\* Every reply is decoded into a class that is known.
LEMMA AttachTyped ==
  ASSUME endpoints \in Catalogue, NEW S, files \in Seq(S), \A f \in S : IsFile(f),
         AttachResponses
  PROVE  endpoints' \in Catalogue
<1>1. PICK D \in SUBSET STRING : IsFiniteSet(D) /\ endpoints \in [D -> ScannedType]
  BY DEF Catalogue
<1> DEFINE Richest(cmd) == {c \in ReplyClasses(cmd) : \A o \in ReplyClasses(cmd) :
                              Cardinality(ClassFields[o]) <= Cardinality(ClassFields[c])}
           With(ep, c) == [ep EXCEPT !.response = IF @ = {} THEN ClassFields[c] ELSE @]
           Ep(cmd) == IF Richest(cmd) = {} THEN endpoints[cmd]
                      ELSE With(endpoints[cmd], CHOOSE c \in Richest(cmd) : TRUE)
<1>2. endpoints' = [cmd \in D |-> Ep(cmd)]
  BY <1>1 DEF AttachResponses
<1>3. ASSUME NEW cmd PROVE ReplyClasses(cmd) \subseteq DOMAIN ClassFields
  <2>1. \A f \in Range(files) : IsFile(f)
    BY RangeOfSeq
  <2> QED BY <2>1 DEF ReplyClasses, IsFile
<1>4. ASSUME NEW ep \in ScannedType, NEW c \in DOMAIN ClassFields PROVE With(ep, c) \in ScannedType
  <2>1. ClassFields[c] \in SUBSET STRING
    BY AppAssumption
  <2>2. ep.response \in SUBSET STRING /\ ep \in EndpointType /\ ep.cmd # ""
    BY DEF ScannedType, EndpointType
  <2>3. PICK r \in SUBSET STRING : With(ep, c) = [ep EXCEPT !.response = r]
    BY <2>1, <2>2 DEF EndpointType
  <2> HIDE DEF With
  <2>4. With(ep, c) \in EndpointType /\ With(ep, c).cmd = ep.cmd
    BY <2>2, <2>3 DEF EndpointType
  <2> QED BY <2>2, <2>4 DEF ScannedType
<1>5. ASSUME NEW cmd \in D PROVE Ep(cmd) \in ScannedType
  <2>1. endpoints[cmd] \in ScannedType
    BY <1>1
  <2>2. CASE Richest(cmd) = {}
    BY <2>1, <2>2
  <2>3. CASE Richest(cmd) # {}
    <3> DEFINE c == CHOOSE c \in Richest(cmd) : TRUE
    <3>1. c \in Richest(cmd)
      BY <2>3
    <3>2. c \in DOMAIN ClassFields
      <4>1. Richest(cmd) \subseteq ReplyClasses(cmd)
        OBVIOUS
      <4> HIDE DEF Richest, c
      <4> QED BY <1>3, <3>1, <4>1
    <3>3. Ep(cmd) = With(endpoints[cmd], c)
      BY <2>3
    <3> HIDE DEF c, Ep, With
    <3> QED BY <1>4, <2>1, <3>2, <3>3
  <2> QED BY <2>2, <2>3
<1> HIDE DEF Ep
<1>6. endpoints' \in [D -> ScannedType]
  BY <1>2, <1>5
<1> QED BY <1>1, <1>6 DEF Catalogue

\* An IR as the scan keeps it.
Typed(i) ==
  /\ DOMAIN i = DOMAIN Unscanned /\ i.transport \in STRING
  /\ i.commands \in Seq(ScannedType) /\ i.events \in Seq(ScannedType)

FromDevice(ep) == [ep EXCEPT !.way = "from", !.awaits = FALSE]

LEMMA SplitTyped ==
  ASSUME endpoints \in Catalogue, lists \in ListsType, Typed(ir), Split
  PROVE  Typed(ir')
<1> DEFINE pushed == lists.none \ {Value("USER_CONTROL", "user_control")}
           all == {endpoints[c] : c \in DOMAIN endpoints}
           streams == {ep \in all : ep.way = "from"}
           turned == {e \in all \ streams : e.cmd \in pushed}
           events == streams \cup {FromDevice(ep) : ep \in turned}
           rest == pushed \ {e.cmd : e \in events}
           Unseen(c) == Endpoint(c, "ws", "from", FALSE, {}, 72)
           unseen == {Unseen(c) : c \in rest}
           kept == {e \in all \ streams : e.cmd \notin pushed}
<1>1. ir' = [ir EXCEPT !.commands = SetToSeq(kept), !.events = SetToSeq(events \cup unseen)]
  BY DEF Split, FromDevice
<1>2. IsFiniteSet(pushed) /\ pushed \subseteq NameType
  <2>1. IsFiniteSet(lists.none) /\ lists.none \subseteq NameType
    BY DEF ListsType
  <2> QED BY <2>1, FS_Difference
<1>3. IsFiniteSet(all) /\ all \subseteq ScannedType
  <2>1. PICK D \in SUBSET STRING : IsFiniteSet(D) /\ endpoints \in [D -> ScannedType]
    BY DEF Catalogue
  <2>2. IsFiniteSet({endpoints[c] : c \in D})
    BY <2>1, FiniteImages
  <2> QED BY <2>1, <2>2
<1> HIDE DEF pushed, all
<1>4. /\ IsFiniteSet(streams) /\ IsFiniteSet(turned) /\ IsFiniteSet(kept)
      /\ streams \subseteq ScannedType /\ turned \subseteq ScannedType /\ kept \subseteq ScannedType
  <2>1. streams \in SUBSET all /\ turned \in SUBSET all /\ kept \in SUBSET all
    OBVIOUS
  <2> HIDE DEF streams, turned, kept
  <2> QED BY <1>3, <2>1, FS_Subset
<1> HIDE DEF streams, turned, kept
<1>5. ASSUME NEW ep \in ScannedType PROVE FromDevice(ep) \in ScannedType
  <2>1. ep \in EndpointType /\ ep.cmd # ""
    BY DEF ScannedType
  <2>2. FromDevice(ep) \in EndpointType /\ FromDevice(ep).cmd = ep.cmd
    BY <2>1 DEF EndpointType, FromDevice
  <2> QED BY <2>1, <2>2 DEF ScannedType
<1>6. IsFiniteSet(events) /\ events \subseteq ScannedType
  <2> DEFINE f == [ep \in turned |-> FromDevice(ep)]
  <2>1. IsFiniteSet({f[ep] : ep \in turned})
    <3> HIDE DEF f
    <3> QED BY <1>4, FiniteImages
  <2>2. {f[ep] : ep \in turned} = {FromDevice(ep) : ep \in turned}
    OBVIOUS
  <2> HIDE DEF f
  <2>3. IsFiniteSet({FromDevice(ep) : ep \in turned})
    BY <2>1, <2>2
  <2>4. {FromDevice(ep) : ep \in turned} \subseteq ScannedType
    BY <1>4, <1>5
  <2> QED BY <1>4, <2>3, <2>4, FS_Union
<1> HIDE DEF events
<1>7. IsFiniteSet(unseen) /\ unseen \subseteq ScannedType
  <2> DEFINE f == [c \in rest |-> Unseen(c)]
  <2>1. IsFiniteSet(rest) /\ rest \subseteq NameType
    BY <1>2, FS_Difference
  <2> HIDE DEF rest
  <2>2. IsFiniteSet({f[c] : c \in rest})
    <3> HIDE DEF f
    <3> QED BY <2>1, FiniteImages
  <2>3. {f[c] : c \in rest} = unseen
    OBVIOUS
  <2>4. ASSUME NEW c \in NameType PROVE Unseen(c) \in ScannedType
    BY BareTyped
  <2> HIDE DEF f, Unseen
  <2> QED BY <2>1, <2>2, <2>3, <2>4
<1> HIDE DEF unseen
<1>8. SetToSeq(kept) \in Seq(ScannedType)
  BY <1>4, SetToSeqTyped, SeqMonotonic
<1>9. SetToSeq(events \cup unseen) \in Seq(ScannedType)
  <2>1. IsFiniteSet(events \cup unseen) /\ events \cup unseen \subseteq ScannedType
    BY <1>6, <1>7, FS_Union
  <2> QED BY <2>1, SetToSeqTyped, SeqMonotonic
<1> QED BY <1>1, <1>8, <1>9 DEF Typed, Unscanned

LEMMA GraphQLTyped ==
  ASSUME app \in Apps, Typed(ir), AddGraphQL
  PROVE  Typed(ir')
<1>1. IsScan(app.graphql)
  BY AppAssumption
<1>2. CASE app.graphql = <<>>
  BY <1>2 DEF AddGraphQL
<1>3. CASE app.graphql # <<>>
  <2> DEFINE g == app.graphql[1]
  <2>1. g.commands \in Seq(ScannedType) /\ g.events \in Seq(ScannedType)
    <3>1. 1 \in 1..Len(app.graphql) /\ app.graphql \in Seq(Range(app.graphql))
      BY <1>1, <1>3, EmptySeq DEF IsScan, IsList
    <3>2. g \in Range(app.graphql)
      BY <3>1, ElementOfSeq
    <3> QED BY <1>1, <3>2 DEF IsScan
  <2>2. PICK login, fields, polls :
          ir' = [ir EXCEPT !.commands = @ \o g.commands, !.events = @ \o g.events,
                   !.login = login, !.fields = fields, !.polls = polls]
    BY <1>3 DEF AddGraphQL
  <2> HIDE DEF g
  <2>3. /\ ir.commands \o g.commands \in Seq(ScannedType)
        /\ ir.events \o g.events \in Seq(ScannedType)
    BY <2>1, ConcatProperties DEF Typed
  <2> QED BY <2>2, <2>3 DEF Typed, Unscanned
<1> QED BY <1>2, <1>3

LEMMA HttpTyped ==
  ASSUME Typed(ir), FillHttpState
  PROVE  Typed(ir')
<1> DEFINE sentBy == {ep.transport : ep \in Range(ir.commands)}
           transport == IF Cardinality(sentBy) = 1 THEN CHOOSE t \in sentBy : TRUE ELSE ir.transport
<1>1. sentBy \subseteq STRING
  <2>1. Range(ir.commands) \subseteq ScannedType
    BY RangeOfSeq DEF Typed
  <2> QED BY <2>1 DEF ScannedType, EndpointType
<1>2. transport \in STRING
  <2>1. CASE Cardinality(sentBy) = 1
    <3>1. sentBy # {}
      BY <2>1, FS_EmptySet
    <3>2. (CHOOSE t \in sentBy : TRUE) \in sentBy
      BY <3>1
    <3> QED BY <1>1, <2>1, <3>2
  <2>2. CASE Cardinality(sentBy) # 1
    BY <2>2 DEF Typed
  <2> QED BY <2>1, <2>2
<1> HIDE DEF sentBy
<1>3. PICK fields, choices, poll :
        ir' = [ir EXCEPT !.fields = fields, !.choices = choices, !.poll = poll,
                 !.transport = transport]
  BY DEF FillHttpState, sentBy
<1> HIDE DEF transport
<1> QED BY <1>2, <1>3 DEF Typed, Unscanned

-----------------------------------------------------------------------------
(* What a capture does to the IR, for every capture.                       *)

Names(eps) == {ep.cmd : ep \in Range(eps)}

LEMMA FiniteNames ==
  ASSUME NEW eps \in Seq(EndpointType)
  PROVE  IsFiniteSet(Names(eps))
<1> DEFINE f == [i \in 1..Len(eps) |-> eps[i].cmd]
<1>1. Names(eps) = {f[i] : i \in 1..Len(eps)}
  BY RangeEquality DEF Names
<1>2. IsFiniteSet({f[i] : i \in 1..Len(eps)})
  <2>1. IsFiniteSet(1..Len(eps))
    BY LenProperties, FS_Interval
  <2> HIDE DEF f
  <2> QED BY <2>1, FiniteImages
<1> QED BY <1>1, <1>2

LEMMA SeenIsFinite ==
  ASSUME NEW session \in Sessions
  PROVE  IsFiniteSet(SeenCommands(session)) /\ SeenCommands(session) \subseteq STRING
<1> DEFINE ws == session.ws
           http == session.http
           js == {j \in Sends(session) : ws[j].body.json = "object"}
           sent == {ws[j].body.cmd : j \in js}
           paths == {http[i].segment : i \in DOMAIN http}
           f == [i \in 1..Len(ws) |-> ws[i].body.cmd]
           g == [i \in 1..Len(http) |-> http[i].segment]
<1>1. ws \in Seq(FrameType) /\ http \in Seq(RequestType)
  BY SessionAssumption
<1>2. /\ DOMAIN ws = 1..Len(ws) /\ Len(ws) \in Nat
      /\ DOMAIN http = 1..Len(http) /\ Len(http) \in Nat
  BY <1>1, LenProperties
<1>3. js \in SUBSET (1..Len(ws))
  BY <1>2 DEF Sends
<1>4. sent = {f[j] : j \in js} /\ paths = {g[i] : i \in 1..Len(http)}
  BY <1>2, <1>3
<1>5. IsFiniteSet(sent) /\ IsFiniteSet(paths)
  <2>1. IsFiniteSet({f[j] : j \in js})
    <3>1. IsFiniteSet(1..Len(ws))
      BY <1>2, FS_Interval
    <3>2. IsFiniteSet(js)
      BY <1>3, <3>1, FS_Subset
    <3> HIDE DEF f, js
    <3> QED BY <3>2, FiniteImages
  <2>2. IsFiniteSet({g[i] : i \in 1..Len(http)})
    <3>1. IsFiniteSet(1..Len(http))
      BY <1>2, FS_Interval
    <3> HIDE DEF g, http
    <3> QED BY <3>1, FiniteImages
  <2> QED BY <1>4, <2>1, <2>2
<1>6. sent \cup paths \subseteq STRING
  <2>1. ASSUME NEW j \in js PROVE ws[j].body.cmd \in STRING
    <3>1. ws[j] \in FrameType
      BY <1>1, <1>3, ElementOfSeq
    <3> QED BY <3>1 DEF FrameType, BodyType
  <2>2. ASSUME NEW i \in DOMAIN http PROVE http[i].segment \in STRING
    <3>1. http[i] \in RequestType
      BY <1>1, <1>2, ElementOfSeq
    <3> QED BY <3>1 DEF RequestType
  <2> QED BY <2>1, <2>2
<1>7. IsFiniteSet(sent \cup paths)
  BY <1>5, FS_Union
<1>8. SeenCommands(session) = (sent \cup paths) \ {""}
  BY DEF SeenCommands
<1> HIDE DEF sent, paths, js, f, g, ws, http
<1>9. IsFiniteSet((sent \cup paths) \ {""})
  BY <1>7, FS_Difference
<1>10. (sent \cup paths) \ {""} \subseteq STRING
  BY <1>6
<1> QED BY <1>8, <1>9, <1>10

LEMMA Confidence == \A x \in 1..100 : x <= x /\ (x < 95 => x <= 95)
  OBVIOUS

\* Each endpoint keeps its place, its name and its fields, and gets no less sure.
LEMMA ConfirmedStay ==
  ASSUME NEW eps \in Seq(EndpointType), NEW seen
  PROVE  /\ Confirmed(eps, seen) \in Seq(EndpointType)
         /\ Len(Confirmed(eps, seen)) = Len(eps)
         /\ \A i \in 1..Len(eps) :
              /\ Confirmed(eps, seen)[i].cmd = eps[i].cmd
              /\ Confirmed(eps, seen)[i].fields = eps[i].fields
              /\ eps[i].conf <= Confirmed(eps, seen)[i].conf
         /\ Names(Confirmed(eps, seen)) = Names(eps)
<1> DEFINE c == Confirmed(eps, seen)
           e(i) == IF eps[i].cmd \in seen /\ eps[i].conf < Observed
                   THEN [eps[i] EXCEPT !.conf = Observed] ELSE eps[i]
<1>1. DOMAIN eps = 1..Len(eps) /\ Len(eps) \in Nat
  BY LenProperties
<1>2. c = [i \in 1..Len(eps) |-> e(i)]
  BY <1>1 DEF Confirmed
<1>3. ASSUME NEW i \in 1..Len(eps)
      PROVE  /\ e(i) \in EndpointType /\ e(i).cmd = eps[i].cmd /\ e(i).fields = eps[i].fields
             /\ eps[i].conf <= e(i).conf
  <2>1. eps[i] \in EndpointType
    BY ElementOfSeq
  <2>2. eps[i].conf \in 1..100
    BY <2>1 DEF EndpointType
  <2>3. CASE eps[i].cmd \in seen /\ eps[i].conf < Observed
    <3>1. e(i) = [eps[i] EXCEPT !.conf = 95]
      BY <2>3 DEF Observed
    <3>2. e(i) \in EndpointType
      BY <2>1, <3>1 DEF EndpointType
    <3>3. e(i).cmd = eps[i].cmd /\ e(i).fields = eps[i].fields /\ e(i).conf = 95
      <4> HIDE DEF e
      <4> QED BY <2>1, <3>1 DEF EndpointType
    <3>4. eps[i].conf <= 95
      BY <2>2, <2>3, Confidence DEF Observed
    <3> HIDE DEF e
    <3> QED BY <3>2, <3>3, <3>4
  <2>4. CASE ~(eps[i].cmd \in seen /\ eps[i].conf < Observed)
    <3>1. e(i) = eps[i]
      BY <2>4
    <3> HIDE DEF e
    <3>2. eps[i].conf <= eps[i].conf
      BY <2>2, Confidence
    <3> QED BY <2>1, <3>1, <3>2
  <2> QED BY <2>3, <2>4
<1>4. c \in Seq(EndpointType)
  BY <1>1, <1>2, <1>3, IsASeq
<1>5. Len(c) = Len(eps)
  BY <1>1, <1>2, <1>4, LenProperties
<1>6. Names(c) = Names(eps)
  <2>1. Names(c) = {c[i].cmd : i \in 1..Len(eps)}
    BY <1>4, <1>5, RangeEquality DEF Names
  <2>2. Names(eps) = {eps[i].cmd : i \in 1..Len(eps)}
    BY RangeEquality DEF Names
  <2> QED BY <1>2, <1>3, <2>1, <2>2
<1> QED BY <1>2, <1>3, <1>4, <1>5, <1>6

LEMMA NamesOfBoth ==
  ASSUME NEW s \in Seq(EndpointType), NEW t \in Seq(EndpointType)
  PROVE  Names(s \o t) = Names(s) \cup Names(t)
  BY RangeConcatenation DEF Names

\* A list of all that a finite set has, each once.
LEMMA ListedOnce ==
  ASSUME NEW S, IsFiniteSet(S), NEW new \in SetToSeqs(S)
  PROVE  /\ Cardinality(S) \in Nat
         /\ new \in [1..Cardinality(S) -> S]
         /\ IsFiniteSet(Range(new)) /\ Cardinality(Range(new)) = Cardinality(S)
<1> DEFINE n == Cardinality(S)
<1>1. n \in Nat
  BY FS_CardinalityType
<1>2. new \in [1..n -> S] /\ \A i, j \in 1..n : i # j => new[i] # new[j]
  BY DEF SetToSeqs
<1>3. new \in Surjection(1..n, Range(new)) /\ new \in [1..n -> Range(new)]
  <2>1. new \in Surjection(1..n, Range(new))
    BY <1>2, Fun_RangeProperties
  <2> QED BY <1>2, <2>1 DEF Range
<1>4. new \in Injection(1..n, Range(new))
  BY <1>2, <1>3, Fun_IsInj
<1>5. IsFiniteSet(1..n) /\ Cardinality(1..n) = n
  BY <1>1, FS_Interval
<1> QED BY <1>1, <1>2, <1>3, <1>4, <1>5, FS_Surjection

Stay(old, new) ==
  \A i \in DOMAIN old :
    old[i].cmd = new[i].cmd /\ old[i].fields = new[i].fields /\ old[i].conf <= new[i].conf

LEMMA ReconciledAdds ==
  ASSUME NEW i, Typed(i), NEW session \in Sessions,
         NEW new \in SetToSeqs(SeenCommands(session) \ Known(i)),
         NEW o, o.commands = Reconciled(i, session, new).commands,
         o.events = Reconciled(i, session, new).events
  PROVE  /\ Stay(i.commands, o.commands) /\ Stay(i.events, o.events)
         /\ Len(All(o)) - Len(All(i))
              = Cardinality(Names(All(o))) - Cardinality(Names(All(i)))
<1> DEFINE seen == SeenCommands(session)
           S == seen \ Known(i)
           n == Cardinality(S)
           C == Confirmed(i.commands, seen)
           E == Confirmed(i.events, seen)
           N == [k \in DOMAIN new |-> NewEndpoint(i, new[k])]
<1>1. /\ i.commands \in Seq(EndpointType) /\ i.events \in Seq(EndpointType)
      /\ i.transport \in STRING /\ "commands" \in DOMAIN i /\ "events" \in DOMAIN i
  <2>1. ScannedType \subseteq EndpointType
    BY DEF ScannedType
  <2> QED BY <2>1, SeqMonotonic DEF Typed, Unscanned
<1>2. o.commands = C \o N /\ o.events = E
  BY <1>1 DEF Reconciled
<1>3. IsFiniteSet(S) /\ S \subseteq STRING
  BY SeenIsFinite, FS_Difference
<1>4. /\ n \in Nat /\ new \in [1..n -> S]
      /\ IsFiniteSet(Range(new)) /\ Cardinality(Range(new)) = n
  BY <1>3, ListedOnce
<1>5. /\ C \in Seq(EndpointType) /\ Len(C) = Len(i.commands) /\ Names(C) = Names(i.commands)
      /\ E \in Seq(EndpointType) /\ Len(E) = Len(i.events) /\ Names(E) = Names(i.events)
  BY <1>1, ConfirmedStay
<1>6. N \in Seq(EndpointType) /\ Len(N) = n /\ Names(N) = Range(new)
  <2> HIDE DEF S, n, N
  <2>1. ASSUME NEW k \in 1..n
        PROVE  NewEndpoint(i, new[k]) \in EndpointType /\ NewEndpoint(i, new[k]).cmd = new[k]
    <3>1. new[k] \in STRING
      BY <1>3, <1>4
    <3> QED BY <1>1, <3>1 DEF NewEndpoint, EndpointType
  <2>2. N = [k \in 1..n |-> NewEndpoint(i, new[k])]
    BY <1>4 DEF N
  <2>3. N \in Seq(EndpointType)
    BY <1>4, <2>1, <2>2, IsASeq
  <2>4. Len(N) = n
    BY <1>4, <2>2, <2>3, LenProperties
  <2>5. Names(N) = {N[k].cmd : k \in 1..n}
    <3>1. Range(N) = {N[k] : k \in 1..n}
      BY <2>2 DEF Range
    <3> QED BY <3>1 DEF Names
  <2>6. Range(new) = {new[k] : k \in 1..n}
    BY <1>4 DEF Range
  <2>7. \A k \in 1..n : N[k].cmd = new[k]
    BY <2>1, <2>2
  <2>8. Names(N) = Range(new)
    BY <2>5, <2>6, <2>7
  <2> QED BY <2>3, <2>4, <2>8
<1> HIDE DEF seen, S, n, C, E, N
<1>7. Stay(i.commands, o.commands)
  <2>1. ASSUME NEW k \in 1..Len(i.commands)
        PROVE  (C \o N)[k] = C[k]
    BY <1>1, <1>5, <1>6, ConcatProperties, LenProperties
  <2>2. DOMAIN i.commands = 1..Len(i.commands)
    BY <1>1, LenProperties
  <2>3. \A k \in 1..Len(i.commands) :
          /\ C[k].cmd = i.commands[k].cmd /\ C[k].fields = i.commands[k].fields
          /\ i.commands[k].conf <= C[k].conf
    BY <1>1, ConfirmedStay DEF C
  <2> QED BY <1>2, <2>1, <2>2, <2>3 DEF Stay
<1>8. Stay(i.events, o.events)
  <2>1. DOMAIN i.events = 1..Len(i.events)
    BY <1>1, LenProperties
  <2>2. \A k \in 1..Len(i.events) :
          /\ E[k].cmd = i.events[k].cmd /\ E[k].fields = i.events[k].fields
          /\ i.events[k].conf <= E[k].conf
    BY <1>1, ConfirmedStay DEF E
  <2> QED BY <1>2, <2>1, <2>2 DEF Stay
<1>9. /\ Len(All(i)) = Len(i.commands) + Len(i.events) /\ Len(All(i)) \in Nat
      /\ Names(All(i)) = Names(i.commands) \cup Names(i.events)
      /\ IsFiniteSet(Names(All(i)))
  <2>1. All(i) \in Seq(EndpointType)
    BY <1>1, ConcatProperties DEF All
  <2> QED BY <1>1, <2>1, ConcatProperties, LenProperties, NamesOfBoth, FiniteNames DEF All
<1>10. Len(All(o)) = Len(All(i)) + n /\ Names(All(o)) = Names(All(i)) \cup Range(new)
  <2>1. C \o N \in Seq(EndpointType) /\ Len(C \o N) = Len(C) + n
    BY <1>5, <1>6, ConcatProperties
  <2>2. Names(C \o N) = Names(C) \cup Range(new)
    BY <1>5, <1>6, NamesOfBoth
  <2>3. Len((C \o N) \o E) = Len(C \o N) + Len(E)
    BY <1>5, <2>1, ConcatProperties
  <2>4. Names((C \o N) \o E) = Names(C) \cup Range(new) \cup Names(E)
    BY <1>5, <2>1, <2>2, NamesOfBoth
  <2>5. Len(C) \in Nat /\ Len(E) \in Nat
    BY <1>5, LenProperties
  <2>6. Len(All(o)) = Len(C) + n + Len(E)
    BY <1>2, <2>1, <2>3 DEF All
  <2>7. Names(All(o)) = Names(C) \cup Range(new) \cup Names(E)
    BY <1>2, <2>4 DEF All
  <2>8. Len(All(o)) = Len(All(i)) + n
    <3>1. Len(All(o)) = Len(i.commands) + n + Len(i.events)
      BY <1>5, <2>6
    <3>2. Len(i.commands) \in Nat /\ Len(i.events) \in Nat /\ n \in Nat
      BY <1>4, <1>5, <2>5
    <3>3. \A a, b, m \in Nat : a + m + b = (a + b) + m
      OBVIOUS
    <3>4. Len(i.commands) + n + Len(i.events) = (Len(i.commands) + Len(i.events)) + n
      BY <3>2, <3>3
    <3> QED BY <1>9, <3>1, <3>4, Zenon
  <2>9. Names(All(o)) = Names(All(i)) \cup Range(new)
    BY <1>5, <1>9, <2>7
  <2> QED BY <2>8, <2>9
<1>11. Names(All(i)) \cap Range(new) = {}
  <2>1. Range(new) \subseteq S
    BY <1>4, Fun_RangeProperties
  <2> USE DEF S
  <2>2. Known(i) = Names(All(i))
    BY DEF Known, Names, All
  <2> QED BY <2>1, <2>2
<1>12. Cardinality(Names(All(o))) = Cardinality(Names(All(i))) + n
  <2>1. Cardinality(Names(All(i))) \in Nat
    BY <1>9, FS_CardinalityType
  <2>2. Cardinality(Names(All(i)) \cap Range(new)) = 0
    BY <1>11, FS_EmptySet
  <2>3. Cardinality(Names(All(i)) \cup Range(new))
          = Cardinality(Names(All(i))) + Cardinality(Range(new))
              - Cardinality(Names(All(i)) \cap Range(new))
    BY <1>4, <1>9, FS_Union
  <2> QED BY <1>4, <1>10, <2>1, <2>2, <2>3
<1>13. Cardinality(Names(All(i))) \in Nat
  BY <1>9, FS_CardinalityType
<1> QED BY <1>4, <1>7, <1>8, <1>9, <1>10, <1>12, <1>13

LEMMA ConfirmedTyped ==
  ASSUME NEW eps \in Seq(ScannedType), NEW seen
  PROVE  Confirmed(eps, seen) \in Seq(ScannedType)
<1> DEFINE c == Confirmed(eps, seen)
<1>1. eps \in Seq(EndpointType)
  BY SeqMonotonic DEF ScannedType
<1>2. /\ c \in Seq(EndpointType) /\ Len(c) = Len(eps)
      /\ \A i \in 1..Len(eps) : c[i].cmd = eps[i].cmd
  BY <1>1, ConfirmedStay
<1> HIDE DEF c
<1>3. Len(c) \in Nat /\ DOMAIN c = 1..Len(c) /\ c \in [1..Len(c) -> EndpointType]
  BY <1>2, LenProperties
<1>4. ASSUME NEW i \in 1..Len(c) PROVE c[i] \in ScannedType
  <2>1. eps[i] \in ScannedType
    BY <1>2, <1>4, ElementOfSeq
  <2> QED BY <1>2, <1>3, <2>1 DEF ScannedType
<1>5. c \in [1..Len(c) -> ScannedType]
  BY <1>3, <1>4
<1> QED BY <1>3, <1>5, ListOf DEF c

LEMMA ReconciledTyped ==
  ASSUME NEW i, Typed(i), NEW session \in Sessions,
         NEW new \in SetToSeqs(SeenCommands(session) \ Known(i))
  PROVE  Typed(Reconciled(i, session, new))
<1> DEFINE seen == SeenCommands(session)
           S == seen \ Known(i)
           n == Cardinality(S)
           C == Confirmed(i.commands, seen)
           E == Confirmed(i.events, seen)
           N == [k \in DOMAIN new |-> NewEndpoint(i, new[k])]
<1>1. i.commands \in Seq(ScannedType) /\ i.events \in Seq(ScannedType) /\ i.transport \in STRING
  BY DEF Typed
<1>2. IsFiniteSet(S) /\ S \subseteq NameType
  <2>1. IsFiniteSet(seen) /\ seen \subseteq STRING
    BY SeenIsFinite
  <2>2. "" \notin seen
    BY DEF SeenCommands
  <2> HIDE DEF seen
  <2> QED BY <2>1, <2>2, FS_Difference DEF NameType
<1>3. n \in Nat /\ new \in [1..n -> S]
  BY <1>2, ListedOnce
<1>4. C \in Seq(ScannedType) /\ E \in Seq(ScannedType)
  BY <1>1, ConfirmedTyped
<1>5. N \in Seq(ScannedType)
  <2> HIDE DEF S, n
  <2>1. ASSUME NEW k \in 1..n PROVE NewEndpoint(i, new[k]) \in ScannedType
    <3>1. new[k] \in STRING /\ new[k] # ""
      BY <1>2, <1>3 DEF NameType
    <3> DEFINE cmd == new[k]
    <3> HIDE DEF cmd
    <3>2. NewEndpoint(i, cmd) \in EndpointType /\ NewEndpoint(i, cmd).cmd = cmd
      <4>1. cmd \in STRING
        BY <3>1 DEF cmd
      <4>2. "to" \in {"to", "from"} /\ FALSE \in BOOLEAN /\ {} \in SUBSET STRING /\ 60 \in 1..100
        OBVIOUS
      <4> QED BY <1>1, <4>1, <4>2 DEF NewEndpoint, EndpointType
    <3> USE DEF cmd
    <3> HIDE DEF NewEndpoint
    <3> QED BY <3>1, <3>2 DEF ScannedType
  <2>2. N \in [1..n -> ScannedType]
    BY <1>3, <2>1
  <2> HIDE DEF N
  <2> QED BY <1>3, <2>2, ListOf
<1> HIDE DEF C, E, N
<1>6. C \o N \in Seq(ScannedType)
  BY <1>4, <1>5, ConcatProperties
<1>7. PICK ts, port, auth :
        Reconciled(i, session, new)
          = [i EXCEPT !.traces = ts, !.commands = C \o N, !.events = E,
                      !.port = port, !.auth = auth]
  BY DEF Reconciled, C, E, N
<1> QED BY <1>1, <1>4, <1>6, <1>7 DEF Typed, Unscanned

LEMMA OracleTyped ==
  ASSUME Typed(ir), Oracle
  PROVE  Typed(ir')
<1>1. CASE ir' = ir
  BY <1>1
<1>2. CASE ir' # ir
  <2>1. PICK session \in Sessions : ir' \in Outcomes(ir, session)
    BY <1>2 DEF Oracle
  <2>2. PICK new \in SetToSeqs(SeenCommands(session) \ Known(ir)) :
               ir' = Reconciled(ir, session, new)
    BY <1>2, <2>1 DEF Outcomes
  <2> QED BY <2>2, ReconciledTyped
<1> QED BY <1>1, <1>2

LEMMA BluetoothTyped ==
  ASSUME app \in Apps, NEW S, files \in Seq(S), \A f \in S : IsFile(f), Typed(ir), AddBluetooth
  PROVE  Typed(ir')
<1> DEFINE ble == BleScanned(files)
           added == WithBluetooth(ir, ble)
           framed == app.framed
<1>1. ir' = WithFramed(added, framed)
  BY DEF AddBluetooth
<1>2. ble.commands \in Seq(ScannedType) /\ ble.events \in Seq(ScannedType)
  BY BleTyped
<1>3. "ble" \in STRING
  BY LiteralAssumption
<1> HIDE DEF ble
<1>4. Typed(added)
  <2>1. CASE ~Found(ble)
    BY <2>1 DEF WithBluetooth
  <2>2. CASE Found(ble)
    <3>1. PICK transport, discovers, login :
            /\ transport \in STRING
            /\ added = [ir EXCEPT !.transport = transport, !.discovers = discovers, !.login = login,
                          !.commands = @ \o ble.commands, !.events = @ \o ble.events]
      BY <1>3, <2>2, Zenon DEF Typed, WithBluetooth
    <3>2. /\ ir.commands \o ble.commands \in Seq(ScannedType)
          /\ ir.events \o ble.events \in Seq(ScannedType)
      BY <1>2, ConcatProperties DEF Typed
    <3> HIDE DEF added
    <3> QED BY <3>1, <3>2 DEF Typed, Unscanned
  <2> QED BY <2>1, <2>2
<1> HIDE DEF added
<1>5. CASE Found(added) \/ framed = <<>>
  BY <1>1, <1>4, <1>5 DEF WithFramed
<1>6. CASE ~(Found(added) \/ framed = <<>>)
  <2>1. IsScan(framed)
    BY AppAssumption
  <2> HIDE DEF framed
  <2>2. 1 \in 1..Len(framed) /\ framed \in Seq(Range(framed))
    BY <1>6, <2>1, EmptySeq DEF IsScan, IsList
  <2>3. framed[1] \in Range(framed)
    BY <2>2, ElementOfSeq
  <2>4. framed[1].commands \in Seq(ScannedType) /\ framed[1].events \in Seq(ScannedType)
    BY <2>1, <2>3 DEF IsScan
  <2>5. ir' = [added EXCEPT !.commands = framed[1].commands, !.events = framed[1].events,
                 !.transport = "ble", !.discovers = framed[1].discovers, !.framed = TRUE]
    BY <1>1, <1>6 DEF WithFramed
  <2> QED BY <1>3, <1>4, <2>4, <2>5 DEF Typed, Unscanned
<1> QED BY <1>5, <1>6

-----------------------------------------------------------------------------
(* Every pass keeps what the next one relies on.                           *)

AppFiles == UNION {app.dirs[d].files : d \in DOMAIN app.dirs}

Stages ==
  {"sources", "constants", "lists", "transport", "endpoints", "responses", "split",
   "graphql", "modes", "video", "http", "bluetooth", "oracle", "emit", "raised",
   "emitted", "blocked"}

\* What every pass may rely on.
Scanning ==
  /\ app \in Apps /\ included \subseteq DOMAIN app.dirs /\ frontier \subseteq included
  /\ at \in Stages
  /\ files \in Seq(AppFiles) /\ consts \in Constants /\ lists \in ListsType
  /\ endpoints \in Catalogue /\ Typed(ir)

LEMMA AppFilesAreFiles ==
  ASSUME app \in Apps
  PROVE  IsFiniteSet(DOMAIN app.dirs) /\ \A f \in AppFiles : IsFile(f)
  BY AppAssumption DEF AppFiles

LEMMA ScanningInit == Init => Scanning
<1> SUFFICES ASSUME Init PROVE Scanning
  OBVIOUS
<1>1. /\ app \in Apps /\ included \subseteq DOMAIN app.dirs
      /\ frontier \subseteq included /\ at \in Stages
  BY DEF Init, Dirs, Stages
<1>2. /\ files \in Seq(AppFiles) /\ consts \in Constants
      /\ lists \in ListsType /\ endpoints \in Catalogue
  BY EmptySeq, EmptyTyped, NoLists DEF Init
<1>3. Typed(ir)
  <2>1. ir = Unscanned
    BY DEF Init
  <2>2. Unscanned.commands = <<>> /\ Unscanned.events = <<>> /\ Unscanned.transport = "http"
    BY DEF Unscanned
  <2> QED BY <2>1, <2>2, EmptySeq, LiteralAssumption DEF Typed
<1> QED BY <1>1, <1>2, <1>3 DEF Scanning

LEMMA FollowImportsTyped == Scanning /\ FollowImports => Scanning'
<1> SUFFICES ASSUME Scanning, FollowImports PROVE Scanning'
  OBVIOUS
<1>1. Imported \subseteq DOMAIN app.dirs
  BY DEF Imported, Dirs
<1>2. included' \subseteq DOMAIN app.dirs /\ frontier' \subseteq included'
  BY <1>1 DEF FollowImports, Scanning
<1> QED BY <1>2 DEF FollowImports, Scanning, AppFiles

LEMMA FindFilesTyped == Scanning /\ FindFiles => Scanning'
<1> SUFFICES ASSUME Scanning, FindFiles PROVE Scanning'
  OBVIOUS
<1> DEFINE dirs == IF included # {} THEN included ELSE DOMAIN app.dirs \ Dirs({"library"})
           found == UNION {app.dirs[d].files : d \in dirs}
<1>1. files' \in SetToSeqs(found)
  BY DEF FindFiles
<1>2. dirs \in SUBSET DOMAIN app.dirs /\ app \in Apps
  BY DEF Scanning
<1> HIDE DEF dirs
<1>3. IsFiniteSet(found)
  <2>1. IsFiniteSet(dirs)
    BY <1>2, AppFilesAreFiles, FS_Subset
  <2> DEFINE f == [d \in dirs |-> app.dirs[d].files]
  <2>2. IsFiniteSet({f[d] : d \in dirs})
    <3> HIDE DEF f
    <3> QED BY <2>1, FiniteImages
  <2>3. \A T \in {f[d] : d \in dirs} : IsFiniteSet(T)
    BY <1>2, AppAssumption
  <2>4. {f[d] : d \in dirs} = {app.dirs[d].files : d \in dirs}
    OBVIOUS
  <2> HIDE DEF f
  <2> QED BY <2>2, <2>3, <2>4, FS_UNION
<1>4. found \subseteq AppFiles
  BY <1>2 DEF AppFiles
<1> HIDE DEF found
<1>5. files' \in Seq(AppFiles)
  <2>1. Cardinality(found) \in Nat /\ files' \in [1..Cardinality(found) -> found]
    BY <1>1, <1>3, ListedOnce
  <2>2. files' \in Seq(found)
    BY <2>1, ListOf
  <2> QED BY <1>4, <2>2, SeqMonotonic
<1> QED BY <1>5 DEF FindFiles, Scanning, AppFiles, Stages

LEMMA CollectConstantsTyped == Scanning /\ CollectConstants => Scanning'
<1> SUFFICES ASSUME Scanning, CollectConstants PROVE Scanning'
  OBVIOUS
<1>1. files \in Seq(AppFiles) /\ \A f \in AppFiles : IsFile(f)
  BY AppFilesAreFiles DEF Scanning
<1>2. consts' \in Constants
  BY <1>1, ConstantsTyped DEF CollectConstants
<1> QED BY <1>2 DEF CollectConstants, Scanning, AppFiles, Stages

LEMMA CollectListsTyped == Scanning /\ CollectLists => Scanning'
<1> SUFFICES ASSUME Scanning, CollectLists PROVE Scanning'
  OBVIOUS
<1> DEFINE Finite == {l \in ListType : IsFiniteSet(l.names)}
           of == [f \in AppFiles |-> f.lists]
           ls == FlattenSeq([i \in DOMAIN files |-> files[i].lists])
<1>1. files \in Seq(AppFiles) /\ \A f \in AppFiles : IsFile(f)
  BY AppFilesAreFiles DEF Scanning
<1>2. of \in [AppFiles -> Seq(Finite)]
  <2>1. ASSUME NEW f \in AppFiles PROVE f.lists \in Seq(Finite)
    <3>1. f.lists \in Seq(ListType) /\ \A l \in Range(f.lists) : IsFiniteSet(l.names)
      BY <1>1 DEF IsFile
    <3>2. Range(f.lists) \subseteq Finite /\ IsList(f.lists)
      BY <3>1, RangeOfSeq, SeqOfRange DEF IsList
    <3> HIDE DEF Finite
    <3> QED BY <3>2, ListInto
  <2> QED BY <2>1
<1>3. ls = FlattenSeq([i \in DOMAIN files |-> of[files[i]]])
  <2>1. \A i \in DOMAIN files : files[i] \in AppFiles
    BY <1>1, LenProperties, ElementOfSeq
  <2>2. [i \in DOMAIN files |-> files[i].lists] = [i \in DOMAIN files |-> of[files[i]]]
    BY <2>1
  <2> QED BY <2>2
<1>4. ls \in Seq(Finite)
  <2> HIDE DEF of, Finite, ls
  <2> QED BY <1>1, <1>2, <1>3, EachTyped
<1>5. ls \in Seq(ListType) /\ \A l \in Range(ls) : IsFiniteSet(l.names)
  <2> HIDE DEF ls
  <2>1. Range(ls) \subseteq Finite /\ Finite \subseteq ListType
    BY <1>4, RangeOfSeq
  <2> QED BY <1>4, <2>1, SeqMonotonic
<1>6. lists'
        = FoldLeft(LAMBDA s, l : [s EXCEPT ![l.list] = {Value(x.const, x.lower) : x \in l.names}],
                   lists, ls)
  BY DEF CollectLists, Over
<1> HIDE DEF ls
<1>7. lists' \in ListsType
  <2>1. consts \in Constants /\ lists \in ListsType
    BY DEF Scanning
  <2> QED BY <1>5, <1>6, <2>1, ListsTyped
<1> QED BY <1>7 DEF CollectLists, Scanning, AppFiles, Stages

LEMMA DetectTransportTyped == Scanning /\ DetectTransport => Scanning'
<1> SUFFICES ASSUME Scanning, DetectTransport PROVE Scanning'
  OBVIOUS
<1> DEFINE transport == IF Select(files, LAMBDA f : f.socket) # <<>> THEN "ws" ELSE "http"
<1>1. transport \in STRING
  BY LiteralAssumption
<1>2. PICK login, discovers, auth, fields :
        ir' = [ir EXCEPT !.transport = transport, !.login = login, !.discovers = discovers,
                 !.auth = auth, !.fields = fields]
  BY DEF DetectTransport
<1> HIDE DEF transport
<1>3. Typed(ir')
  BY <1>1, <1>2 DEF Scanning, Typed, Unscanned
<1> QED BY <1>3 DEF DetectTransport, Scanning, AppFiles, Stages

LEMMA ExtractEndpointsTyped == Scanning /\ ExtractEndpoints => Scanning'
<1> SUFFICES ASSUME Scanning, ExtractEndpoints PROVE Scanning'
  OBVIOUS
<1> DEFINE candidates == FlattenSeq([i \in DOMAIN files |-> Candidates(files[i])])
           named == FlattenSeq([i \in DOMAIN files |-> Annotated(files[i])])
           sent == FoldLeft(Register, Empty, candidates)
           annotated == FoldLeft(AddNew, sent, named)
           requests == FoldLeft(AddNew, annotated, app.http)
<1>1. /\ files \in Seq(AppFiles) /\ \A f \in AppFiles : IsFile(f)
      /\ app \in Apps /\ consts \in Constants
  BY AppFilesAreFiles DEF Scanning
<1>2. \A i \in DOMAIN files : files[i] \in AppFiles
  BY <1>1, LenProperties, ElementOfSeq
<1>3. candidates \in Seq(ScannedType)
  <2> DEFINE of == [f \in AppFiles |-> Candidates(f)]
  <2>1. of \in [AppFiles -> Seq(ScannedType)]
    BY <1>1, CandidatesTyped
  <2>2. [i \in DOMAIN files |-> Candidates(files[i])] = [i \in DOMAIN files |-> of[files[i]]]
    BY <1>2
  <2> HIDE DEF of
  <2> QED BY <1>1, <2>1, <2>2, EachTyped
<1>4. named \in Seq(ScannedType)
  <2> DEFINE of == [f \in AppFiles |-> Annotated(f)]
  <2>1. of \in [AppFiles -> Seq(ScannedType)]
    BY <1>1, AnnotatedTyped
  <2>2. [i \in DOMAIN files |-> Annotated(files[i])] = [i \in DOMAIN files |-> of[files[i]]]
    BY <1>2
  <2> HIDE DEF of
  <2> QED BY <1>1, <2>1, <2>2, EachTyped
<1>5. endpoints' = FoldLeft(Register, requests, Retrofit)
  BY DEF ExtractEndpoints, Over
<1> HIDE DEF candidates, named
<1>6. sent \in Catalogue
  BY <1>3, EmptyTyped, RegisterTyped
<1> HIDE DEF sent
<1>7. annotated \in Catalogue
  BY <1>4, <1>6, AddNewTyped
<1> HIDE DEF annotated
<1>8. app.http \in Seq(ScannedType) /\ Retrofit \in Seq(ScannedType)
  BY <1>1, AppAssumption, EmptySeq DEF Retrofit
<1>9. requests \in Catalogue
  BY <1>7, <1>8, AddNewTyped
<1> HIDE DEF requests
<1>10. endpoints' \in Catalogue
  BY <1>5, <1>8, <1>9, RegisterTyped
<1> QED BY <1>10 DEF ExtractEndpoints, Scanning, AppFiles, Stages

LEMMA AttachResponsesTyped == Scanning /\ AttachResponses => Scanning'
<1> SUFFICES ASSUME Scanning, AttachResponses PROVE Scanning'
  OBVIOUS
<1>1. files \in Seq(AppFiles) /\ (\A f \in AppFiles : IsFile(f)) /\ endpoints \in Catalogue
  BY AppFilesAreFiles DEF Scanning
<1>2. endpoints' \in Catalogue
  BY <1>1, AttachTyped
<1> QED BY <1>2 DEF AttachResponses, Scanning, AppFiles, Stages

\* A step that leaves all but the IR and goes on.
LEMMA OnlyTheIR ==
  ASSUME Scanning, UNCHANGED <<app, included, frontier, files, consts, lists, endpoints>>,
         at' \in Stages, Typed(ir')
  PROVE  Scanning'
  BY DEF Scanning, AppFiles

LEMMA BySplit == Scanning /\ Split => Scanning'
<1> SUFFICES ASSUME Scanning, Split PROVE Scanning'
  OBVIOUS
<1>1. Typed(ir')
  BY SplitTyped DEF Scanning
<1> QED BY <1>1, OnlyTheIR DEF Split, Stages

LEMMA ByGraphQL == Scanning /\ AddGraphQL => Scanning'
<1> SUFFICES ASSUME Scanning, AddGraphQL PROVE Scanning'
  OBVIOUS
<1>1. Typed(ir')
  BY GraphQLTyped DEF Scanning
<1> QED BY <1>1, OnlyTheIR DEF AddGraphQL, Stages

LEMMA ByModesAndVideo == Scanning /\ (ExtractModes \/ DetectStreaming) => Scanning'
<1> SUFFICES ASSUME Scanning, ExtractModes \/ DetectStreaming PROVE Scanning'
  OBVIOUS
<1>1. CASE ExtractModes
  <2>1. PICK modes : ir' = [ir EXCEPT !.modes = modes]
    BY <1>1 DEF ExtractModes
  <2>2. Typed(ir')
    BY <2>1 DEF Scanning, Typed, Unscanned
  <2> QED BY <1>1, <2>2, OnlyTheIR DEF ExtractModes, Stages
<1>2. CASE DetectStreaming
  <2>1. PICK stream : ir' = [ir EXCEPT !.stream = stream]
    BY <1>2 DEF DetectStreaming
  <2>2. Typed(ir')
    BY <2>1 DEF Scanning, Typed, Unscanned
  <2> QED BY <1>2, <2>2, OnlyTheIR DEF DetectStreaming, Stages
<1> QED BY <1>1, <1>2

LEMMA ByHttpState == Scanning /\ FillHttpState => Scanning'
<1> SUFFICES ASSUME Scanning, FillHttpState PROVE Scanning'
  OBVIOUS
<1>1. Typed(ir')
  BY HttpTyped DEF Scanning
<1> QED BY <1>1, OnlyTheIR DEF FillHttpState, Stages

LEMMA ByBluetooth == Scanning /\ AddBluetooth => Scanning'
<1> SUFFICES ASSUME Scanning, AddBluetooth PROVE Scanning'
  OBVIOUS
<1>1. files \in Seq(AppFiles) /\ (\A f \in AppFiles : IsFile(f)) /\ app \in Apps /\ Typed(ir)
  BY AppFilesAreFiles DEF Scanning
<1>2. Typed(ir')
  BY <1>1, BluetoothTyped
<1>3. UNCHANGED <<app, included, frontier, files, consts, lists, endpoints>> /\ at' = "oracle"
  BY Zenon DEF AddBluetooth
<1> QED BY <1>2, <1>3, OnlyTheIR DEF Stages

LEMMA ByOracleOrEmit == Scanning /\ (Oracle \/ Emit) => Scanning'
<1> SUFFICES ASSUME Scanning, Oracle \/ Emit PROVE Scanning'
  OBVIOUS
<1>1. CASE Oracle
  <2>1. Typed(ir')
    BY <1>1, OracleTyped DEF Scanning
  <2>2. at' \in {"raised", "emit"}
    BY <1>1 DEF Oracle
  <2> QED BY <1>1, <2>1, <2>2, OnlyTheIR DEF Oracle, Stages
<1>2. CASE Emit
  <2>1. Typed(ir')
    BY <1>2 DEF Scanning, Emit
  <2>2. at' \in {"blocked", "emitted"}
    BY <1>2 DEF Emit
  <2> QED BY <1>2, <2>1, <2>2, OnlyTheIR DEF Emit, Stages
<1> QED BY <1>1, <1>2

LEMMA ScanningNext == Scanning /\ [Next]_vars => Scanning'
<1> SUFFICES ASSUME Scanning, [Next]_vars PROVE Scanning'
  OBVIOUS
<1>1. CASE Scan
  BY <1>1, FollowImportsTyped, FindFilesTyped, CollectConstantsTyped, CollectListsTyped,
     DetectTransportTyped, ExtractEndpointsTyped, AttachResponsesTyped, BySplit, ByGraphQL,
     ByModesAndVideo, ByHttpState DEF Scan
<1>2. CASE AddBluetooth \/ Oracle \/ Emit
  BY <1>2, ByBluetooth, ByOracleOrEmit
<1>3. CASE UNCHANGED vars
  BY <1>3 DEF vars, Scanning, AppFiles, Typed
<1> QED BY <1>1, <1>2, <1>3 DEF Next

LEMMA ScanningTyped == Scanning => TypeOK
<1> SUFFICES ASSUME Scanning PROVE TypeOK
  OBVIOUS
<1>1. ir.commands \in Seq(ScannedType) /\ ir.events \in Seq(ScannedType)
  BY DEF Scanning, Typed
<1>2. \A ep \in Range(All(ir)) : ep.cmd # ""
  <2>1. All(ir) \in Seq(ScannedType)
    BY <1>1, ConcatProperties DEF All
  <2>2. Range(All(ir)) \subseteq ScannedType
    BY <2>1, RangeOfSeq
  <2> QED BY <2>2 DEF ScannedType
<1>3. ir.commands \in Seq(EndpointType) /\ ir.events \in Seq(EndpointType)
  <2>1. ScannedType \subseteq EndpointType
    BY DEF ScannedType
  <2> QED BY <1>1, <2>1, SeqMonotonic
<1>4. DOMAIN ir = DOMAIN Unscanned /\ ir.transport \in STRING
  BY DEF Scanning, Typed
<1> QED BY <1>2, <1>3, <1>4, Zenon DEF TypeOK, Scanning, Stages

\* Whatever the app's files hold and in whatever order they come: every endpoint
\* of the IR is one, has a name, and a confidence of 1 to 100, after each pass.
THEOREM ScanTyped == Spec => []TypeOK
<1>1. Init => Scanning
  BY ScanningInit
<1>2. Scanning /\ [Next]_vars => Scanning'
  BY ScanningNext
<1> QED BY <1>1, <1>2, ScanningTyped, PTL DEF Spec

-----------------------------------------------------------------------------

\* However the IR came about: a capture
\* takes no endpoint away, moves none, makes none less sure, and adds one for
\* each name it shows that no endpoint had, command or event, and no other
\* (ir_reconciler.py:62-130).  Of every capture and every IR.
THEOREM CaptureAdds == Spec => CaptureAddsOnly
<1> DEFINE A == at = "oracle" /\ at' = "emit" =>
                  /\ Stay(ir.commands, ir'.commands) /\ Stay(ir.events, ir'.events)
                  /\ Len(All(ir')) - Len(All(ir))
                       = Cardinality(Names(All(ir'))) - Cardinality(Names(All(ir)))
<1>1. Scanning /\ [Next]_vars => A
  <2> SUFFICES ASSUME Scanning, [Next]_vars, at = "oracle", at' = "emit"
               PROVE  /\ Stay(ir.commands, ir'.commands) /\ Stay(ir.events, ir'.events)
                      /\ Len(All(ir')) - Len(All(ir))
                           = Cardinality(Names(All(ir'))) - Cardinality(Names(All(ir)))
    OBVIOUS
  <2>1. Oracle
    <3>1. ~FollowImports /\ ~FindFiles /\ ~CollectConstants /\ ~CollectLists /\ ~DetectTransport
      BY DEF FollowImports, FindFiles, CollectConstants, CollectLists, DetectTransport
    <3>2. ~ExtractEndpoints /\ ~AttachResponses /\ ~Split /\ ~AddGraphQL /\ ~ExtractModes
      BY DEF ExtractEndpoints, AttachResponses, Split, AddGraphQL, ExtractModes
    <3>3. ~DetectStreaming /\ ~FillHttpState /\ ~Emit /\ at' # at
      BY DEF DetectStreaming, FillHttpState, Emit
    <3>4. ~AddBluetooth
      BY Zenon DEF AddBluetooth
    <3> QED BY <3>1, <3>2, <3>3, <3>4 DEF Next, Scan, vars
  <2>2. PICK session \in Sessions : ir' \in Outcomes(ir, session)
    BY <2>1 DEF Oracle
  <2>3. Typed(ir)
    BY DEF Scanning
  <2>4. CASE ir' = ir
    <3>1. ir.commands \in Seq(EndpointType) /\ ir.events \in Seq(EndpointType)
      BY ScanningTyped DEF TypeOK
    <3>2. All(ir) \in Seq(EndpointType)
      BY <3>1, ConcatProperties DEF All
    <3>3. Len(All(ir)) \in Nat /\ Cardinality(Names(All(ir))) \in Nat
      BY <3>2, LenProperties, FiniteNames, FS_CardinalityType
    <3>4. ASSUME NEW eps \in Seq(EndpointType) PROVE Stay(eps, eps)
      <4>1. ASSUME NEW k \in DOMAIN eps PROVE eps[k].conf <= eps[k].conf
        <5>1. eps[k] \in EndpointType
          BY ElementOfSeq, LenProperties
        <5>2. eps[k].conf \in 1..100
          BY <5>1 DEF EndpointType
        <5> QED BY <5>2, Confidence
      <4> QED BY <4>1 DEF Stay
    <3> QED BY <2>4, <3>1, <3>3, <3>4
  <2>5. CASE \E new \in SetToSeqs(SeenCommands(session) \ Known(ir)) :
               ir' = Reconciled(ir, session, new)
    BY <2>3, <2>5, ReconciledAdds
  <2> QED BY <2>2, <2>4, <2>5 DEF Outcomes
<1>2. A => [at = "oracle" /\ at' = "emit" =>
       LET S(old, new) == \A i \in DOMAIN old :
             old[i].cmd = new[i].cmd /\ old[i].fields = new[i].fields /\ old[i].conf <= new[i].conf
           added == Len(All(ir')) - Len(All(ir))
       IN  /\ S(ir.commands, ir'.commands) /\ S(ir.events, ir'.events)
           /\ added = Cardinality({c.cmd : c \in Range(All(ir'))})
                      - Cardinality({c.cmd : c \in Range(All(ir))})]_vars
  BY DEF Stay, Names
<1>3. Spec => []Scanning
  BY ScanningInit, ScanningNext, PTL DEF Spec
<1> QED BY <1>1, <1>2, <1>3, PTL DEF Spec, CaptureAddsOnly

-----------------------------------------------------------------------------
(* What is signed: each step of the search gives typed parts, of which any *)
(* that is in doubt is of little confidence.                               *)

Weighed == {c \in ComponentType : c.kind = "unknown" => c.conf <= 50}

IsResult(r) ==
  /\ r.push \in Seq(ItemType) /\ r.found \in Seq(Weighed) /\ r.doubt \in Seq(DoubtType)
  /\ r.doubt # <<>> => \E i \in DOMAIN r.found : r.found[i].conf <= 50

LEMMA FirstOf ==
  ASSUME NEW T, NEW s \in Seq(T), s # <<>>
  PROVE  s[1] \in T /\ Len(s) \in Nat /\ 1 \in 1..Len(s) /\ DOMAIN s = 1..Len(s)
<1>1. Len(s) \in Nat \ {0} /\ DOMAIN s = 1..Len(s)
  BY EmptySeq, LenProperties
<1>2. 1 \in 1..Len(s)
  BY <1>1
<1> QED BY <1>1, <1>2, ElementOfSeq

LEMMA ExprHas ==
  ASSUME NEW e \in Expr
  PROVE  /\ e.name \in STRING /\ e.name \in DOMAIN Words /\ IsList(Words[e.name])
         /\ e.parts \in Seq(Expr) /\ (e.is = "conversion" => e.parts # <<>>)
         /\ IsConcat(e) => Operands(e) \in Seq(Expr)
  BY SigningAssumption

\* A name is of a kind of its own, or unknown.
LEMMA KindTyped ==
  ASSUME NEW name \in DOMAIN Words, IsList(Words[name])
  PROVE  KindOf(name) \in Kinds
<1> DEFINE words == Words[name]
           T == {w \in Range(words) : \E i \in DOMAIN Rules : w \in Rules[i].words}
           ps == {i \in DOMAIN words : \E k \in DOMAIN Rules : words[i] \in Rules[k].words}
           known == Those(words, ps)
           rule == CHOOSE i \in DOMAIN Rules : known[1] \in Rules[i].words
<1>1. KindOf(name) = IF known = <<>> THEN "unknown" ELSE Rules[rule].kind
  BY DEF KindOf, Select
<1>2. words \in Seq(Range(words))
  BY DEF IsList
<1>3. known \in Seq(T)
  <2>1. \A i \in DOMAIN words \cap ps : words[i] \in T
    BY DEF Range
  <2> HIDE DEF T, ps, words
  <2> QED BY <1>2, <2>1, ThoseTyped
<1>4. CASE known = <<>>
  BY <1>1, <1>4 DEF Kinds
<1>5. CASE known # <<>>
  <2>1. known[1] \in T
    <3> HIDE DEF known, T
    <3> QED BY <1>3, <1>5, FirstOf
  <2>2. \E i \in DOMAIN Rules : known[1] \in Rules[i].words
    BY <2>1
  <2> HIDE DEF known
  <2>3. rule \in DOMAIN Rules
    BY <2>2
  <2> HIDE DEF rule
  <2> QED BY <1>1, <1>5, <2>3 DEF Kinds
<1> QED BY <1>4, <1>5

LEMMA ComponentTyped ==
  ASSUME NEW kind \in Kinds, NEW name \in STRING, NEW conf \in 1..100,
         kind = "unknown" => conf <= 50
  PROVE  Component(kind, name, conf) \in Weighed /\ Component(kind, name, conf).conf = conf
  BY DEF Component, Weighed, ComponentType

LEMMA GivenTyped ==
  ASSUME NEW kind \in Kinds, NEW name \in STRING, NEW conf \in 1..100,
         kind = "unknown" => conf <= 50,
         NEW doubt \in Seq(DoubtType), doubt # <<>> => conf <= 50
  PROVE  IsResult(Given(kind, name, conf, doubt))
<1> DEFINE c == Component(kind, name, conf)
           r == Given(kind, name, conf, doubt)
<1>1. c \in Weighed /\ c.conf = conf
  BY ComponentTyped
<1>2. r.push = <<>> /\ r.found = <<c>> /\ r.doubt = doubt
  BY DEF Given
<1> HIDE DEF c, r
<1>3. <<c>> \in Seq(Weighed) /\ 1 \in DOMAIN <<c>> /\ <<c>>[1] = c
  BY <1>1
<1>4. <<>> \in Seq(ItemType)
  BY EmptySeq
<1> QED BY <1>1, <1>2, <1>3, <1>4 DEF IsResult, r

LEMMA DoubtTyped ==
  ASSUME NEW name \in STRING, NEW why \in {"depth", "unknown", "call"}
  PROVE  <<Doubt(name, why)>> \in Seq(DoubtType)
<1>1. Doubt(name, why) \in DoubtType
  BY DEF Doubt, DoubtType
<1> QED BY <1>1

LEMMA ItemsTyped ==
  ASSUME NEW exprs \in Seq(Expr), NEW m \in Method, NEW d \in 0..(ResolveDepth + 1)
  PROVE  Items(exprs, m, d) \in Seq(ItemType)
<1>1. /\ Len(exprs) \in Nat /\ DOMAIN exprs = 1..Len(exprs)
      /\ \A i \in 1..Len(exprs) : exprs[i] \in Expr
  BY LenProperties, ElementOfSeq
<1>2. ASSUME NEW i \in 1..Len(exprs)
      PROVE  Item("var", exprs[i], exprs[i].name, m, d) \in ItemType
  BY <1>1, ExprHas DEF Item, ItemType
<1>3. Items(exprs, m, d) \in [1..Len(exprs) -> ItemType]
  BY <1>1, <1>2 DEF Items
<1> QED BY <1>1, <1>3, ListOf

LEMMA RestTyped ==
  ASSUME NEW items \in Seq(ItemType)
  PROVE  IsResult(Rest(items))
  BY EmptySeq DEF IsResult, Rest

LEMMA LiteralTyped ==
  ASSUME NEW e \in Expr
  PROVE  IsResult(LiteralOf(e))
<1>1. "literal" \in Kinds /\ 100 \in 1..100
  BY DEF Kinds
<1>2. <<>> \in Seq(DoubtType)
  BY EmptySeq
<1> DEFINE kind == "literal" conf == 100 doubt == <<>>
<1>3. /\ kind \in Kinds /\ conf \in 1..100 /\ doubt \in Seq(DoubtType)
      /\ (kind = "unknown" => conf <= 50) /\ (doubt # <<>> => conf <= 50)
  BY <1>1, <1>2
<1> HIDE DEF kind, conf, doubt
<1>4. IsResult(Given(kind, e.name, conf, doubt))
  BY <1>3, ExprHas, GivenTyped
<1> QED BY <1>4 DEF LiteralOf, kind, conf, doubt

LEMMA ConcatTyped ==
  ASSUME NEW it, it.expr \in Expr, IsConcat(it.expr), it.method \in Method,
         NEW d \in 0..(ResolveDepth + 1)
  PROVE  IsResult(Concat(it, d))
  BY ExprHas, ItemsTyped, RestTyped DEF Concat

LEMMA ByNameTyped ==
  ASSUME NEW name \in STRING, name \in DOMAIN Words, IsList(Words[name]),
         NEW known \in 1..100, NEW unknown \in 1..50
  PROVE  IsResult(ByName(name, known, unknown))
<1>1. CASE KindOf(name) # "unknown"
  <2> DEFINE doubt == <<>>
  <2>1. doubt \in Seq(DoubtType) /\ (doubt # <<>> => known <= 50)
    BY EmptySeq
  <2> HIDE DEF doubt
  <2>2. IsResult(Given(KindOf(name), name, known, doubt))
    BY <1>1, <2>1, KindTyped, GivenTyped
  <2> QED BY <1>1, <2>2 DEF ByName, doubt
<1>2. CASE KindOf(name) = "unknown"
  <2> DEFINE doubt == <<Doubt(name, "unknown")>>
             kind == "unknown"
  <2>1. doubt \in Seq(DoubtType) /\ kind \in Kinds
    BY DoubtTyped DEF Kinds
  <2>2. unknown \in 1..100 /\ unknown <= 50
    OBVIOUS
  <2> HIDE DEF doubt, kind
  <2>3. IsResult(Given(kind, name, unknown, doubt))
    BY <2>1, <2>2, GivenTyped
  <2> QED BY <1>2, <2>3 DEF ByName, doubt, kind
<1> QED BY <1>1, <1>2

LEMMA AppendedTyped ==
  ASSUME NEW args \in Seq(Expr)
  PROVE  IsResult(Appended(args))
<1> DEFINE Of(e) == IF IsLiteral(e) THEN Component("literal", e.name, 100)
                    ELSE Component(KindOf(e.name), e.name,
                                   IF KindOf(e.name) # "unknown" THEN 80 ELSE 40)
           found == [i \in DOMAIN args |-> Of(args[i])]
<1>1. /\ Len(args) \in Nat /\ DOMAIN args = 1..Len(args)
      /\ \A i \in 1..Len(args) : args[i] \in Expr
  BY LenProperties, ElementOfSeq
<1>2. ASSUME NEW e \in Expr PROVE Of(e) \in Weighed
  <2> DEFINE literal == "literal" conf == IF KindOf(e.name) # "unknown" THEN 80 ELSE 40
             sure == 100
  <2>1. literal \in Kinds /\ KindOf(e.name) \in Kinds /\ e.name \in STRING
    BY ExprHas, KindTyped DEF Kinds
  <2>2. /\ conf \in 1..100 /\ sure \in 1..100 /\ literal # "unknown"
        /\ (KindOf(e.name) = "unknown" => conf <= 50)
    OBVIOUS
  <2> HIDE DEF literal, conf, sure
  <2>3. /\ Component(literal, e.name, sure) \in Weighed
        /\ Component(KindOf(e.name), e.name, conf) \in Weighed
    BY <2>1, <2>2, ComponentTyped
  <2> QED BY <2>3 DEF literal, conf, sure
<1>3. Appended(args).push = <<>> /\ Appended(args).doubt = <<>> /\ Appended(args).found = found
  BY DEF Appended
<1> HIDE DEF Of
<1>4. found \in [1..Len(args) -> Weighed]
  BY <1>1, <1>2
<1> HIDE DEF found
<1>5. found \in Seq(Weighed)
  BY <1>1, <1>4, ListOf
<1>6. <<>> \in Seq(ItemType) /\ <<>> \in Seq(DoubtType)
  BY EmptySeq
<1> QED BY <1>3, <1>5, <1>6 DEF IsResult

LEMMA MethodHas ==
  ASSUME NEW m \in Method
  PROVE  /\ m.final \in Seq(Expr) /\ m.updates \in Seq(Expr) /\ m.returns \in Seq(Expr)
         /\ \A b \in DOMAIN m.appends : m.appends[b] \in Seq(Expr)
         /\ IsList(m.assigns) /\ \A a \in Range(m.assigns) : a.rhs \in Expr
         /\ Inputs(m) \in Seq(Expr)
  BY SigningAssumption DEF Inputs

LEMMA AssignmentTyped ==
  ASSUME NEW m \in Method, NEW var
  PROVE  Assignment(m, var) \in Seq(Range(m.assigns))
<1> DEFINE T == Range(m.assigns)
           all == Select(m.assigns, LAMBDA a : a.var = var)
           typed == Select(all, LAMBDA a : a.typed)
<1>1. m.assigns \in Seq(T)
  BY MethodHas DEF IsList
<1>2. all \in Seq(T)
  BY <1>1, ThoseOf DEF Select
<1>3. typed \in Seq(T)
  <2> HIDE DEF all
  <2> QED BY <1>2, ThoseOf DEF Select
<1>4. Assignment(m, var) = typed \o all
  BY DEF Assignment, Select
<1> HIDE DEF T, all, typed
<1>5. typed \o all \in Seq(T)
  BY <1>2, <1>3, ConcatProperties
<1> QED BY <1>4, <1>5 DEF T

LEMMA ResolveNameTyped ==
  ASSUME NEW it \in ItemType, it.depth <= ResolveDepth
  PROVE  IsResult(ResolveName(it))
<1> DEFINE name == it.expr.name
           assigned == Assignment(it.method, name)
           item == Item("rhs", assigned[1].rhs, name, it.method, it.depth + 1)
<1>1. it.expr \in Expr /\ it.method \in Method /\ it.depth \in Nat
  BY SigningAssumption DEF ItemType
<1>2. name \in STRING /\ name \in DOMAIN Words /\ IsList(Words[name])
  BY <1>1, ExprHas
<1> HIDE DEF name
<1>3. CASE name \in DOMAIN it.method.appends
  <2>1. it.method.appends[name] \in Seq(Expr)
    BY <1>1, <1>3, MethodHas
  <2>2. ResolveName(it) = Appended(it.method.appends[name])
    BY <1>3 DEF ResolveName, name
  <2> QED BY <2>1, <2>2, AppendedTyped
<1>4. CASE name \notin DOMAIN it.method.appends /\ assigned # <<>>
  <2>1. assigned \in Seq(Range(it.method.assigns))
    BY <1>1, AssignmentTyped
  <2>2. assigned[1].rhs \in Expr
    <3> HIDE DEF assigned
    <3>1. assigned[1] \in Range(it.method.assigns)
      BY <1>4, <2>1, FirstOf
    <3> QED BY <1>1, <3>1, MethodHas
  <2>3. ResolveName(it) = Rest(<<item>>)
    BY <1>4 DEF ResolveName, name
  <2> HIDE DEF assigned
  <2>4. it.depth + 1 \in 0..(ResolveDepth + 1)
    BY <1>1, SigningAssumption
  <2>5. item \in ItemType
    BY <1>1, <1>2, <2>2, <2>4 DEF Item, ItemType, name
  <2> HIDE DEF item
  <2>6. <<item>> \in Seq(ItemType)
    BY <2>5
  <2> QED BY <2>3, <2>6, RestTyped
<1>5. CASE name \notin DOMAIN it.method.appends /\ assigned = <<>>
  <2>1. ResolveName(it) = ByName(name, 80, 35)
    BY <1>5 DEF ResolveName, name
  <2>2. 80 \in 1..100 /\ 35 \in 1..50
    OBVIOUS
  <2>3. IsResult(ByName(name, 80, 35))
    BY <1>2, <2>2, ByNameTyped
  <2> QED BY <2>1, <2>3
<1> QED BY <1>3, <1>4, <1>5

LEMMA UnwrappedTyped ==
  ASSUME NEW e \in Expr
  PROVE  Unwrapped(e) \in Expr
<1>1. CASE e.is = "conversion"
  <2>1. e.parts[1] \in Expr
    BY <1>1, ExprHas, FirstOf
  <2> QED BY <1>1, <2>1 DEF Unwrapped
<1> QED BY <1>1 DEF Unwrapped

LEMMA ResolveVarTyped ==
  ASSUME NEW item \in ItemType
  PROVE  IsResult(ResolveVar(item))
<1> DEFINE it == [item EXCEPT !.expr = Unwrapped(@)]
           name == it.expr.name
<1>1. it \in ItemType /\ it.expr = Unwrapped(item.expr)
  <2>1. item.expr \in Expr
    BY DEF ItemType
  <2>2. Unwrapped(item.expr) \in Expr
    BY <2>1, UnwrappedTyped
  <2> QED BY <2>2 DEF ItemType
<1>2. ResolveVar(item) =
        IF it.depth > ResolveDepth THEN Given("unknown", name, 10, <<Doubt(name, "depth")>>)
        ELSE CASE IsLiteral(it.expr)   -> LiteralOf(it.expr)
               [] IsConcat(it.expr)    -> Concat(it, it.depth + 1)
               [] it.expr.is = "name"  -> ResolveName(it)
               [] OTHER                -> ByName(name, 50, 20)
  BY DEF ResolveVar
<1> HIDE DEF it
<1>3. it.expr \in Expr /\ it.method \in Method /\ it.depth \in Nat /\ ResolveDepth \in Nat
  BY <1>1, SigningAssumption DEF ItemType
<1>4. name \in STRING /\ name \in DOMAIN Words /\ IsList(Words[name])
  BY <1>3, ExprHas
<1> HIDE DEF name
<1>5. CASE it.depth > ResolveDepth
  <2> DEFINE kind == "unknown" conf == 10 why == "depth"
             doubt == <<Doubt(name, why)>>
  <2>1. kind \in Kinds
    BY DEF Kinds
  <2>2. conf \in 1..100 /\ conf <= 50 /\ why \in {"depth", "unknown", "call"}
    OBVIOUS
  <2> HIDE DEF kind, conf, why
  <2>3. doubt \in Seq(DoubtType)
    BY <1>4, <2>2, DoubtTyped
  <2> HIDE DEF doubt
  <2>4. IsResult(Given(kind, name, conf, doubt))
    BY <1>4, <2>1, <2>2, <2>3, GivenTyped
  <2> QED BY <1>2, <1>5, <2>4 DEF kind, conf, why, doubt
<1>6. CASE it.depth <= ResolveDepth
  <2>1. CASE IsLiteral(it.expr)
    <3>1. ~IsConcat(it.expr)
      BY <2>1 DEF IsConcat
    <3>2. it.expr.is # "name"
      BY <2>1 DEF IsLiteral
    <3>3. ResolveVar(item) = LiteralOf(it.expr)
      BY <1>2, <1>3, <1>6, <2>1, <3>1, <3>2
    <3> QED BY <1>3, <3>3, LiteralTyped
  <2>2. CASE IsConcat(it.expr)
    <3>1. ResolveVar(item) = Concat(it, it.depth + 1)
      BY <1>2, <1>3, <1>6, <2>2 DEF IsConcat
    <3>2. it.depth + 1 \in 0..(ResolveDepth + 1)
      BY <1>3, <1>6
    <3> QED BY <1>3, <2>2, <3>1, <3>2, ConcatTyped
  <2>3. CASE it.expr.is = "name"
    <3>1. ResolveVar(item) = ResolveName(it)
      BY <1>2, <1>3, <1>6, <2>3 DEF IsConcat, IsLiteral
    <3> QED BY <1>1, <1>6, <3>1, ResolveNameTyped
  <2>4. CASE ~IsLiteral(it.expr) /\ ~IsConcat(it.expr) /\ it.expr.is # "name"
    <3>1. ResolveVar(item) = ByName(name, 50, 20)
      BY <1>2, <1>3, <1>6, <2>4
    <3>2. 50 \in 1..100 /\ 20 \in 1..50
      OBVIOUS
    <3>3. IsResult(ByName(name, 50, 20))
      BY <1>4, <3>2, ByNameTyped
    <3> QED BY <3>1, <3>3
  <2> QED BY <2>1, <2>2, <2>3, <2>4
<1> QED BY <1>3, <1>5, <1>6

ClassNames == {f.class : f \in Range(classes)}

\* The class of a use is there to be read.
LEMMA ClassFileTyped ==
  ASSUME classes \in Sources, NEW class \in ClassNames
  PROVE  ClassFile(class)[1] \in Range(classes) /\ ClassFile(class)[1].methods \in Seq(Method)
<1> DEFINE own == CHOOSE f \in Range(classes) : f.class = class
           ps == {i \in DOMAIN classes : classes[i].simple = own.simple}
<1>0. own \in Range(classes)
  BY DEF ClassNames
<1>1. ClassFile(class) = Those(classes, ps)
  BY DEF ClassFile, Select
<1>2. classes \in Seq(Range(classes))
  BY SigningAssumption DEF IsList
<1> HIDE DEF own
<1>3. \E j : j \in DOMAIN classes \cap ps
  BY <1>0 DEF Range
<1> HIDE DEF ps
<1>4. Those(classes, ps) \in Seq(Range(classes)) /\ Those(classes, ps) # <<>>
  BY <1>2, <1>3, ThoseOf, ThoseSome
<1>5. ClassFile(class)[1] \in Range(classes)
  BY <1>1, <1>4, FirstOf
<1> QED BY <1>5, SigningAssumption

LEMMA LeastIn ==
  ASSUME NEW n \in Nat, NEW s \in SUBSET (1..n), s # {}
  PROVE  Min(s) \in s /\ \A y \in s : Min(s) <= y
<1> DEFINE t == {n + 1 - x : x \in s}
<1>1. t \in SUBSET (1..n) /\ t # {}
  <2>1. \A x \in s : n + 1 - x \in 1..n
    OBVIOUS
  <2> QED BY <2>1
<1> HIDE DEF t
<1>2. Max(t) \in t /\ \A y \in t : Max(t) >= y
  BY <1>1, MaxIn
<1> DEFINE m == n + 1 - Max(t)
<1>3. m \in s /\ \A y \in s : m <= y
  <2>1. PICK x \in s : Max(t) = n + 1 - x
    BY <1>2 DEF t
  <2>2. m = x
    BY <2>1
  <2>3. ASSUME NEW y \in s PROVE m <= y
    <3>1. n + 1 - y \in t
      BY DEF t
    <3>2. n + 1 - x >= n + 1 - y
      BY <1>2, <2>1, <3>1
    <3> QED BY <2>2, <3>2
  <2> QED BY <2>2, <2>3
<1> HIDE DEF m
<1>4. \A x \in s : (\A y \in s : x <= y) => x = m
  BY <1>3
<1> QED BY <1>3, <1>4 DEF Min

LEMMA InClassTyped ==
  ASSUME classes \in Sources, NEW class \in ClassNames, NEW name
  PROVE  InClass(class, name) \in Seq(Method)
<1> DEFINE ms == ClassFile(class)[1].methods
           ps == {i \in DOMAIN ms : ms[i].name = name /\ ms[i].plain}
<1>1. ms \in Seq(Method)
  BY ClassFileTyped
<1>2. InClass(class, name) = Those(ms, ps)
  BY DEF InClass, Select
<1> HIDE DEF ms, ps
<1> QED BY <1>1, <1>2, ThoseOf

LEMMA InGraphTyped ==
  ASSUME classes \in Sources, NEW name
  PROVE  InGraph(name) \in Seq(Method)
<1> DEFINE Simple == {f.simple : f \in Range(classes)}
           T == [simple: Simple, method: Method]
           Keys(i) == [k \in DOMAIN classes[i].methods |->
                        [simple |-> classes[i].simple, method |-> classes[i].methods[k]]]
           keys == [i \in DOMAIN classes |-> Keys(i)]
           places == {i \in DOMAIN GraphKeys : GraphKeys[i].method.name = name}
           first == GraphKeys[Min(places)].simple
           same == {i \in places : GraphKeys[i].simple = first}
<1>1. /\ Len(classes) \in Nat /\ DOMAIN classes = 1..Len(classes)
      /\ \A i \in 1..Len(classes) : classes[i] \in Range(classes)
  BY SigningAssumption, LenProperties DEF IsList, Range
<1>2. ASSUME NEW i \in 1..Len(classes) PROVE Keys(i) \in Seq(T)
  <2> DEFINE ms == classes[i].methods
  <2>1. ms \in Seq(Method)
    BY <1>1, SigningAssumption
  <2>2. classes[i].simple \in Simple
    BY <1>1
  <2> HIDE DEF ms, Simple
  <2>3. /\ Len(ms) \in Nat /\ DOMAIN ms = 1..Len(ms)
        /\ \A k \in 1..Len(ms) : ms[k] \in Method
    BY <2>1, LenProperties, ElementOfSeq
  <2>4. Keys(i) \in [1..Len(ms) -> T]
    BY <2>2, <2>3 DEF ms
  <2> HIDE DEF T, Keys
  <2> QED BY <2>3, <2>4, ListOf
<1>3. GraphKeys = FlattenSeq(keys)
  BY DEF GraphKeys
<1>4. GraphKeys \in Seq(T)
  <2> HIDE DEF Keys, T
  <2>1. keys \in [1..Len(classes) -> Seq(T)]
    BY <1>1, <1>2
  <2>2. keys \in Seq(Seq(T))
    <3> HIDE DEF keys
    <3> QED BY <1>1, <2>1, ListOf
  <2> QED BY <1>3, <2>2, FlattenTyped
<1>5. InGraph(name) = IF places = {} THEN <<>> ELSE <<GraphKeys[Max(same)].method>>
  BY DEF InGraph
<1>6. CASE places = {}
  BY <1>5, <1>6, EmptySeq
<1>7. CASE places # {}
  <2> DEFINE n == Len(GraphKeys)
  <2>1. n \in Nat /\ DOMAIN GraphKeys = 1..n
    BY <1>4, LenProperties
  <2>2. places \in SUBSET (1..n)
    BY <2>1
  <2> HIDE DEF n, places
  <2>3. Min(places) \in places
    BY <1>7, <2>1, <2>2, LeastIn
  <2>4. same \in SUBSET (1..n) /\ same # {}
    BY <2>2, <2>3
  <2> HIDE DEF same
  <2>5. Max(same) \in 1..n
    BY <2>1, <2>4, MaxIn
  <2>6. GraphKeys[Max(same)] \in T
    <3> HIDE DEF T
    <3> QED BY <1>4, <2>5, ElementOfSeq DEF n
  <2>7. GraphKeys[Max(same)].method \in Method
    BY <2>6
  <2> QED BY <1>5, <1>7, <2>7
<1> QED BY <1>6, <1>7

LEMMA CalledTyped ==
  ASSUME classes \in Sources, NEW class \in ClassNames, NEW name
  PROVE  Called(class, name) \in Seq(Method)
  BY InClassTyped, InGraphTyped DEF Called

LEMMA VarTyped ==
  ASSUME NEW it \in ItemType
  PROVE  /\ it.expr \in Expr /\ it.method \in Method /\ it.depth \in 0..(ResolveDepth + 1)
         /\ it.what \in {"var", "rhs"}
         /\ it.var \in STRING /\ it.var \in DOMAIN Words /\ IsList(Words[it.var])
<1>1. /\ it.expr \in Expr /\ it.method \in Method /\ it.depth \in 0..(ResolveDepth + 1)
      /\ it.what \in {"var", "rhs"} /\ it.var \in {e.name : e \in Expr}
  BY DEF ItemType
<1>2. PICK e \in Expr : it.var = e.name
  BY <1>1
<1> QED BY <1>1, <1>2, ExprHas

LEMMA ResolveCallTyped ==
  ASSUME classes \in Sources, NEW class \in ClassNames, NEW it \in ItemType,
         it.depth <= ResolveDepth
  PROVE  IsResult(ResolveCall(it, class))
<1> DEFINE called == Called(class, it.expr.name)
           inner == called[1]
           exprs == IF Inputs(inner) # <<>> THEN Inputs(inner) ELSE inner.returns
<1>1. called \in Seq(Method)
  BY CalledTyped
<1>2. ResolveCall(it, class) =
        IF called = <<>> \/ exprs = <<>>
        THEN Given(KindOf(it.var), it.var, 35, <<Doubt(it.var, "call")>>)
        ELSE Rest(Items(exprs, inner, it.depth + 1))
  BY DEF ResolveCall
<1> HIDE DEF called
<1>3. CASE called = <<>> \/ exprs = <<>>
  <2> DEFINE kind == KindOf(it.var) conf == 35 why == "call"
             doubt == <<Doubt(it.var, why)>>
  <2>1. it.var \in STRING /\ kind \in Kinds
    BY VarTyped, KindTyped
  <2>2. conf \in 1..100 /\ conf <= 50 /\ why \in {"depth", "unknown", "call"}
    OBVIOUS
  <2> HIDE DEF exprs, kind, conf, why
  <2>3. doubt \in Seq(DoubtType)
    BY <2>1, <2>2, DoubtTyped
  <2> HIDE DEF doubt
  <2>4. IsResult(Given(kind, it.var, conf, doubt))
    BY <2>1, <2>2, <2>3, GivenTyped
  <2> QED BY <1>2, <1>3, <2>4 DEF kind, conf, doubt, why
<1>4. CASE called # <<>> /\ exprs # <<>>
  <2>1. inner \in Method
    BY <1>1, <1>4, FirstOf
  <2> HIDE DEF inner
  <2>2. exprs \in Seq(Expr)
    BY <2>1, MethodHas
  <2>3. it.depth + 1 \in 0..(ResolveDepth + 1)
    BY SigningAssumption DEF ItemType
  <2> HIDE DEF exprs
  <2> QED BY <1>2, <1>4, <2>1, <2>2, <2>3, ItemsTyped, RestTyped
<1> QED BY <1>3, <1>4

LEMMA ResolveRhsTyped ==
  ASSUME classes \in Sources, NEW class \in ClassNames, NEW it \in ItemType
  PROVE  IsResult(ResolveRhs(it, class))
<1> DEFINE e == it.expr
           joined == e.is = "bytes" /\ it.depth < CallDepth
           followed == e.is = "call" /\ it.depth < CallDepth
           Part(p) == IF p.is = "name" THEN Item("var", p, p.name, it.method, it.depth + 1)
                      ELSE Item("rhs", p, p.name, it.method, it.depth + 1)
           parts == [i \in DOMAIN e.parts |-> Part(e.parts[i])]
           sure == IF KindOf(e.name) # "unknown" THEN 80 ELSE 50
<1>1. /\ e \in Expr /\ it.method \in Method /\ it.depth \in 0..(ResolveDepth + 1)
      /\ it.var \in STRING /\ it.var \in DOMAIN Words /\ IsList(Words[it.var])
  BY VarTyped
<1>2. ResolveDepth \in Nat /\ CallDepth \in Nat /\ CallDepth <= ResolveDepth
  BY SigningAssumption
<1>3. ResolveRhs(it, class) =
        CASE IsLiteral(e)     -> LiteralOf(e)
          [] IsConcat(e)      -> Concat(it, it.depth)
          [] joined           -> Rest(parts)
          [] e.is = "field"   -> Given(KindOf(e.name), e.name, sure, <<>>)
          [] followed         -> ResolveCall(it, class)
          [] OTHER            -> ByName(it.var, 75, 35)
  BY DEF ResolveRhs
<1>4. /\ IsLiteral(e) => e.is \in {"literal", "concat"} /\ ~IsConcat(e)
      /\ IsConcat(e) => e.is = "concat"
  BY DEF IsLiteral, IsConcat
<1>5. CASE IsLiteral(e)
  <2>1. ResolveRhs(it, class) = LiteralOf(e)
    BY <1>3, <1>4, <1>5
  <2> QED BY <1>1, <2>1, LiteralTyped
<1>6. CASE IsConcat(e)
  <2>1. ResolveRhs(it, class) = Concat(it, it.depth)
    BY <1>3, <1>4, <1>6
  <2> QED BY <1>1, <1>6, <2>1, ConcatTyped
<1>7. CASE joined
  <2>1. ResolveRhs(it, class) = Rest(parts)
    BY <1>3, <1>4, <1>7
  <2>2. /\ Len(e.parts) \in Nat /\ DOMAIN e.parts = 1..Len(e.parts)
        /\ \A i \in 1..Len(e.parts) : e.parts[i] \in Expr
    BY <1>1, ExprHas, LenProperties, ElementOfSeq
  <2>3. it.depth + 1 \in 0..(ResolveDepth + 1)
    BY <1>1, <1>2, <1>7
  <2>4. ASSUME NEW p \in Expr PROVE Part(p) \in ItemType
    BY <1>1, <2>3 DEF Item, ItemType
  <2> HIDE DEF Part
  <2>5. parts \in [1..Len(e.parts) -> ItemType]
    BY <2>2, <2>4
  <2> HIDE DEF parts
  <2>6. parts \in Seq(ItemType)
    BY <2>2, <2>5, ListOf
  <2> QED BY <2>1, <2>6, RestTyped
<1>8. CASE e.is = "field"
  <2>1. ResolveRhs(it, class) = Given(KindOf(e.name), e.name, sure, <<>>)
    BY <1>3, <1>4, <1>8
  <2>2. KindOf(e.name) \in Kinds /\ e.name \in STRING
    BY <1>1, ExprHas, KindTyped
  <2>3. sure \in 1..100 /\ (KindOf(e.name) = "unknown" => sure <= 50)
    OBVIOUS
  <2> DEFINE doubt == <<>>
  <2>4. doubt \in Seq(DoubtType) /\ (doubt # <<>> => sure <= 50)
    BY EmptySeq
  <2> HIDE DEF e, sure, doubt
  <2>5. IsResult(Given(KindOf(e.name), e.name, sure, doubt))
    BY <2>2, <2>3, <2>4, GivenTyped
  <2> QED BY <2>1, <2>5 DEF doubt
<1>9. CASE followed
  <2>1. ResolveRhs(it, class) = ResolveCall(it, class)
    BY <1>3, <1>4, <1>9
  <2>2. it.depth <= ResolveDepth
    BY <1>1, <1>2, <1>9
  <2> QED BY <2>1, <2>2, ResolveCallTyped
<1>10. CASE ~IsLiteral(e) /\ ~IsConcat(e) /\ ~joined /\ e.is # "field" /\ ~followed
  <2>1. ResolveRhs(it, class) = ByName(it.var, 75, 35)
    BY <1>3, <1>10
  <2>2. 75 \in 1..100 /\ 35 \in 1..50
    OBVIOUS
  <2>3. IsResult(ByName(it.var, 75, 35))
    BY <1>1, <2>2, ByNameTyped
  <2> QED BY <2>1, <2>3
<1> QED BY <1>5, <1>6, <1>7, <1>8, <1>9, <1>10

\* One step of the search, of any item.
LEMMA ResolveTyped ==
  ASSUME classes \in Sources, NEW class \in ClassNames, NEW it \in ItemType
  PROVE  IsResult(Resolve(it, class))
  BY ResolveVarTyped, ResolveRhsTyped DEF Resolve

-----------------------------------------------------------------------------
(* The uses of cryptography.                                               *)

LEMMA FileUsagesTyped ==
  ASSUME classes \in Sources, NEW f \in Range(classes)
  PROVE  FileUsages(f) \in Seq(UsageType)
<1> DEFINE as == f.algorithms
           places == [i \in DOMAIN as |-> i]
           firsts == Select(places, LAMBDA i : \A j \in 1..(i - 1) : as[j] # as[i])
           Use(a, conf) == [class |-> f.class, algorithm |-> a, conf |-> conf]
           all == [k \in DOMAIN firsts |-> Use(as[firsts[k]], 100)]
<1>1. FileUsages(f) = IF ~f.first THEN <<>>
                      ELSE IF as # <<>> THEN all
                      ELSE IF f.imports THEN <<Use("unknown", 40)>> ELSE <<>>
  BY DEF FileUsages, Select
<1>2. as \in Seq(Range(as))
  BY SigningAssumption DEF IsList
<1>3. ASSUME NEW a \in Range(as) PROVE Use(a, 100) \in UsageType
  BY DEF UsageType
<1>4. Use("unknown", 40) \in UsageType
  BY DEF UsageType
<1>5. all \in Seq(UsageType)
  <2>1. /\ Len(as) \in Nat /\ DOMAIN as = 1..Len(as)
        /\ \A i \in 1..Len(as) : as[i] \in Range(as)
    BY <1>2, LenProperties DEF Range
  <2>2. places \in [1..Len(as) -> 1..Len(as)]
    BY <2>1
  <2> HIDE DEF as, places, Use
  <2>3. places \in Seq(1..Len(as))
    BY <2>1, <2>2, ListOf
  <2>4. firsts \in Seq(1..Len(as))
    BY <2>3, ThoseOf DEF Select
  <2> HIDE DEF firsts
  <2>5. /\ Len(firsts) \in Nat /\ DOMAIN firsts = 1..Len(firsts)
        /\ \A k \in 1..Len(firsts) : firsts[k] \in 1..Len(as)
    BY <2>4, LenProperties, ElementOfSeq
  <2>6. all \in [1..Len(firsts) -> UsageType]
    BY <1>3, <2>1, <2>5
  <2> HIDE DEF all
  <2> QED BY <2>5, <2>6, ListOf
<1> HIDE DEF all, Use, as
<1>6. <<Use("unknown", 40)>> \in Seq(UsageType) /\ <<>> \in Seq(UsageType)
  BY <1>4, EmptySeq
<1> QED BY <1>1, <1>5, <1>6

LEMMA UsagesTyped ==
  ASSUME classes \in Sources
  PROVE  Usages(classes) \in Seq(UsageType)
<1> DEFINE S == Range(classes)
           of == [f \in S |-> FileUsages(f)]
<1>1. classes \in Seq(S)
  BY SigningAssumption DEF IsList
<1>2. of \in [S -> Seq(UsageType)]
  BY FileUsagesTyped
<1>3. Len(classes) \in Nat /\ DOMAIN classes = 1..Len(classes) /\ \A i \in DOMAIN classes : classes[i] \in S
  BY <1>1, LenProperties DEF Range
<1>4. [i \in DOMAIN classes |-> of[classes[i]]] = [i \in DOMAIN classes |-> FileUsages(classes[i])]
  BY <1>3
<1> HIDE DEF S, of
<1>5. FlattenSeq([i \in DOMAIN classes |-> of[classes[i]]]) \in Seq(UsageType)
  BY <1>1, <1>2, EachTyped
<1> QED BY <1>4, <1>5 DEF Usages

LEMMA CryptoMethodTyped ==
  ASSUME classes \in Sources, NEW class \in ClassNames
  PROVE  CryptoMethod(class) \in Seq(Method)
<1> DEFINE ms == ClassFile(class)[1].methods
           ps == {i \in DOMAIN ms : ms[i].name = ClassFile(class)[1].crypto}
<1>1. ms \in Seq(Method)
  BY ClassFileTyped
<1>2. CryptoMethod(class) = Those(ms, ps)
  BY DEF CryptoMethod, Select
<1> HIDE DEF ms, ps
<1> QED BY <1>1, <1>2, ThoseOf

-----------------------------------------------------------------------------
(* The score of a trace.                                                   *)

Weak(s) == \E i \in DOMAIN s : s[i].conf <= 50

LEMMA GreaterOf ==
  ASSUME NEW a \in Int, NEW b \in Int
  PROVE  Max({a, b}) \in {a, b} /\ Max({a, b}) >= a /\ Max({a, b}) >= b
<1> DEFINE m == IF a >= b THEN a ELSE b
<1>1. m \in {a, b} /\ \A y \in {a, b} : m >= y
  OBVIOUS
<1> HIDE DEF m
<1>2. \A x \in {a, b} : (\A y \in {a, b} : x >= y) => x = m
  BY <1>1
<1>3. Max({a, b}) = m
  BY <1>1, <1>2 DEF Max
<1> QED BY <1>1, <1>3

\* A share of at most the whole is at most the whole.
LEMMA ShareOf ==
  ASSUME NEW a \in Nat, NEW whole \in Nat \ {0}, NEW part \in 0..whole
  PROVE  (a * part) \div whole \in 0..a
<1> DEFINE q == (a * part) \div whole
<1>1. a * part \in Nat /\ a * part <= a * whole
  OBVIOUS
<1>2. q \in Int /\ whole * q <= a * part /\ a * part < whole * q + whole
  BY <1>1
<1> HIDE DEF q
<1>3. q >= 0
  BY <1>1, <1>2
<1>4. q <= a
  <2> SUFFICES ASSUME q >= a + 1 PROVE FALSE
    BY <1>2
  <2>1. whole * q >= whole * (a + 1)
    BY <1>2
  <2>2. whole * (a + 1) = a * whole + whole
    OBVIOUS
  <2> QED BY <1>1, <1>2, <2>1, <2>2
<1> QED BY <1>2, <1>3, <1>4 DEF q

\* A trace without parts, or with a weak one, is of little confidence.
LEMMA ScoreTyped ==
  ASSUME NEW found \in Seq(ComponentType), NEW D, NEW doubt \in Seq(D)
  PROVE  /\ Score(found, doubt) \in 1..100
         /\ found = <<>> \/ Weak(found) => Score(found, doubt) <= 50
<1> DEFINE S == {c.conf : c \in Range(found)}
           least == Min(S)
           n == Len(found)
           d == Len(doubt)
           x == 50 * n
           y == 100 * n - 40 * d
           cover == Max({x, y})
           share == (least * cover) \div (100 * n)
<1>1. Score(found, doubt) = IF found = <<>> THEN 10 ELSE Max({5, share})
  BY DEF Score
<1>2. n \in Nat /\ d \in Nat /\ DOMAIN found = 1..n
  BY LenProperties
<1>3. CASE found = <<>>
  BY <1>1, <1>3
<1>4. CASE found # <<>>
  <2>1. n # 0
    BY <1>2, <1>4, EmptySeq
  <2>2. \A i \in 1..n : found[i].conf \in 1..100 /\ found[i].conf \in S
    <3>1. \A i \in 1..n : found[i] \in ComponentType
      BY <1>2, ElementOfSeq
    <3> QED BY <1>2, <3>1 DEF ComponentType, Range
  <2>3. S \in SUBSET (1..100) /\ S # {}
    <3>1. \A c \in Range(found) : c.conf \in 1..100
      BY <1>2, <2>2 DEF Range
    <3>2. 1 \in 1..n
      BY <1>2, <2>1
    <3>3. found[1].conf \in S
      BY <2>2, <3>2
    <3> QED BY <3>1, <3>3
  <2> HIDE DEF S
  <2>4. least \in S /\ \A z \in S : least <= z
    BY <2>3, LeastIn
  <2>5. least \in 1..100
    BY <2>3, <2>4
  <2>6. Weak(found) => least <= 50
    <3> HIDE DEF least
    <3>1. \A c \in S : c <= 50 => least <= 50
      BY <2>3, <2>4, <2>5
    <3>2. \A i \in 1..n : found[i].conf \in S
      BY <2>2
    <3>3. Weak(found) => \E i \in 1..n : found[i].conf <= 50
      BY <1>2 DEF Weak
    <3> QED BY <3>1, <3>2, <3>3
  <2> HIDE DEF least, n, d
  <2>7. x \in Int /\ y \in Int /\ x >= 0 /\ x <= 100 * n /\ y <= 100 * n
    BY <1>2
  <2> HIDE DEF x, y
  <2>8. cover \in 0..(100 * n)
    <3>1. cover \in {x, y} /\ cover >= x
      BY <2>7, GreaterOf
    <3> HIDE DEF cover
    <3>2. cover \in Int /\ cover >= 0
      BY <2>7, <3>1
    <3>3. cover <= 100 * n
      BY <2>7, <3>1
    <3> QED BY <3>2, <3>3
  <2> HIDE DEF cover
  <2>9. share \in 0..least
    <3>1. 100 * n \in Nat \ {0} /\ least \in Nat
      BY <1>2, <2>1, <2>5
    <3> QED BY <2>8, <3>1, ShareOf
  <2> HIDE DEF share
  <2>10. Max({5, share}) \in {5, share} /\ Max({5, share}) >= 5
    <3> DEFINE five == 5
    <3>1. five \in Int /\ share \in Int
      BY <2>5, <2>9
    <3> HIDE DEF five
    <3>2. Max({five, share}) \in {five, share} /\ Max({five, share}) >= five
      BY <3>1, GreaterOf
    <3> QED BY <3>2 DEF five
  <2> DEFINE score == Max({5, share})
  <2>11. score \in 1..100 /\ (least <= 50 => score <= 50)
    <3>1. score \in {5, share} /\ score >= 5
      BY <2>10
    <3>2. share \in Int /\ share <= least
      BY <2>5, <2>9
    <3> HIDE DEF score
    <3> QED BY <2>5, <3>1, <3>2
  <2> QED BY <1>1, <1>4, <2>6, <2>11
<1> QED BY <1>3, <1>4

-----------------------------------------------------------------------------
(* The run.                                                                *)

IsTrace(t) ==
  /\ {"components", "conf", "unresolved"} \subseteq DOMAIN t
  /\ IsList(t.components) /\ t.conf \in Int

Honest(t) ==
  \/ t.conf < Threshold
  \/ t.unresolved = <<>> /\ \A c \in Range(t.components) : c.kind # "unknown"

Sound(t) ==
  IsTrace(t) /\ t.components \in Seq(ComponentType) /\ t.conf \in 1..100 /\ Honest(t)

\* While a use is traced, a part that is unknown is a weak one, and a doubt comes
\* with a weak part; so the trace that ends up with them is of little confidence.
Tracing ==
  /\ TracesTyped /\ DoubtIsLow
  /\ components \in Seq(Weighed)
  /\ unresolved # <<>> => Weak(components)
  /\ stage = "tracing" => usages # <<>>
  /\ stage # "done" => IsList(traces) /\ \A t \in Range(traces) : IsTrace(t)

LEMMA ListTyped ==
  ASSUME NEW T, NEW s \in Seq(T)
  PROVE  IsList(s) /\ Range(s) \subseteq T
<1> DEFINE R == Range(s)
<1>1. Len(s) \in Nat /\ DOMAIN s = 1..Len(s) /\ \A i \in 1..Len(s) : s[i] \in T
  BY LenProperties, ElementOfSeq
<1>2. s \in [1..Len(s) -> R]
  <2>1. s \in [1..Len(s) -> T]
    BY LenProperties
  <2>2. \A i \in 1..Len(s) : s[i] \in R
    BY <1>1 DEF Range
  <2> HIDE DEF R
  <2> QED BY <1>1, <2>1, <2>2
<1>3. R \subseteq T
  BY <1>1 DEF Range
<1> HIDE DEF R
<1>4. s \in Seq(R)
  BY <1>1, <1>2, ListOf
<1> QED BY <1>3, <1>4 DEF IsList, R

LEMMA Extended ==
  ASSUME NEW s, IsList(s), NEW v
  PROVE  /\ IsList(Append(s, v)) /\ Len(Append(s, v)) = Len(s) + 1
         /\ \A t \in Range(Append(s, v)) : t \in Range(s) \/ t = v
<1> DEFINE R == Range(s) T == R \cup {v} a == Append(s, v)
<1>1. s \in Seq(R)
  BY DEF IsList
<1>2. s \in Seq(T) /\ v \in T
  <2> HIDE DEF R
  <2>1. R \subseteq T
    OBVIOUS
  <2> HIDE DEF T
  <2> QED BY <1>1, <2>1, SeqMonotonic DEF T
<1> HIDE DEF T
<1>3. a \in Seq(T) /\ Len(a) = Len(s) + 1
  BY <1>2, AppendProperties
<1> HIDE DEF a, R
<1>4. IsList(a) /\ Range(a) \subseteq T
  BY <1>3, ListTyped
<1> QED BY <1>3, <1>4 DEF a, T, R

\* What is traced of a use is sound.
LEMMA TraceSound ==
  ASSUME NEW usage, NEW key, NEW found \in Seq(Weighed), NEW D, NEW doubt \in Seq(D),
         doubt # <<>> => found = <<>> \/ Weak(found)
  PROVE  Sound(Trace(usage, key, found, doubt))
<1> DEFINE t == Trace(usage, key, found, doubt)
           conf == Score(found, doubt)
<1>1. /\ DOMAIN t = {"algorithm", "components", "key", "method", "conf", "unresolved"}
      /\ t.components = found /\ t.conf = conf /\ t.unresolved = doubt
  BY DEF Trace
<1>2. found \in Seq(ComponentType)
  <2>1. Weighed \subseteq ComponentType
    BY DEF Weighed
  <2> QED BY <2>1, SeqMonotonic
<1>3. conf \in 1..100 /\ (found = <<>> \/ Weak(found) => conf <= 50)
  BY <1>2, ScoreTyped
<1>4. IsList(found) /\ Range(found) \subseteq Weighed
  BY ListTyped
<1>5. ASSUME NEW c \in Range(found), c.kind = "unknown" PROVE Weak(found)
  <2>1. c \in Weighed
    BY <1>4
  <2>2. c.conf <= 50
    BY <1>5, <2>1 DEF Weighed
  <2>3. PICK i \in DOMAIN found : c = found[i]
    BY DEF Range
  <2> QED BY <2>2, <2>3 DEF Weak
<1> HIDE DEF t, conf
<1>6. Honest(t)
  <2>1. CASE doubt # <<>> \/ \E c \in Range(found) : c.kind = "unknown"
    <3>1. conf <= 50
      BY <1>3, <1>5, <2>1
    <3> QED BY <1>1, <1>3, <3>1 DEF Honest, Threshold
  <2>2. CASE doubt = <<>> /\ \A c \in Range(found) : c.kind # "unknown"
    BY <1>1, <2>2 DEF Honest
  <2> QED BY <2>1, <2>2
<1>7. IsTrace(t)
  <2>1. conf \in Int
    BY <1>3
  <2>2. {"components", "conf", "unresolved"} \subseteq DOMAIN t
    BY <1>1
  <2> QED BY <1>1, <1>4, <2>1, <2>2 DEF IsTrace
<1> QED BY <1>1, <1>2, <1>3, <1>6, <1>7 DEF Sound, t

LEMMA SoundSoFar ==
  ASSUME Tracing, stage \in {"next", "tracing"}
  PROVE  IsList(traces) /\ \A t \in Range(traces) : Sound(t)
<1>1. IsList(traces) /\ \A t \in Range(traces) : IsTrace(t)
  BY DEF Tracing
<1>2. \A t \in Range(traces) : t.components \in Seq(ComponentType) /\ t.conf \in 1..100
  BY DEF Tracing, TracesTyped
<1>3. \A t \in Range(traces) : Honest(t)
  BY DEF Tracing, DoubtIsLow, Honest, Range
<1> QED BY <1>1, <1>2, <1>3 DEF Sound

\* Sound traces are all that the invariant asks of them.
LEMMA SoundIsTracing ==
  ASSUME IsList(traces)', (\A t \in Range(traces) : Sound(t))',
         (/\ classes \in Sources /\ usages \in Seq(UsageType) /\ todo \in Seq(ItemType)
          /\ components \in Seq(Weighed) /\ unresolved \in Seq(DoubtType)
          /\ unresolved # <<>> => Weak(components)
          /\ stage \in {"next", "tracing"} /\ (stage = "tracing" => usages # <<>>)
          /\ asked \in Nat \ {0} /\ retries \in 0..MaxRetries)'
  PROVE  Tracing'
<1>1. (components \in Seq(ComponentType))'
  <2>1. Weighed \subseteq ComponentType
    BY DEF Weighed
  <2> QED BY <2>1, SeqMonotonic
<1>2. (IsList(traces) /\ \A t \in Range(traces) :
         t.components \in Seq(ComponentType) /\ t.conf \in 1..100 /\ IsTrace(t) /\ Honest(t))'
  BY DEF Sound
<1>3. DoubtIsLow'
  BY <1>2 DEF DoubtIsLow, Honest, Range
<1>4. TracesTyped'
  BY <1>1, <1>2 DEF TracesTyped
<1> QED BY <1>2, <1>3, <1>4 DEF Tracing

LEMMA WeakOfBoth ==
  ASSUME NEW s \in Seq(Weighed), NEW t \in Seq(Weighed), Weak(s) \/ Weak(t)
  PROVE  Weak(s \o t)
<1>1. /\ Len(s) \in Nat /\ DOMAIN s = 1..Len(s) /\ Len(t) \in Nat /\ DOMAIN t = 1..Len(t)
      /\ s \o t \in Seq(Weighed) /\ Len(s \o t) = Len(s) + Len(t)
  BY LenProperties, ConcatProperties
<1>2. DOMAIN (s \o t) = 1..(Len(s) + Len(t))
  BY <1>1, LenProperties
<1>3. CASE Weak(s)
  <2>1. PICK i \in 1..Len(s) : s[i].conf <= 50
    BY <1>1, <1>3 DEF Weak
  <2>2. i \in DOMAIN (s \o t) /\ (s \o t)[i] = s[i]
    BY <1>1, <1>2, ConcatProperties
  <2> QED BY <2>1, <2>2 DEF Weak
<1>4. CASE Weak(t)
  <2>1. PICK i \in 1..Len(t) : t[i].conf <= 50
    BY <1>1, <1>4 DEF Weak
  <2> DEFINE k == Len(s) + i
  <2>2. k \in DOMAIN (s \o t) /\ k > Len(s) /\ k <= Len(s) + Len(t) /\ k - Len(s) = i
    BY <1>1, <1>2
  <2>3. (s \o t)[k] = t[i]
    BY <1>1, <2>2, ConcatProperties
  <2> QED BY <2>1, <2>2, <2>3 DEF Weak
<1> QED BY <1>3, <1>4

LEMMA HeadTyped ==
  ASSUME Tracing, usages # <<>>
  PROVE  /\ Head(usages) \in UsageType /\ Head(usages).class \in ClassNames
         /\ Tail(usages) \in Seq(UsageType) /\ classes \in Sources
<1>1. usages \in Seq(UsageType) /\ classes \in Sources
  BY DEF Tracing, TracesTyped
<1>2. Head(usages) \in UsageType /\ Tail(usages) \in Seq(UsageType)
  BY <1>1, HeadTailProperties
<1>3. Head(usages).class \in ClassNames
  BY <1>2 DEF UsageType, ClassNames
<1> QED BY <1>1, <1>2, <1>3

LEMMA UsageTypeStays ==
  ASSUME UNCHANGED classes
  PROVE  UsageType' = UsageType
  BY DEF UsageType

LEMMA TraceInitSound == TraceInit => Tracing
<1> SUFFICES ASSUME TraceInit PROVE Tracing
  OBVIOUS
<1>1. /\ classes \in Sources /\ usages = Usages(classes) /\ todo = <<>> /\ components = <<>>
      /\ unresolved = <<>> /\ traces = <<>> /\ stage = "next" /\ asked = 1 /\ retries = 0
  BY DEF TraceInit
<1>2. usages \in Seq(UsageType)
  BY <1>1, UsagesTyped
<1>3. /\ todo \in Seq(ItemType) /\ components \in Seq(Weighed)
      /\ components \in Seq(ComponentType) /\ unresolved \in Seq(DoubtType)
  BY <1>1, EmptySeq
<1>4. traces = <<>> /\ IsList(traces) /\ Range(traces) = {} /\ DOMAIN traces = {}
  BY <1>1, EmptySeq DEF IsList, Range
<1>5. MaxRetries \in Nat
  BY SigningAssumption
<1>6. TracesTyped
  BY <1>1, <1>2, <1>3, <1>4, <1>5 DEF TracesTyped
<1>7. DoubtIsLow
  BY <1>4 DEF DoubtIsLow
<1> QED BY <1>1, <1>3, <1>4, <1>6, <1>7 DEF Tracing

LEMMA BeginKeeps ==
  ASSUME Tracing, Begin
  PROVE  Tracing'
<1> DEFINE u == Head(usages)
           methods == CryptoMethod(u.class)
           m == methods[1]
           inputs == Inputs(m)
<1>1. stage = "next" /\ usages # <<>>
  BY DEF Begin
<1>2. UNCHANGED <<classes, components, unresolved, asked, retries>>
  BY DEF Begin
<1>3. /\ u \in UsageType /\ u.class \in ClassNames
      /\ Tail(usages) \in Seq(UsageType) /\ classes \in Sources
  BY <1>1, HeadTyped
<1>4. /\ usages \in Seq(UsageType) /\ todo \in Seq(ItemType) /\ components \in Seq(Weighed)
      /\ unresolved \in Seq(DoubtType) /\ (unresolved # <<>> => Weak(components))
      /\ asked \in Nat \ {0} /\ retries \in 0..MaxRetries
  BY DEF Tracing, TracesTyped
<1>5. IsList(traces) /\ \A t \in Range(traces) : Sound(t)
  BY <1>1, SoundSoFar
<1>6. UsageType' = UsageType
  BY <1>2, UsageTypeStays
<1>7. \/ usages' = Tail(usages) /\ stage' = "next" /\ UNCHANGED <<todo, traces>>
      \/ /\ traces' = Append(traces, LowConf(u))
         /\ usages' = Tail(usages) /\ stage' = "next" /\ UNCHANGED todo
      \/ /\ methods # <<>> /\ todo' = Items(inputs, m, 0)
         /\ stage' = "tracing" /\ UNCHANGED <<usages, traces>>
  BY DEF Begin
<1> HIDE DEF u, methods, m, inputs
<1>8. (/\ classes \in Sources /\ components \in Seq(Weighed) /\ unresolved \in Seq(DoubtType)
       /\ unresolved # <<>> => Weak(components)
       /\ asked \in Nat \ {0} /\ retries \in 0..MaxRetries)'
  BY <1>2, <1>3, <1>4 DEF Weak
<1>9. CASE usages' = Tail(usages) /\ stage' = "next" /\ UNCHANGED <<todo, traces>>
  <2>1. (IsList(traces) /\ \A t \in Range(traces) : Sound(t))'
    BY <1>5, <1>9
  <2>2. (/\ usages \in Seq(UsageType) /\ todo \in Seq(ItemType)
         /\ stage \in {"next", "tracing"} /\ (stage = "tracing" => usages # <<>>))'
    BY <1>3, <1>4, <1>6, <1>9
  <2> QED BY <1>8, <2>1, <2>2, SoundIsTracing
<1>10. CASE /\ traces' = Append(traces, LowConf(u))
            /\ usages' = Tail(usages) /\ stage' = "next" /\ UNCHANGED todo
  <2>1. Sound(LowConf(u))
    <3> DEFINE none == <<>> key == "" doubt == <<Doubt("", "input")>>
    <3>1. none \in Seq(Weighed) /\ none = <<>>
      BY EmptySeq
    <3>2. doubt \in Seq({Doubt("", "input")})
      OBVIOUS
    <3> HIDE DEF none, key, doubt
    <3>3. Sound(Trace(u, key, none, doubt))
      BY <3>1, <3>2, TraceSound
    <3> QED BY <3>3 DEF LowConf, none, key, doubt
  <2>2. (IsList(traces) /\ \A t \in Range(traces) : Sound(t))'
    BY <1>5, <1>10, <2>1, Extended
  <2>3. (/\ usages \in Seq(UsageType) /\ todo \in Seq(ItemType)
         /\ stage \in {"next", "tracing"} /\ (stage = "tracing" => usages # <<>>))'
    BY <1>3, <1>4, <1>6, <1>10
  <2> QED BY <1>8, <2>2, <2>3, SoundIsTracing
<1>11. CASE /\ methods # <<>> /\ todo' = Items(inputs, m, 0)
            /\ stage' = "tracing" /\ UNCHANGED <<usages, traces>>
  <2>1. methods \in Seq(Method)
    BY <1>3, CryptoMethodTyped DEF methods
  <2>2. m \in Method
    BY <1>11, <2>1, FirstOf DEF m
  <2>3. inputs \in Seq(Expr)
    BY <2>2, MethodHas DEF inputs
  <2>4. 0 \in 0..(ResolveDepth + 1)
    BY SigningAssumption
  <2>5. todo' \in Seq(ItemType)
    BY <1>11, <2>2, <2>3, <2>4, ItemsTyped
  <2>6. (IsList(traces) /\ \A t \in Range(traces) : Sound(t))'
    BY <1>5, <1>11
  <2>7. (/\ usages \in Seq(UsageType) /\ todo \in Seq(ItemType)
         /\ stage \in {"next", "tracing"} /\ (stage = "tracing" => usages # <<>>))'
    BY <1>1, <1>4, <1>6, <1>11, <2>5
  <2> QED BY <1>8, <2>6, <2>7, SoundIsTracing
<1> QED BY <1>7, <1>9, <1>10, <1>11

LEMMA StepKeeps ==
  ASSUME Tracing, Step
  PROVE  Tracing'
<1> DEFINE r == Resolve(Head(todo), Head(usages).class)
<1>1. stage = "tracing" /\ todo # <<>> /\ usages # <<>>
  BY DEF Step, Tracing
<1>2. UNCHANGED <<classes, usages, traces, stage, asked, retries>>
  BY DEF Step
<1>3. /\ todo' = r.push \o Tail(todo) /\ components' = components \o r.found
      /\ unresolved' = unresolved \o r.doubt
  BY DEF Step
<1>4. /\ classes \in Sources /\ usages \in Seq(UsageType) /\ todo \in Seq(ItemType)
      /\ components \in Seq(Weighed)
      /\ unresolved \in Seq(DoubtType) /\ (unresolved # <<>> => Weak(components))
      /\ asked \in Nat \ {0} /\ retries \in 0..MaxRetries
  BY DEF Tracing, TracesTyped
<1>5. IsList(traces) /\ \A t \in Range(traces) : Sound(t)
  BY <1>1, SoundSoFar
<1>6. Head(todo) \in ItemType /\ Tail(todo) \in Seq(ItemType)
  BY <1>1, <1>4, HeadTailProperties
<1>7. Head(usages).class \in ClassNames
  BY <1>1, HeadTyped
<1>8. IsResult(r)
  BY <1>4, <1>6, <1>7, ResolveTyped
<1> HIDE DEF r
<1>9. /\ r.push \in Seq(ItemType) /\ r.found \in Seq(Weighed) /\ r.doubt \in Seq(DoubtType)
      /\ r.doubt # <<>> => Weak(r.found)
  BY <1>8 DEF IsResult, Weak
<1>10. todo' \in Seq(ItemType) /\ components' \in Seq(Weighed) /\ unresolved' \in Seq(DoubtType)
  BY <1>3, <1>4, <1>6, <1>9, ConcatProperties
<1>11. Weak(components) \/ Weak(r.found) => Weak(components')
  BY <1>3, <1>4, <1>9, WeakOfBoth
<1>12. unresolved' # <<>> => unresolved # <<>> \/ r.doubt # <<>>
  BY <1>3, <1>4, <1>9, ConcatProperties
<1>13. UsageType' = UsageType
  BY <1>2, UsageTypeStays
<1>14. (/\ classes \in Sources /\ usages \in Seq(UsageType) /\ todo \in Seq(ItemType)
        /\ components \in Seq(Weighed) /\ unresolved \in Seq(DoubtType)
        /\ unresolved # <<>> => Weak(components)
        /\ stage \in {"next", "tracing"} /\ (stage = "tracing" => usages # <<>>)
        /\ asked \in Nat \ {0} /\ retries \in 0..MaxRetries)'
  BY <1>1, <1>2, <1>4, <1>9, <1>10, <1>11, <1>12, <1>13 DEF Weak
<1>15. (IsList(traces) /\ \A t \in Range(traces) : Sound(t))'
  BY <1>2, <1>5
<1> QED BY <1>14, <1>15, SoundIsTracing

LEMMA TracedKeeps ==
  ASSUME Tracing, Traced
  PROVE  Tracing'
<1> DEFINE u == Head(usages)
           t == Trace(u, CryptoMethod(u.class)[1].key, components, unresolved)
<1>1. stage = "tracing" /\ usages # <<>>
  BY DEF Traced, Tracing
<1>2. UNCHANGED <<classes, todo, asked, retries>>
  BY DEF Traced
<1>3. /\ traces' = Append(traces, t) /\ usages' = Tail(usages) /\ components' = <<>>
      /\ unresolved' = <<>> /\ stage' = "next"
  BY DEF Traced
<1>4. /\ classes \in Sources /\ todo \in Seq(ItemType)
      /\ components \in Seq(Weighed)
      /\ unresolved \in Seq(DoubtType) /\ (unresolved # <<>> => Weak(components))
      /\ asked \in Nat \ {0} /\ retries \in 0..MaxRetries
  BY DEF Tracing, TracesTyped
<1>5. IsList(traces) /\ \A x \in Range(traces) : Sound(x)
  BY <1>1, SoundSoFar
<1>6. Sound(t)
  BY <1>4, TraceSound
<1> HIDE DEF t, u
<1>7. (IsList(traces) /\ \A x \in Range(traces) : Sound(x))'
  BY <1>3, <1>5, <1>6, Extended
<1>8. usages' \in Seq(UsageType)'
  BY <1>1, <1>2, <1>3, HeadTyped, UsageTypeStays
<1>9. components' \in Seq(Weighed) /\ unresolved' \in Seq(DoubtType)
  BY <1>3, EmptySeq
<1>10. (/\ classes \in Sources /\ usages \in Seq(UsageType) /\ todo \in Seq(ItemType)
        /\ components \in Seq(Weighed) /\ unresolved \in Seq(DoubtType)
        /\ unresolved # <<>> => Weak(components)
        /\ stage \in {"next", "tracing"} /\ (stage = "tracing" => usages # <<>>)
        /\ asked \in Nat \ {0} /\ retries \in 0..MaxRetries)'
  BY <1>2, <1>3, <1>4, <1>8, <1>9
<1> QED BY <1>7, <1>10, SoundIsTracing

LEMMA Prefixed ==
  ASSUME NEW s, IsList(s), NEW t, IsList(t)
  PROVE  IsList(s \o t) /\ IsPrefix(s, s \o t)
<1> DEFINE R == Range(s) \cup Range(t) st == s \o t
<1>1. s \in Seq(R) /\ t \in Seq(R)
  BY ListInto
<1> HIDE DEF R
<1>2. /\ st \in Seq(R) /\ Len(st) = Len(s) + Len(t) /\ Len(s) \in Nat /\ Len(t) \in Nat
      /\ \A i \in 1..Len(s) + Len(t) : st[i] = IF i <= Len(s) THEN s[i] ELSE t[i - Len(s)]
  BY <1>1, ConcatProperties, LenProperties
<1> HIDE DEF st
<1>3. IsList(st)
  BY <1>2, ListTyped
<1>4. SubSeq(s, 1, Len(s)) = SubSeq(st, 1, Len(s))
  <2>1. SubSeq(s, 1, Len(s)) = [i \in 1..Len(s) |-> s[i]]
    BY <1>1, <1>2
  <2>2. SubSeq(st, 1, Len(s)) = [i \in 1..Len(s) |-> st[i]]
    BY <1>2
  <2>3. \A i \in 1..Len(s) : st[i] = s[i]
    BY <1>2
  <2> QED BY <2>1, <2>2, <2>3
<1>5. Len(s) <= Len(st)
  BY <1>2
<1> QED BY <1>3, <1>4, <1>5 DEF IsPrefix, st

\* What the escalation keeps: the traces are still traces.
Asked ==
  /\ classes \in Sources /\ usages \in Seq(UsageType) /\ todo \in Seq(ItemType)
  /\ components \in Seq(ComponentType) /\ components \in Seq(Weighed)
  /\ unresolved \in Seq(DoubtType) /\ (unresolved # <<>> => Weak(components))
  /\ asked \in Nat \ {0} /\ retries \in 0..MaxRetries

Traces == IsList(traces) /\ \A t \in Range(traces) : IsTrace(t)

LEMMA TracingGives == Tracing => Asked /\ (stage # "done" => Traces)
  BY DEF Tracing, TracesTyped, Asked, Traces

LEMMA AskedIsTracing ==
  ASSUME Asked', (stage \in {"escalating", "done"})', (stage # "done" => Traces)'
  PROVE  Tracing'
  BY DEF Asked, Tracing, TracesTyped, DoubtIsLow, Traces

LEMMA AskedStays ==
  ASSUME Asked, UNCHANGED <<classes, usages, todo, components, unresolved>>,
         asked' \in Nat \ {0}, retries' \in 0..MaxRetries
  PROVE  Asked'
<1>1. UsageType' = UsageType
  BY UsageTypeStays
<1> QED BY <1>1 DEF Asked, Weak

\* An answer adds parts to a trace, and does not make it less sure.
LEMMA MergedAdds ==
  ASSUME NEW t, IsTrace(t), NEW answer \in Answers
  PROVE  /\ IsTrace(Merged(t, answer))
         /\ IsPrefix(t.components, Merged(t, answer).components)
         /\ t.conf <= Merged(t, answer).conf
<1> DEFINE ps == {i \in DOMAIN answer.inputs :
                    Doubt(answer.inputs[i].name, "unknown") \in Range(t.unresolved)}
           named == Those(answer.inputs, ps)
           new == [i \in DOMAIN named |-> Component(named[i].kind, named[i].name, answer.conf)]
           all == t.components \o new
           conf == Max({t.conf, answer.conf})
           rest == Select(t.unresolved, LAMBDA v :
                     v \notin {Doubt(c.name, "unknown") : c \in Range(all)})
           merged == Merged(t, answer)
<1>1. IsList(answer.inputs) /\ answer.conf \in Int
  BY SigningAssumption
<1>2. t.conf \in Int /\ IsList(t.components)
      /\ {"components", "conf", "unresolved"} \subseteq DOMAIN t
  BY DEF IsTrace
<1>3. merged = [t EXCEPT !.components = all, !.conf = conf, !.unresolved = rest]
  BY DEF Merged, Select
<1>4. IsList(named)
  <2>1. named \in Seq(Range(answer.inputs))
    BY <1>1, ThoseOf DEF IsList
  <2> HIDE DEF named
  <2> QED BY <2>1, ListTyped
<1> HIDE DEF named
<1>5. IsList(new)
  <2> DEFINE n == Len(named)
  <2>1. n \in Nat /\ DOMAIN named = 1..n
    BY <1>4, LenProperties DEF IsList
  <2> DEFINE T == {Component(named[i].kind, named[i].name, answer.conf) : i \in 1..n}
  <2>2. new \in [1..n -> T]
    BY <2>1
  <2> HIDE DEF new, T
  <2>3. new \in Seq(T)
    BY <2>1, <2>2, ListOf
  <2> QED BY <2>3, ListTyped
<1> HIDE DEF new
<1>6. IsList(all) /\ IsPrefix(t.components, all)
  BY <1>2, <1>5, Prefixed
<1>7. conf \in Int /\ t.conf <= conf
  <2> DEFINE a == t.conf b == answer.conf
  <2>1. a \in Int /\ b \in Int
    BY <1>1, <1>2
  <2> HIDE DEF a, b
  <2>2. Max({a, b}) \in {a, b} /\ Max({a, b}) >= a
    BY <2>1, GreaterOf
  <2>3. Max({a, b}) \in Int /\ a <= Max({a, b})
    BY <2>1, <2>2
  <2> QED BY <2>3 DEF a, b
<1> HIDE DEF all, conf, rest, merged
<1>8. merged.components = all /\ merged.conf = conf /\ DOMAIN merged = DOMAIN t
  BY <1>2, <1>3
<1>9. IsTrace(merged)
  BY <1>2, <1>6, <1>7, <1>8 DEF IsTrace
<1> QED BY <1>6, <1>7, <1>8, <1>9 DEF merged

\* Every action of the escalation but Answered leaves the traces alone.
LEMMA EscalationKeeps ==
  ASSUME Tracing, Escalate \/ Passed \/ NotAnswered \/ RateLimited \/ Captured
  PROVE  Tracing'
<1>1. Asked /\ (stage # "done" => Traces)
  BY TracingGives
<1>2. asked \in Nat \ {0} /\ retries \in 0..MaxRetries /\ MaxRetries \in Nat
  BY <1>1, SigningAssumption DEF Asked
<1>3. UNCHANGED <<classes, usages, todo, components, unresolved>>
  BY DEF Escalate, Passed, NotAnswered, RateLimited, Captured
<1>4. asked' \in Nat \ {0}
  <2>1. asked' = asked \/ asked' = asked + 1
    BY DEF Escalate, Passed, NotAnswered, RateLimited, Captured
  <2> QED BY <1>2, <2>1
<1>5. retries' \in 0..MaxRetries
  <2>1. CASE Escalate \/ Passed \/ Captured
    BY <1>2, <2>1 DEF Escalate, Passed, Captured
  <2>2. CASE NotAnswered
    BY <1>2, <2>2 DEF NotAnswered
  <2>3. CASE RateLimited
    <3>1. retries < MaxRetries /\ retries' = retries + 1
      BY <2>3 DEF RateLimited
    <3> QED BY <1>2, <3>1
  <2> QED BY <2>1, <2>2, <2>3
<1>6. Asked'
  BY <1>1, <1>3, <1>4, <1>5, AskedStays
<1>7. CASE Captured
  <2>1. stage' = "done"
    BY <1>7 DEF Captured
  <2> QED BY <1>6, <2>1, AskedIsTracing
<1>8. CASE Escalate \/ Passed \/ NotAnswered \/ RateLimited
  <2>1. stage \in {"next", "escalating"} /\ stage' = "escalating" /\ traces' = traces
    BY <1>8 DEF Escalate, Passed, NotAnswered, RateLimited, Asking
  <2>2. Traces'
    BY <1>1, <2>1 DEF Traces
  <2> QED BY <1>6, <2>1, <2>2, AskedIsTracing
<1> QED BY <1>7, <1>8

LEMMA TraceStays ==
  ASSUME NEW t, IsTrace(t)
  PROVE  IsPrefix(t.components, t.components) /\ t.conf <= t.conf
<1>1. t.conf \in Int /\ IsList(t.components)
  BY DEF IsTrace
<1>2. Len(t.components) \in Nat
  BY <1>1, LenProperties DEF IsList
<1> QED BY <1>1, <1>2 DEF IsPrefix

\* The trace that is asked about is the only one that changes, and it was in doubt.
LEMMA AnsweredAdds ==
  ASSUME Tracing, Answered
  PROVE  /\ Traces' /\ DOMAIN traces' = DOMAIN traces
         /\ \A i \in DOMAIN traces :
              /\ traces[i].conf >= Threshold => traces'[i] = traces[i]
              /\ IsPrefix(traces[i].components, traces'[i].components)
              /\ traces[i].conf <= traces'[i].conf
<1>1. stage = "escalating" /\ asked <= Len(traces) /\ Doubtful(traces[asked])
  BY DEF Answered, Asking
<1>2. IsList(traces) /\ \A t \in Range(traces) : IsTrace(t)
  BY <1>1 DEF Tracing
<1>3. PICK answer \in Answers : traces' = [traces EXCEPT ![asked] = Merged(@, answer)]
  BY DEF Answered
<1> DEFINE n == Len(traces) merged == Merged(traces[asked], answer)
<1>4. n \in Nat /\ DOMAIN traces = 1..n /\ traces = [i \in 1..n |-> traces[i]]
  BY <1>2, LenProperties DEF IsList
<1>5. asked \in 1..n
  BY <1>1, <1>4 DEF Tracing, TracesTyped
<1>6. \A i \in 1..n : IsTrace(traces[i])
  BY <1>2, <1>4 DEF Range
<1>7. /\ IsTrace(merged) /\ IsPrefix(traces[asked].components, merged.components)
      /\ traces[asked].conf <= merged.conf
  BY <1>5, <1>6, MergedAdds
<1>8. ~(traces[asked].conf >= Threshold)
  <2>1. traces[asked].conf \in Int
    BY <1>5, <1>6 DEF IsTrace
  <2>2. traces[asked].conf < Threshold
    BY <1>1 DEF Doubtful
  <2> QED BY <2>1, <2>2 DEF Threshold
<1>9. /\ DOMAIN traces' = 1..n /\ traces' = [i \in 1..n |-> traces'[i]]
      /\ traces'[asked] = merged /\ \A i \in 1..n : i # asked => traces'[i] = traces[i]
  BY <1>3, <1>4, <1>5
<1> HIDE DEF n, merged
<1>10. \A i \in 1..n : IsTrace(traces'[i])
  BY <1>6, <1>7, <1>9
<1>11. Traces'
  <2> DEFINE R == Range(traces')
  <2>1. \A t \in R : IsTrace(t)
    BY <1>9, <1>10 DEF Range
  <2>2. \A i \in 1..n : traces'[i] \in R
    BY <1>9 DEF Range
  <2> HIDE DEF R
  <2>3. traces' \in [1..n -> R]
    BY <1>9, <2>2
  <2>4. traces' \in Seq(R)
    BY <1>4, <2>3, ListOf DEF n
  <2> QED BY <2>1, <2>4 DEF Traces, IsList, R
<1>12. ASSUME NEW i \in 1..n
       PROVE  /\ traces[i].conf >= Threshold => traces'[i] = traces[i]
              /\ IsPrefix(traces[i].components, traces'[i].components)
              /\ traces[i].conf <= traces'[i].conf
  <2>1. CASE i = asked
    BY <1>7, <1>8, <1>9, <2>1
  <2>2. CASE i # asked
    <3>1. traces'[i] = traces[i] /\ IsTrace(traces[i])
      BY <1>6, <1>9, <2>2
    <3> QED BY <3>1, TraceStays
  <2> QED BY <2>1, <2>2
<1> QED BY <1>4, <1>9, <1>11, <1>12 DEF n

LEMMA AnsweredKeeps ==
  ASSUME Tracing, Answered
  PROVE  Tracing'
<1>1. Asked /\ asked \in Nat \ {0} /\ MaxRetries \in Nat
  BY TracingGives, SigningAssumption DEF Asked
<1>2. /\ UNCHANGED <<classes, usages, todo, components, unresolved, stage>>
      /\ asked' = asked + 1 /\ retries' = 0 /\ stage = "escalating"
  BY DEF Answered, Asking
<1>3. asked' \in Nat \ {0} /\ retries' \in 0..MaxRetries
  BY <1>1, <1>2
<1>4. Asked'
  BY <1>1, <1>2, <1>3, AskedStays
<1> QED BY <1>2, <1>4, AnsweredAdds, AskedIsTracing

LEMMA TracingNext == Tracing /\ [TraceNext]_traceVars => Tracing'
<1> SUFFICES ASSUME Tracing, [TraceNext]_traceVars PROVE Tracing'
  OBVIOUS
<1>1. CASE Begin
  BY <1>1, BeginKeeps
<1>2. CASE Step
  BY <1>2, StepKeeps
<1>3. CASE Traced
  BY <1>3, TracedKeeps
<1>4. CASE Escalate \/ Passed \/ NotAnswered \/ RateLimited \/ Captured
  BY <1>4, EscalationKeeps
<1>5. CASE Answered
  BY <1>5, AnsweredKeeps
<1>6. CASE UNCHANGED traceVars
  <2>1. UsageType' = UsageType
    BY <1>6, UsageTypeStays DEF traceVars
  <2> QED BY <1>6, <2>1 DEF traceVars, Tracing, TracesTyped, DoubtIsLow, Weak
<1> QED BY <1>1, <1>2, <1>3, <1>4, <1>5, <1>6 DEF TraceNext

\* For every app, every order of its files and every answer: each use of
\* cryptography is of a class of the app, the chain of names that is followed
\* stays within its bound, and each part found has a kind of the IR and a
\* confidence from 1 to 100, as has each trace until somebody is asked.
THEOREM TracesTypeCorrect == TraceSpec => []TracesTyped
<1>1. Tracing => TracesTyped
  BY DEF Tracing
<1> QED BY <1>1, TraceInitSound, TracingNext, PTL DEF TraceSpec

\* For every app: what static analysis could not resolve, or not classify, keeps
\* the trace below the threshold of the LLM.
THEOREM DoubtStaysLow == TraceSpec => []DoubtIsLow
<1>1. Tracing => DoubtIsLow
  BY DEF Tracing
<1> QED BY <1>1, TraceInitSound, TracingNext, PTL DEF TraceSpec

LEMMA EscalationStep ==
  ASSUME Tracing, [TraceNext]_traceVars, stage = "escalating", stage' = "escalating"
  PROVE  \A i \in DOMAIN traces :
           /\ traces[i].conf >= Threshold => traces'[i] = traces[i]
           /\ IsPrefix(traces[i].components, traces'[i].components)
           /\ traces[i].conf <= traces'[i].conf
<1>1. CASE Answered
  BY <1>1, AnsweredAdds
<1>2. CASE UNCHANGED traces
  <2>1. \A i \in DOMAIN traces : IsTrace(traces[i])
    BY DEF Tracing, Range
  <2> QED BY <1>2, <2>1, TraceStays
<1>3. CASE Begin \/ Step \/ Traced \/ Escalate \/ Captured
  BY <1>3 DEF Begin, Step, Traced, Escalate, Captured
<1>4. CASE Passed \/ NotAnswered \/ RateLimited \/ UNCHANGED traceVars
  BY <1>2, <1>4 DEF Passed, NotAnswered, RateLimited, traceVars
<1> QED BY <1>1, <1>3, <1>4 DEF TraceNext

\* Whatever the LLM says: a trace that static analysis is sure of stays as it is,
\* and every other keeps the parts it had, in their order, and gets no less sure.
THEOREM EscalationOnlyAdds == TraceSpec => EscalationAdds
<1>1. Tracing /\ [TraceNext]_traceVars =>
        [stage = "escalating" /\ stage' = "escalating" =>
           \A i \in DOMAIN traces :
             /\ traces[i].conf >= Threshold => traces'[i] = traces[i]
             /\ IsPrefix(traces[i].components, traces'[i].components)
             /\ traces[i].conf <= traces'[i].conf]_traceVars
  BY EscalationStep
<1> QED BY <1>1, TraceInitSound, TracingNext, PTL DEF TraceSpec, EscalationAdds

-----------------------------------------------------------------------------
(* A framed protocol as it is scanned.                                     *)

\* What is taken from a list of different things is a list of different things.
LEMMA ThoseDiffer ==
  ASSUME NEW S, NEW s \in Seq(S), IsInjective(s), NEW ps
  PROVE  IsInjective(Those(s, ps))
<1> DEFINE n == Len(s)
           Upto(i) == {s[k] : k \in 1..i}
           Y == {p \in Nat \X Seq(S) : IsInjective(p[2]) /\ Range(p[2]) \subseteq Upto(p[1])}
<1>1. n \in Nat /\ DOMAIN s = 1..n /\ \A i \in 1..n : s[i] \in S
  BY LenProperties, ElementOfSeq
<1>2. PICK u : TakenUpto(u, s, ps, S)
  BY <1>1, ThoseUpto
<1>3. /\ Those(s, ps) = u[n] /\ u[0] = <<>>
      /\ \A i \in 1..n : u[i] = IF i \in ps THEN Append(u[i - 1], s[i]) ELSE u[i - 1]
      /\ \A i \in 0..n : u[i] \in Seq(S)
  BY <1>2 DEF TakenUpto
<1> HIDE DEF n
<1> DEFINE v == [i \in 0..n |-> <<i, u[i]>>]
<1>4. v[0] \in Y
  <2> DEFINE x == u[0] p == <<0, x>>
  <2>1. v[0] = p
    BY <1>1
  <2>2. x \in Seq(S) /\ x = <<>>
    BY <1>1, <1>3
  <2>3. IsInjective(x) /\ Range(x) = {}
    BY <2>2 DEF IsInjective, Range
  <2> HIDE DEF x, v, Upto
  <2>4. p \in Nat \X Seq(S) /\ p[1] = 0 /\ p[2] = x
    BY <2>2
  <2> HIDE DEF p
  <2> QED BY <2>1, <2>3, <2>4
<1>5. ASSUME NEW i \in 1..n, v[i - 1] \in Y PROVE v[i] \in Y
  <2> DEFINE w == u[i - 1]
  <2>1. /\ i - 1 \in 0..n /\ i \in 0..n /\ w \in Seq(S) /\ u[i] \in Seq(S)
        /\ v[i - 1] = <<i - 1, w>> /\ v[i] = <<i, u[i]>>
    BY <1>1, <1>3
  <2>2. IsInjective(w) /\ Range(w) \subseteq Upto(i - 1)
    <3> HIDE DEF v, Upto, w
    <3> QED BY <1>5, <2>1
  <2>3. Upto(i - 1) \subseteq Upto(i) /\ s[i] \in Upto(i)
    BY <1>1
  <2>4. s[i] \notin Upto(i - 1)
    BY <1>1 DEF IsInjective
  <2> HIDE DEF Upto, v, w
  <2>5. IsInjective(u[i]) /\ Range(u[i]) \subseteq Upto(i)
    <3>1. CASE i \in ps
      <4> DEFINE a == Append(w, s[i]) m == Len(w)
      <4>1. u[i] = a /\ s[i] \in S
        BY <1>1, <1>3, <3>1 DEF w
      <4>2. /\ m \in Nat /\ DOMAIN w = 1..m /\ DOMAIN a = 1..(m + 1)
            /\ \A k \in 1..m : a[k] = w[k]
            /\ a[m + 1] = s[i]
        BY <2>1, <4>1, LenProperties, AppendProperties
      <4> HIDE DEF a, m
      <4>3. \A k \in 1..m : w[k] \in Range(w)
        BY <4>2 DEF Range
      <4>4. \A k \in 1..m : a[k] # a[m + 1]
        BY <2>2, <2>4, <4>2, <4>3
      <4>5. ASSUME NEW j \in 1..(m + 1), NEW k \in 1..(m + 1), a[j] = a[k] PROVE j = k
        <5>1. (j \in 1..m \/ j = m + 1) /\ (k \in 1..m \/ k = m + 1)
          BY <4>2
        <5>2. CASE j \in 1..m /\ k \in 1..m
          BY <2>2, <4>2, <4>5, <5>2 DEF IsInjective
        <5>3. CASE j = m + 1 \/ k = m + 1
          BY <4>4, <4>5, <5>1, <5>3
        <5> QED BY <5>1, <5>2, <5>3
      <4>6. \A k \in 1..(m + 1) : a[k] \in Upto(i)
        <5>1. \A k \in 1..(m + 1) : k \in 1..m \/ k = m + 1
          BY <4>2
        <5> QED BY <2>2, <2>3, <4>2, <4>3, <5>1
      <4> QED BY <4>1, <4>2, <4>5, <4>6 DEF IsInjective, Range
    <3>2. CASE i \notin ps
      <4>1. u[i] = w
        BY <1>3, <3>2 DEF w
      <4> QED BY <2>2, <2>3, <4>1
    <3> QED BY <3>1, <3>2
  <2> QED BY <2>1, <2>5
<1>6. v[n] \in Y
  <2> HIDE DEF v, Y
  <2>1. \A i \in 0..n : v[i] \in Y
    BY <1>1, <1>4, <1>5, Climb
  <2> QED BY <1>1, <2>1
<1>7. v[n] = <<n, u[n]>>
  BY <1>1
<1> HIDE DEF v, Upto
<1> QED BY <1>3, <1>6, <1>7

\* Of files with one stem the later is kept, in the place of the first.
LEMMA ClassTextsTyped ==
  ASSUME NEW fs, IsList(fs)
  PROVE  ClassTexts(fs) \in Seq(Range(fs))
<1> DEFINE n == Len(fs)
           Same(i) == {j \in DOMAIN fs : fs[j].stem = fs[i].stem}
           places == [i \in DOMAIN fs |-> i]
           first == Select(places, LAMBDA i : i = Min(Same(i)))
           R == Range(fs)
           texts == [k \in DOMAIN first |-> fs[Max(Same(first[k]))]]
<1>1. n \in Nat /\ DOMAIN fs = 1..n /\ \A i \in 1..n : fs[i] \in R
  BY LenProperties DEF IsList, Range
<1>2. places \in Seq(1..n)
  <2>1. places \in [1..n -> 1..n]
    BY <1>1
  <2> HIDE DEF places
  <2> QED BY <1>1, <2>1, ListOf
<1>3. first \in Seq(1..n)
  <2> HIDE DEF places, Same
  <2> QED BY <1>2, ThoseOf DEF Select
<1>4. ClassTexts(fs) = texts
  BY DEF ClassTexts, Select
<1>5. ASSUME NEW i \in 1..n PROVE Max(Same(i)) \in 1..n
  <2>1. Same(i) \in SUBSET (1..n) /\ Same(i) # {}
    BY <1>1
  <2> HIDE DEF Same
  <2> QED BY <1>1, <2>1, MaxIn
<1> HIDE DEF first, Same, R
<1>6. /\ Len(first) \in Nat /\ DOMAIN first = 1..Len(first)
      /\ \A k \in 1..Len(first) : first[k] \in 1..n
  BY <1>3, LenProperties, ElementOfSeq
<1>7. texts \in [1..Len(first) -> R]
  BY <1>1, <1>5, <1>6
<1> HIDE DEF texts
<1> QED BY <1>4, <1>6, <1>7, ListOf DEF R

\* A part of a frame as it is written, and as it stands in the app.
PartType == [kind: PartKinds, value: Byte]
RawPart == [kind: PartKinds \cup {"unread"}, value: Int]
HeaderType == [parts: Seq(RawPart), appends: BOOLEAN]

LEMMA ClassFileHas ==
  ASSUME NEW f, IsClassFile(f)
  PROVE  /\ \A x \in DOMAIN f.consts : f.consts[x].n \in Int
         /\ f.headers \in Seq(HeaderType) /\ f.ctor.op.n \in Int
         /\ IsList(f.ctor.items) /\ \A e \in Range(f.ctor.items) : e.n \in Int
  BY DEF IsClassFile, HeaderType, RawPart

LEMMA Low8Typed ==
  ASSUME NEW n \in Int
  PROVE  Low8(n) \in Byte
<1>1. n % 256 \in 0..255
  OBVIOUS
<1> QED BY <1>1 DEF Low8, Byte

\* A constant is a byte, wherever it is looked up, or it is not read.
LEMMA ConstByteTyped ==
  ASSUME NEW S, NEW texts \in Seq(S), \A f \in S : IsClassFile(f), NEW e, e.n \in Int
  PROVE  ConstByte(texts, e) \in Byte \cup {Unread}
<1> DEFINE found == Lookup(texts, e.class, e.name)
           Of(is) == IF \E c \in found : c.is = is
                     THEN Low8((CHOOSE c \in found : c.is = is).n) ELSE Unread
<1>1. \A c \in found : c.n \in Int
  <2>1. Range(texts) \subseteq S
    BY ListTyped
  <2>2. ASSUME NEW f \in Range(texts), NEW name \in DOMAIN f.consts
        PROVE  f.consts[name].n \in Int
    BY <2>1, ClassFileHas
  <2> QED BY <2>2 DEF Lookup
<1> HIDE DEF found
<1>2. ASSUME NEW is PROVE Of(is) \in Byte \cup {Unread}
  <2>1. CASE \E c \in found : c.is = is
    <3> DEFINE c == CHOOSE c \in found : c.is = is
    <3>1. c \in found
      BY <2>1
    <3>2. Of(is) = Low8(c.n)
      BY <2>1
    <3> HIDE DEF c, Of
    <3> QED BY <1>1, <3>1, <3>2, Low8Typed
  <2> QED BY <2>1
<1>3. ConstByte(texts, e) =
        CASE e.is = "number"   -> Low8(e.n)
          [] e.is = "hex"      -> Low8(e.n)
          [] e.is = "const"    -> Of("int")
          [] e.is = "hexconst" -> Of("text")
          [] OTHER             -> Unread
  BY DEF ConstByte, found
<1> HIDE DEF Of
<1>4. Low8(e.n) \in Byte /\ Of("int") \in Byte \cup {Unread} /\ Of("text") \in Byte \cup {Unread}
  BY <1>2, Low8Typed
<1> QED BY <1>3, <1>4

\* The bytes of a frame: the parts of the header that was read, and the payload.
LEMMA FrameTyped ==
  ASSUME NEW base, IsClassFile(base), \E i \in DOMAIN base.headers : FrameHeader(base.headers[i])
  PROVE  FrameOf(base) \in Seq(PartType)
<1> DEFINE hs == base.headers
           ps == {i \in DOMAIN hs : FrameHeader(hs[i])}
           T == {h \in HeaderType : FrameHeader(h)}
           read == Those(hs, ps)
           parts == read[1].parts
           bytes == [i \in DOMAIN parts |-> [parts[i] EXCEPT !.value = Low8(@)]]
           payload == [kind |-> "payload", value |-> 0]
<1>1. hs \in Seq(HeaderType)
  BY ClassFileHas
<1>2. \E j : j \in DOMAIN hs \cap ps
  OBVIOUS
<1>3. \A i \in DOMAIN hs \cap ps : hs[i] \in T
  BY <1>1, LenProperties, ElementOfSeq
<1>4. FrameOf(base) = Append(bytes, payload)
  BY DEF FrameOf, Select
<1> HIDE DEF ps, T, hs
<1>5. read \in Seq(T) /\ read # <<>>
  BY <1>1, <1>2, <1>3, ThoseTyped, ThoseSome
<1> HIDE DEF read
<1>6. read[1] \in T
  BY <1>5, FirstOf
<1>7. parts \in Seq(RawPart) /\ Count(parts, "unread") = 0
  BY <1>6 DEF T, HeaderType, FrameHeader
<1> HIDE DEF parts
<1>8. /\ Len(parts) \in Nat /\ DOMAIN parts = 1..Len(parts)
      /\ \A i \in 1..Len(parts) : parts[i] \in RawPart
  BY <1>7, LenProperties, ElementOfSeq
<1>9. \A i \in 1..Len(parts) : parts[i].kind # "unread"
  <2> DEFINE U == {i \in DOMAIN parts : parts[i].kind = "unread"}
  <2>1. Cardinality(U) = 0
    BY <1>7 DEF Count
  <2>2. IsFiniteSet(1..Len(parts)) /\ U \in SUBSET (1..Len(parts))
    <3> DEFINE n == Len(parts)
    <3>1. n \in Int /\ U \in SUBSET (1..n)
      BY <1>8
    <3> HIDE DEF n, U
    <3>2. IsFiniteSet(1..n)
      BY <3>1, FS_Interval
    <3> QED BY <3>1, <3>2 DEF n
  <2> HIDE DEF U
  <2>3. U = {}
    BY <2>1, <2>2, FS_Subset, FS_EmptySet
  <2> QED BY <1>8, <2>3 DEF U
<1>10. ASSUME NEW i \in 1..Len(parts)
       PROVE  [parts[i] EXCEPT !.value = Low8(@)] \in PartType
  <2> DEFINE p == parts[i]
  <2>1. p \in RawPart /\ p.kind # "unread"
    BY <1>8, <1>9
  <2> HIDE DEF p
  <2>2. Low8(p.value) \in Byte
    BY <2>1, Low8Typed DEF RawPart
  <2>3. [p EXCEPT !.value = Low8(@)] \in PartType
    BY <2>1, <2>2 DEF RawPart, PartType
  <2> QED BY <2>3 DEF p
<1>11. bytes \in [1..Len(parts) -> PartType]
  BY <1>8, <1>10
<1> HIDE DEF bytes
<1>12. bytes \in Seq(PartType)
  BY <1>8, <1>11, ListOf
<1>13. payload \in PartType
  BY DEF PartType, PartKinds, Byte
<1> HIDE DEF payload
<1> QED BY <1>4, <1>12, <1>13, AppendProperties

\* A command that can be sent: its opcode is a byte, its payload numbers.
IsCommand(c) ==
  c.opcode \in Byte /\ IsList(c.payload) /\ \A x \in Range(c.payload) : x.n \in Int

\* One command for a class.
Apart(s) == \A i, j \in DOMAIN s : s[i].class = s[j].class => i = j

LEMMA CommandTyped ==
  ASSUME NEW S, NEW texts \in Seq(S), \A f \in S : IsClassFile(f), NEW base, NEW f \in S,
         ConstByte(texts, f.ctor.op) # Unread
  PROVE  IsCommand(Command(texts, base, f)) /\ Command(texts, base, f).class = f.stem
<1> DEFINE c == Command(texts, base, f)
           none == <<>>
           items == IF f.ctor.payload = "array" THEN f.ctor.items ELSE none
           Of(e) == PayloadItem(texts, f.ctor.params, e)
           payload == [i \in DOMAIN items |-> Of(items[i])]
<1>1. c.class = f.stem /\ c.opcode = ConstByte(texts, f.ctor.op) /\ c.payload = payload
  BY DEF Command
<1>2. f.ctor.op.n \in Int /\ IsList(f.ctor.items) /\ \A e \in Range(f.ctor.items) : e.n \in Int
  BY ClassFileHas
<1>3. ConstByte(texts, f.ctor.op) \in Byte
  BY <1>2, ConstByteTyped
<1>4. IsList(items) /\ \A e \in Range(items) : e.n \in Int
  <2>1. IsList(none) /\ Range(none) = {}
    BY EmptySeq DEF IsList, Range
  <2> HIDE DEF none
  <2> QED BY <1>2, <2>1
<1> HIDE DEF items
<1>5. ASSUME NEW e, e.n \in Int PROVE Of(e).n \in Int
  <2> DEFINE b == ConstByte(texts, e)
  <2>1. b \in Int
    <3>1. b \in Byte \cup {Unread}
      BY <1>5, ConstByteTyped
    <3> HIDE DEF b
    <3> QED BY <3>1 DEF Byte, Unread
  <2>2. Of(e) = CASE b # Unread                                   -> [is |-> "value", n |-> b]
                  [] e.is = "name" /\ e.name \in f.ctor.params    -> [is |-> "param", n |-> 0]
                  [] e.is = "unset" /\ e.name \in f.ctor.params   -> [is |-> "default", n |-> e.n]
                  [] OTHER                                        -> [is |-> "unknown", n |-> 0]
    BY DEF PayloadItem
  <2> HIDE DEF b, Of
  <2>3. Of(e).n \in {b, 0, e.n}
    BY <2>2
  <2> QED BY <1>5, <2>1, <2>3
<1> HIDE DEF Of
<1>6. /\ Len(items) \in Nat /\ DOMAIN items = 1..Len(items)
      /\ \A i \in 1..Len(items) : items[i] \in Range(items)
  BY <1>4, LenProperties DEF IsList, Range
<1> DEFINE P == {Of(items[i]) : i \in 1..Len(items)}
<1>7. \A x \in P : x.n \in Int
  BY <1>4, <1>5, <1>6
<1>8. payload \in [1..Len(items) -> P]
  BY <1>6
<1> HIDE DEF payload, P
<1>9. payload \in Seq(P)
  BY <1>6, <1>8, ListOf
<1>10. IsList(payload) /\ \A x \in Range(payload) : x.n \in Int
  BY <1>7, <1>9, ListTyped
<1> HIDE DEF c
<1>11. IsCommand(c) /\ c.class = f.stem
  BY <1>1, <1>3, <1>10 DEF IsCommand
<1> QED BY <1>11 DEF c

\* A command for each class that has one, under the name of the class.
LEMMA CommandsTyped ==
  ASSUME NEW S, NEW texts \in Seq(S), \A f \in S : IsClassFile(f), NEW base
  PROVE  /\ Apart(Commands(texts, base)) /\ IsList(Commands(texts, base))
         /\ \A c \in Range(Commands(texts, base)) : IsCommand(c)
<1> DEFINE subs == Subclasses(texts, base)
           ps == {i \in DOMAIN Alphabet : \E f \in Range(texts) :
                    f.stem = Alphabet[i] /\ f.extends = base.stem /\ ~f.serialises}
           Read(c) == ConstByte(texts, ClassNamed(texts, c).ctor.op) # Unread
           qs == {i \in DOMAIN subs : Read(subs[i])}
           Stems == {c \in Range(Alphabet) : \E f \in Range(texts) : f.stem = c}
           T == {c \in Stems : Read(c)}
           set == Those(subs, qs)
           Of(c) == Command(texts, base, ClassNamed(texts, c))
           all == [i \in DOMAIN set |-> Of(set[i])]
<1>1. subs = Those(Alphabet, ps)
  BY DEF Subclasses, Select
<1>2. Commands(texts, base) = all
  BY DEF Commands, Select
<1>3. Alphabet \in Seq(Range(Alphabet)) /\ IsInjective(Alphabet)
  BY FramedAssumption DEF IsList
<1>4. subs \in Seq(Stems) /\ IsInjective(subs)
  <2>1. \A i \in DOMAIN Alphabet \cap ps : Alphabet[i] \in Stems
    BY DEF Range
  <2> HIDE DEF ps, Stems
  <2> QED BY <1>1, <1>3, <2>1, ThoseTyped, ThoseDiffer
<1> HIDE DEF subs
<1>5. set \in Seq(T) /\ IsInjective(set)
  <2>1. \A i \in DOMAIN subs \cap qs : subs[i] \in T
    BY <1>4, LenProperties, ElementOfSeq
  <2> HIDE DEF qs, Stems, T
  <2> QED BY <1>4, <2>1, ThoseTyped, ThoseDiffer
<1>6. ASSUME NEW c \in T PROVE IsCommand(Of(c)) /\ Of(c).class = c
  <2> DEFINE f == ClassNamed(texts, c)
  <2>1. \E g \in Range(texts) : g.stem = c
    OBVIOUS
  <2>2. f \in Range(texts) /\ f.stem = c
    BY <2>1 DEF ClassNamed
  <2>3. ConstByte(texts, f.ctor.op) # Unread
    OBVIOUS
  <2>4. f \in S
    BY <2>2, ListTyped
  <2> HIDE DEF f, T, Of
  <2>5. IsCommand(Command(texts, base, f)) /\ Command(texts, base, f).class = f.stem
    BY <2>3, <2>4, CommandTyped
  <2> QED BY <2>2, <2>5 DEF f, Of
<1> HIDE DEF set, T, Of
<1>7. /\ Len(set) \in Nat /\ DOMAIN set = 1..Len(set)
      /\ \A i \in 1..Len(set) : set[i] \in T
  BY <1>5, LenProperties, ElementOfSeq
<1> DEFINE C == {Of(c) : c \in T}
<1>8. all \in [1..Len(set) -> C]
  BY <1>7
<1>9. \A c \in C : IsCommand(c)
  BY <1>6
<1>10. DOMAIN all = 1..Len(set) /\ \A i \in 1..Len(set) : all[i].class = set[i]
  BY <1>6, <1>7
<1> HIDE DEF all, C
<1>11. all \in Seq(C)
  BY <1>7, <1>8, ListOf
<1>12. IsList(all) /\ \A c \in Range(all) : IsCommand(c)
  BY <1>9, <1>11, ListTyped
<1>13. Apart(all)
  BY <1>5, <1>7, <1>10 DEF Apart, IsInjective
<1> QED BY <1>2, <1>12, <1>13

\* What is known of the replies changes nothing else.
LEMMA TokenRepliesTyped ==
  ASSUME NEW cs, IsList(cs), Apart(cs), \A c \in Range(cs) : IsCommand(c), NEW replies
  PROVE  /\ Apart(TokenReplies(cs, replies)) /\ IsList(TokenReplies(cs, replies))
         /\ \A c \in Range(TokenReplies(cs, replies)) : IsCommand(c)
<1> DEFINE of == {op \in DOMAIN replies : replies[op].decode = "tokens"}
           Of(c) == IF c.tokenIds /\ of # {} THEN [c EXCEPT !.replies = {Min(of)}] ELSE c
           new == [i \in DOMAIN cs |-> Of(cs[i])]
<1>1. TokenReplies(cs, replies) = new
  BY DEF TokenReplies
<1>2. \A c : Of(c).class = c.class /\ Of(c).opcode = c.opcode /\ Of(c).payload = c.payload
  OBVIOUS
<1>3. /\ Len(cs) \in Nat /\ DOMAIN cs = 1..Len(cs)
      /\ \A i \in 1..Len(cs) : cs[i] \in Range(cs)
  BY LenProperties DEF IsList, Range
<1> HIDE DEF Of
<1> DEFINE C == {Of(c) : c \in Range(cs)}
<1>4. new \in [1..Len(cs) -> C] /\ DOMAIN new = 1..Len(cs) /\ \A i \in 1..Len(cs) : new[i] = Of(cs[i])
  BY <1>3
<1>5. \A c \in C : IsCommand(c)
  BY <1>2 DEF IsCommand
<1> HIDE DEF new, C
<1>6. new \in Seq(C)
  BY <1>3, <1>4, ListOf
<1>7. IsList(new) /\ \A c \in Range(new) : IsCommand(c)
  BY <1>5, <1>6, ListTyped
<1>8. Apart(new)
  BY <1>2, <1>3, <1>4 DEF Apart
<1> QED BY <1>1, <1>7, <1>8

\* What can be encoded.
IsProtocol(p) ==
  /\ p.frame \in Seq(PartType)
  /\ IsList(p.commands) /\ Apart(p.commands) /\ \A c \in Range(p.commands) : IsCommand(c)

\* Whatever the classes hold and in whatever order they are found.
LEMMA FramedTyped ==
  ASSUME NEW fs \in Orders
  PROVE  IsProtocol(ScanFramed(fs, Assets, Roles))
<1> DEFINE S == Range(fs)
           texts == ClassTexts(fs)
           base == BaseOf(texts)
           commands == Commands(texts, base)
           replies == Replies(texts, Tokens(texts))
           p == ScanFramed(fs, Assets, Roles)
<1>1. IsList(fs) /\ \A f \in S : IsClassFile(f)
  BY FramedAssumption
<1>2. texts \in Seq(S)
  BY <1>1, ClassTextsTyped
<1>3. /\ p.frame = IF Bases(texts) = <<>> \/ commands = <<>> THEN <<>> ELSE FrameOf(base)
      /\ p.commands = IF Bases(texts) = <<>> \/ commands = <<>> THEN <<>>
                      ELSE TokenReplies(commands, replies)
  BY DEF ScanFramed, NoProtocol
<1> HIDE DEF S, texts, p
<1>4. CASE Bases(texts) = <<>> \/ commands = <<>>
  <2> DEFINE none == <<>>
  <2>1. p.frame = none /\ p.commands = none
    BY <1>3, <1>4
  <2>2. none \in Seq(PartType) /\ IsList(none) /\ Apart(none) /\ Range(none) = {}
    BY EmptySeq DEF IsList, Apart, Range
  <2> HIDE DEF none
  <2>3. IsProtocol(p)
    BY <2>1, <2>2 DEF IsProtocol
  <2> QED BY <2>3 DEF p
<1>5. CASE Bases(texts) # <<>> /\ commands # <<>>
  <2> DEFINE Header(f) == \E i \in DOMAIN f.headers : FrameHeader(f.headers[i])
             ps == {i \in DOMAIN texts : Header(texts[i])}
             T == {f \in S : Header(f)}
  <2>1. Bases(texts) = Those(texts, ps)
    BY DEF Bases, Select
  <2>2. \A i \in DOMAIN texts \cap ps : texts[i] \in T
    BY <1>2, LenProperties, ElementOfSeq
  <2>3. Bases(texts) \in Seq(T)
    <3> HIDE DEF T, ps
    <3> QED BY <1>2, <2>1, <2>2, ThoseTyped
  <2>4. base \in T
    <3> HIDE DEF T
    <3> QED BY <1>5, <2>3, FirstOf DEF BaseOf
  <2> HIDE DEF base
  <2>5. FrameOf(base) \in Seq(PartType)
    BY <1>1, <2>4, FrameTyped
  <2>6. /\ Apart(commands) /\ IsList(commands) /\ \A c \in Range(commands) : IsCommand(c)
    BY <1>1, <1>2, CommandsTyped
  <2> HIDE DEF commands, replies
  <2>7. /\ Apart(TokenReplies(commands, replies)) /\ IsList(TokenReplies(commands, replies))
        /\ \A c \in Range(TokenReplies(commands, replies)) : IsCommand(c)
    BY <2>6, TokenRepliesTyped
  <2>8. IsProtocol(p)
    BY <1>3, <1>5, <2>5, <2>7 DEF IsProtocol
  <2> QED BY <2>8 DEF p
<1> QED BY <1>4, <1>5

\* Of the commands, those that are sent: each once.
LEMMA RequestsTyped ==
  ASSUME NEW p, IsProtocol(p)
  PROVE  /\ Requests(p) \in Seq(Range(p.commands)) /\ Apart(Requests(p))
<1> DEFINE cs == p.commands
           ps == {i \in DOMAIN cs :
                    /\ cs[i].verb = "request" /\ cs[i].complete /\ ~cs[i].unsafe
                    /\ cs[i].replies \cap DOMAIN p.replies # {}
                    /\ \A k \in DOMAIN cs[i].payload : cs[i].payload[k].is \in {"value", "default"}}
           R == Range(cs)
<1>1. Requests(p) = Those(cs, ps)
  BY DEF Requests, Select
<1>2. cs \in Seq(R) /\ Apart(cs)
  BY DEF IsProtocol, IsList
<1>3. IsInjective(cs)
  BY <1>2 DEF Apart, IsInjective
<1>4. \A c \in R, d \in R : c.class = d.class => c = d
  BY <1>2 DEF Apart, Range
<1> HIDE DEF cs, ps, R
<1> DEFINE rs == Those(cs, ps)
<1>5. rs \in Seq(R) /\ IsInjective(rs)
  BY <1>2, <1>3, ThoseOf, ThoseDiffer
<1> HIDE DEF rs
<1>6. DOMAIN rs = 1..Len(rs) /\ \A i \in 1..Len(rs) : rs[i] \in R
  BY <1>5, LenProperties, ElementOfSeq
<1>7. Apart(rs)
  BY <1>4, <1>5, <1>6 DEF Apart, IsInjective
<1> QED BY <1>1, <1>5, <1>7 DEF rs, R, cs

\* What is written for a command is bytes, whatever its frame and its payload.
LEMMA EncodeTyped ==
  ASSUME NEW frame \in Seq(PartType), NEW c, IsCommand(c)
  PROVE  Encode(frame, c.opcode, CommandPayload(c.payload)) \in Seq(Byte)
<1> DEFINE items == c.payload
           payload == CommandPayload(items)
           Of(part) == PartBytes(part, c.opcode, payload)
           each == [i \in DOMAIN frame |-> Of(frame[i])]
<1>1. c.opcode \in Byte /\ IsList(items) /\ \A x \in Range(items) : x.n \in Int
  BY DEF IsCommand
<1>2. payload \in Seq(Byte) /\ Len(payload) \in Nat
  <2>1. /\ Len(items) \in Nat /\ DOMAIN items = 1..Len(items)
        /\ \A i \in 1..Len(items) : items[i].n \in Int
    BY <1>1, LenProperties DEF IsList, Range
  <2>2. payload \in [1..Len(items) -> Byte]
    BY <2>1, Low8Typed DEF CommandPayload
  <2> HIDE DEF payload
  <2> QED BY <2>1, <2>2, ListOf
<1> HIDE DEF payload
<1>3. ASSUME NEW part \in PartType PROVE Of(part) \in Seq(Byte)
  <2> DEFINE op == c.opcode n == Len(payload) b == part.value
  <2>1. op \in Int /\ n \in Int /\ b \in Int /\ part.kind \in PartKinds
    <3>1. b \in Byte /\ part.kind \in PartKinds
      BY DEF PartType
    <3>2. op \in Byte
      BY <1>1
    <3>3. n \in Nat
      BY <1>2
    <3> HIDE DEF op, n, b
    <3> QED BY <3>1, <3>2, <3>3 DEF Byte
  <2>2. Of(part) = CASE part.kind = "const"   -> <<Low8(b)>>
                     [] part.kind = "opcode"  -> <<Low8(op)>>
                     [] part.kind = "length"  -> <<Low8(n)>>
                     [] part.kind = "payload" -> payload
    BY DEF PartBytes
  <2> HIDE DEF op, n, b, Of
  <2>3. Low8(b) \in Byte /\ Low8(op) \in Byte /\ Low8(n) \in Byte
    BY <2>1, Low8Typed
  <2>4. <<Low8(b)>> \in Seq(Byte) /\ <<Low8(op)>> \in Seq(Byte) /\ <<Low8(n)>> \in Seq(Byte)
    BY <2>3
  <2> QED BY <1>2, <2>1, <2>2, <2>4 DEF PartKinds
<1>4. /\ Len(frame) \in Nat /\ DOMAIN frame = 1..Len(frame)
      /\ \A i \in 1..Len(frame) : frame[i] \in PartType
  BY LenProperties, ElementOfSeq
<1>5. Encode(frame, c.opcode, payload) = FlattenSeq(each)
  BY DEF Encode
<1> HIDE DEF Of
<1>6. each \in [1..Len(frame) -> Seq(Byte)]
  BY <1>3, <1>4
<1> HIDE DEF each
<1>7. each \in Seq(Seq(Byte))
  BY <1>4, <1>6, ListOf
<1>8. FlattenSeq(each) \in Seq(Byte)
  BY <1>7, FlattenTyped
<1> QED BY <1>5, <1>8 DEF payload

Classes(s) == {s[i].class : i \in DOMAIN s}

Scanned == device \in Device /\ IsProtocol(proto)

\* The requests that wait are the protocol's and differ.
Queued ==
  /\ place \in {"opening", "ready", "waiting", "passed", "problems", "raised"}
  /\ left \in Seq(Range(proto.commands)) /\ Apart(left)
  /\ place = "waiting" => left # <<>> /\ current = Head(left)

\* Each request written is answered, not answered, or the one that is waited for.
Accounted ==
  /\ {m.class : m \in written} =
       answered \cup unanswered \cup IF place = "waiting" THEN {current.class} ELSE {}
  /\ Classes(left) \cap (answered \cup unanswered) = {}
  /\ answered \cap unanswered = {}

Exchanged ==
  /\ \A m \in written : m.bytes \in Seq(Byte)
  /\ owed \in Seq(Note) /\ inbox \in Seq(Note) /\ unasked \in 0..MaxUnasked

Checking == Scanned /\ Queued /\ Accounted /\ Exchanged

\* What is left after the first is of other classes.
LEMMA RestApart ==
  ASSUME NEW S, NEW s \in Seq(S), s # <<>>, Apart(s)
  PROVE  /\ Tail(s) \in Seq(S) /\ Apart(Tail(s))
         /\ Classes(Tail(s)) \subseteq Classes(s) /\ Head(s).class \notin Classes(Tail(s))
         /\ Head(s).class \in Classes(s) /\ Head(s) \in S
<1> DEFINE n == Len(s) t == Tail(s)
<1>1. n \in Nat \ {0} /\ DOMAIN s = 1..n /\ Head(s) = s[1] /\ 1 \in DOMAIN s
  BY LenProperties, EmptySeq, HeadTailProperties
<1>2. t \in Seq(S) /\ Len(t) = n - 1 /\ \A i \in 1..(n - 1) : t[i] = s[i + 1]
  BY HeadTailProperties
<1>3. DOMAIN t = 1..(n - 1)
  BY <1>2, LenProperties
<1> HIDE DEF n, t
<1>4. \A i \in 1..(n - 1) : i + 1 \in 1..n /\ i + 1 # 1
  BY <1>1
<1>5. Apart(t)
  <2>1. ASSUME NEW i \in 1..(n - 1), NEW j \in 1..(n - 1), t[i].class = t[j].class
        PROVE  i = j
    <3> DEFINE k == i + 1 l == j + 1
    <3>1. k \in 1..n /\ l \in 1..n /\ t[i] = s[k] /\ t[j] = s[l]
      BY <1>2, <1>4
    <3>2. i = k - 1 /\ j = l - 1
      BY <1>1
    <3> HIDE DEF k, l
    <3>3. k = l
      BY <1>1, <2>1, <3>1 DEF Apart
    <3> QED BY <3>2, <3>3
  <2> QED BY <1>3, <2>1 DEF Apart
<1>6. Classes(t) \subseteq Classes(s) /\ s[1].class \notin Classes(t)
  <2>1. ASSUME NEW i \in 1..(n - 1)
        PROVE  t[i].class \in Classes(s) /\ t[i].class # s[1].class
    <3> DEFINE k == i + 1
    <3>1. k \in 1..n /\ k # 1 /\ t[i] = s[k]
      BY <1>2, <1>4
    <3> HIDE DEF k
    <3> QED BY <1>1, <3>1 DEF Apart, Classes
  <2> QED BY <1>3, <2>1 DEF Classes
<1>7. s[1].class \in Classes(s)
  BY <1>1 DEF Classes
<1>8. Head(s) \in S
  BY <1>1, ElementOfSeq DEF n
<1> QED BY <1>1, <1>2, <1>5, <1>6, <1>7, <1>8 DEF t

LEMMA CheckingStarts == CheckInit => Checking
<1> SUFFICES ASSUME CheckInit PROVE Checking
  OBVIOUS
<1>1. PICK fs \in Orders : proto = ScanFramed(fs, Assets, Roles)
  BY DEF CheckInit
<1>2. Scanned
  BY <1>1, FramedTyped DEF CheckInit, Scanned
<1>3. place \in {"opening", "raised"} /\ left = Requests(proto)
  BY DEF CheckInit
<1>4. Queued
  BY <1>2, <1>3, RequestsTyped DEF Scanned, Queued
<1>5. written = {} /\ answered = {} /\ unanswered = {} /\ owed = <<>> /\ inbox = <<>> /\ unasked = 0
  BY DEF CheckInit, io
<1>6. Accounted
  BY <1>3, <1>5 DEF Accounted
<1>7. Exchanged
  <2> DEFINE none == <<>>
  <2>1. owed = none /\ inbox = none /\ none \in Seq(Note)
    BY <1>5
  <2>2. unasked \in 0..MaxUnasked
    BY <1>5, FramedAssumption
  <2> HIDE DEF none
  <2> QED BY <1>5, <2>1, <2>2 DEF Exchanged
<1> QED BY <1>2, <1>4, <1>6, <1>7 DEF Checking

\* A step that only moves the check, and not into a window.
LEMMA Moved ==
  ASSUME Checking, place # "waiting", place' \in {"ready", "passed", "problems", "raised"},
         UNCHANGED <<device, proto, left, current, got, io, result>>
  PROVE  Checking'
<1>1. Scanned'
  BY DEF Checking, Scanned
<1>2. Queued'
  BY DEF Checking, Queued
<1>3. Accounted'
  BY DEF Checking, Accounted, Classes, io, result
<1>4. Exchanged'
  BY DEF Checking, Exchanged, io
<1> QED BY <1>1, <1>2, <1>3, <1>4 DEF Checking

\* A step of the device, and the reading of what it sent.
LEMMA Exchange ==
  ASSUME Checking, UNCHANGED <<device, proto, place, left, current, written, answered, unanswered>>,
         owed' \in Seq(Note), inbox' \in Seq(Note), unasked' \in 0..MaxUnasked
  PROVE  Checking'
<1>1. Scanned'
  BY DEF Checking, Scanned
<1>2. Queued'
  BY DEF Checking, Queued
<1>3. Accounted'
  BY DEF Checking, Accounted, Classes
<1>4. Exchanged'
  BY DEF Checking, Exchanged
<1> QED BY <1>1, <1>2, <1>3, <1>4 DEF Checking

LEMMA SentChecks ==
  ASSUME Checking, Sent
  PROVE  Checking'
<1> DEFINE c == Head(left)
           bytes == Encode(proto.frame, c.opcode, CommandPayload(c.payload))
           message == [class |-> c.class, bytes |-> bytes]
           none == <<>>
           answers == IF bytes \in DOMAIN device THEN device[bytes] ELSE none
<1>1. /\ place = "ready" /\ left # <<>> /\ place' = "waiting"
      /\ written' = written \cup {message} /\ owed' = owed \o answers /\ current' = c
      /\ UNCHANGED <<device, proto, left, inbox, unasked, result>>
  BY DEF Sent
<1>2. device \in Device /\ proto.frame \in Seq(PartType) /\ \A x \in Range(proto.commands) : IsCommand(x)
  BY DEF Checking, Scanned, IsProtocol
<1>3. left \in Seq(Range(proto.commands)) /\ Apart(left)
  BY DEF Checking, Queued
<1>4. c \in Range(proto.commands)
  BY <1>1, <1>3, RestApart
<1>5. bytes \in Seq(Byte)
  BY <1>2, <1>4, EncodeTyped
<1>6. answers \in Seq(Note)
  <2>1. none \in Seq(Note)
    OBVIOUS
  <2> HIDE DEF bytes, none
  <2> QED BY <1>2, <2>1, FramedAssumption
<1>7. message.class = c.class /\ message.bytes = bytes
  OBVIOUS
<1> HIDE DEF bytes, c, message, answers
<1>8. Scanned'
  BY <1>1 DEF Checking, Scanned
<1>9. Queued'
  BY <1>1, <1>3 DEF c, Queued
<1>10. Accounted'
  BY <1>1, <1>7 DEF Checking, Accounted, Classes, result
<1>11. Exchanged'
  <2>1. owed' \in Seq(Note)
    BY <1>1, <1>6, ConcatProperties DEF Checking, Exchanged
  <2> QED BY <1>1, <1>5, <1>7, <2>1 DEF Checking, Exchanged
<1> QED BY <1>8, <1>9, <1>10, <1>11 DEF Checking

LEMMA ReceivedChecks ==
  ASSUME Checking, Received
  PROVE  Checking'
<1>1. /\ inbox # <<>> /\ inbox' = Tail(inbox)
      /\ UNCHANGED <<device, proto, place, left, current, owed, unasked, written, answered, unanswered>>
  BY DEF Received
<1>2. owed \in Seq(Note) /\ inbox \in Seq(Note) /\ unasked \in 0..MaxUnasked
  BY DEF Checking, Exchanged
<1>3. Tail(inbox) \in Seq(Note)
  BY <1>1, <1>2, HeadTailProperties
<1> QED BY <1>1, <1>2, <1>3, Exchange

LEMMA WindowEndsChecks ==
  ASSUME Checking, WindowEnds
  PROVE  Checking'
<1> DEFINE c == current.class
<1>1. /\ place = "waiting" /\ place' = "ready" /\ left' = Tail(left)
      /\ \/ answered' = answered \cup {c} /\ unanswered' = unanswered
         \/ unanswered' = unanswered \cup {c} /\ answered' = answered
      /\ UNCHANGED <<device, proto, current, io>>
  BY DEF WindowEnds, Judged
<1>2. left \in Seq(Range(proto.commands)) /\ Apart(left) /\ left # <<>> /\ current = Head(left)
  BY <1>1 DEF Checking, Queued
<1>3. /\ Tail(left) \in Seq(Range(proto.commands)) /\ Apart(Tail(left))
      /\ Classes(Tail(left)) \subseteq Classes(left) /\ c \notin Classes(Tail(left))
      /\ c \in Classes(left)
  BY <1>2, RestApart
<1>4. /\ {m.class : m \in written} = answered \cup unanswered \cup {c}
      /\ Classes(left) \cap (answered \cup unanswered) = {} /\ answered \cap unanswered = {}
  BY <1>1 DEF Checking, Accounted
<1>5. Classes(left)' = Classes(Tail(left))
  BY <1>1 DEF Classes
<1> HIDE DEF c
<1>6. Scanned'
  BY <1>1 DEF Checking, Scanned
<1>7. Queued'
  BY <1>1, <1>3 DEF Queued
<1>8. Accounted'
  <2> DEFINE W == {m.class : m \in written} rest == Classes(Tail(left))
  <2>1. {m.class : m \in written}' = W
    BY <1>1 DEF io
  <2>2. place' # "waiting"
    BY <1>1
  <2>3. W = answered' \cup unanswered'
    BY <1>1, <1>4
  <2>4. rest \cap (answered' \cup unanswered') = {}
    <3> HIDE DEF W, rest
    <3> QED BY <1>1, <1>3, <1>4 DEF rest
  <2>5. answered' \cap unanswered' = {}
    BY <1>1, <1>3, <1>4
  <2> QED BY <1>5, <2>1, <2>2, <2>3, <2>4, <2>5 DEF Accounted
<1>9. Exchanged'
  BY <1>1 DEF Checking, Exchanged, io
<1> QED BY <1>6, <1>7, <1>8, <1>9 DEF Checking

LEMMA CheckingKept ==
  ASSUME Checking, [CheckNext]_checkVars
  PROVE  Checking'
<1>1. owed \in Seq(Note) /\ inbox \in Seq(Note) /\ unasked \in 0..MaxUnasked
  BY DEF Checking, Exchanged
<1>2. CASE Opened
  BY <1>2, Moved DEF Opened
<1>3. CASE Sent
  BY <1>3, SentChecks
<1>4. CASE WriteFails
  BY <1>4, Moved DEF WriteFails
<1>5. CASE Received
  BY <1>5, ReceivedChecks
<1>6. CASE Concluded
  BY <1>6, Moved DEF Concluded
<1>7. CASE WindowEnds
  BY <1>7, WindowEndsChecks
<1>8. CASE Delivered
  <2>1. /\ owed # <<>> /\ inbox' = Append(inbox, Head(owed)) /\ owed' = Tail(owed)
        /\ UNCHANGED <<device, proto, place, left, current, unasked, written, answered, unanswered>>
    BY <1>8 DEF Delivered, result
  <2>2. Head(owed) \in Note /\ Tail(owed) \in Seq(Note)
    BY <1>1, <2>1, HeadTailProperties
  <2>3. Append(inbox, Head(owed)) \in Seq(Note)
    BY <1>1, <2>2, AppendProperties
  <2> QED BY <1>1, <2>1, <2>2, <2>3, Exchange
<1>9. CASE Notified
  <2>1. PICK note \in Unasked : inbox' = Append(inbox, note)
    BY <1>9 DEF Notified
  <2>2. /\ unasked < MaxUnasked /\ unasked' = unasked + 1
        /\ UNCHANGED <<device, proto, place, left, current, owed, written, answered, unanswered>>
    BY <1>9 DEF Notified, result
  <2>3. note \in Note /\ MaxUnasked \in Nat
    BY FramedAssumption
  <2>4. inbox' \in Seq(Note)
    BY <1>1, <2>1, <2>3, AppendProperties
  <2>5. unasked' \in 0..MaxUnasked
    BY <1>1, <2>2, <2>3
  <2> QED BY <1>1, <2>2, <2>4, <2>5, Exchange
<1>10. CASE UNCHANGED checkVars
  BY <1>1, <1>10, Exchange DEF checkVars, io, result
<1> QED BY <1>2, <1>3, <1>4, <1>5, <1>6, <1>7, <1>8, <1>9, <1>10 DEF CheckNext, Check

LEMMA CheckingIsTyped == Checking => CheckTyped
<1> SUFFICES ASSUME Checking PROVE CheckTyped
  OBVIOUS
<1>1. proto.frame \in Seq([kind: PartKinds, value: Byte])
  BY DEF Checking, Scanned, IsProtocol, PartType
<1>2. \A i \in DOMAIN proto.commands : proto.commands[i].opcode \in Byte
  BY DEF Checking, Scanned, IsProtocol, IsCommand, Range
<1>3. place \in {"passed", "problems"} => answered \cup unanswered = {m.class : m \in written}
  BY DEF Checking, Accounted
<1>4. answered \cap unanswered = {}
  BY DEF Checking, Accounted
<1> QED BY <1>1, <1>2, <1>3, <1>4 DEF Checking, Scanned, Queued, Exchanged, CheckTyped

\* For every app, every order of its files and every device, whenever it answers
\* and whatever it sends unasked: the frame read consists of known parts and of
\* bytes, only bytes are written, and each request sent is in the end counted as
\* answered or as not answered, never as both.
THEOREM CheckTypeCorrect == CheckSpec => []CheckTyped
<1>1. CheckSpec => []Checking
  BY CheckingStarts, CheckingKept, PTL DEF CheckSpec
<1> QED BY <1>1, CheckingIsTyped, PTL
=============================================================================
