------------------------ MODULE DuplicateIndex_proofs ------------------------
(***************************************************************************)
(* For every set of integrations and apps and every time to live: how long *)
(* a fetch that failed can be felt in what the duplicate check returns.    *)
(***************************************************************************)
EXTENDS DuplicateIndex, FunctionTheorems, FiniteSetTheorems, TLAPS

\* What of TypeOK the argument rests on.
Typed ==
  /\ file \in [File -> FileType]
  /\ at \in {"idle", "name", "brands", "services", "index", "answered", "raised"}
  /\ app \in App /\ seen \in SUBSET Domain
  /\ calm \in 0..LongestEffect + 1

\* How old a file's gaps can be when it is saved: those of the components are
\* new, the manifests are those of components that may be as old as they are
\* kept, and the index is made from manifests as old.
Slack(f) == CASE f = "components" -> 0
              [] f = "manifests" -> TTL - 1
              [] OTHER -> 2 * (TTL - 1)

\* A file that is in use and misses an integration: so does a fetch not older
\* than the file, and what the file was made from.
GapsAreRecent ==
  \A f \in File : file[f].is = "whole" /\ file[f].age < TTL /\ file[f].has # Domain =>
                    calm <= file[f].age + Slack(f)

\* The same of what a check under way goes by.
SeenIsRecent ==
  /\ at \in {"brands", "services"} /\ seen # Domain => calm <= TTL - 1
  /\ at = "index" /\ seen # Domain => calm <= 2 * (TTL - 1)

\* The signals an app was without are those it would be without otherwise.
NoName == app.known = NoDomain /\ NameVerdict(app, Domain) = NotFound
NoBrand == app.strings => BrandVerdict(app, Products(Domain, Domain)) = NotFound
Passed ==
  /\ at = "name" => app.known = NoDomain
  /\ at = "brands" => app.strings /\ (calm <= LongestEffect \/ NoName)
  /\ at \in {"services", "index"} =>
       app.ble /\ (calm <= LongestEffect \/ (NoName /\ NoBrand))

IInv == Typed /\ GapsAreRecent /\ SeenIsRecent /\ Passed /\ VerdictsRecover

USE DuplicateAssumption

LEMMA InitIInv == Init => IInv
  BY DEF Init, IInv, Typed, GapsAreRecent, SeenIsRecent, Passed, VerdictsRecover,
         File, FileType, LongestEffect

\* What is fetched of the components, or read from their file.
LEMMA ComponentsAreRecent ==
  ASSUME Typed, GapsAreRecent, NEW c \in Components, c.file.is # "torn"
  PROVE  /\ c.has \in SUBSET Domain /\ c.file \in FileType /\ c.calm \in {0, calm}
         /\ c.has # Domain => c.calm <= TTL - 1
         /\ c.file.is = "whole" /\ c.file.age < TTL /\ c.file.has # Domain =>
              c.calm <= c.file.age + Slack("components")
<1> DEFINE f == file["components"]
<1> USE DEF Typed, File, FileType, LongestEffect, Slack
<1>0. f \in FileType
  OBVIOUS
<1>1. CASE Valid("components")
  <2>1. c = [has |-> f.has, file |-> f, calm |-> calm]
    BY <1>1 DEF Components
  <2> QED BY <1>0, <1>1, <2>1 DEF Valid, GapsAreRecent
<1>2. CASE ~Valid("components")
  <2>1. CASE c = [has |-> f.has, file |-> f, calm |-> 0]
    BY <1>0, <2>1
  <2>2. ASSUME NEW s \in SUBSET Domain,
               c = [has |-> s, file |-> Saved(s), calm |-> Felt(s = Domain)]
        PROVE  /\ c.has = s /\ c.file = [is |-> "whole", has |-> s, age |-> 0]
               /\ c.calm \in {0, calm} /\ (s # Domain => c.calm = 0)
    <3>1. CASE s = Domain
      BY <2>2, <3>1 DEF Saved, Felt
    <3>2. CASE s # Domain
      BY <2>2, <3>2 DEF Saved, Felt
    <3> QED BY <3>1, <3>2
  <2>3. \/ c = [has |-> f.has, file |-> f, calm |-> 0]
        \/ \E s \in SUBSET Domain :
             c = [has |-> s, file |-> Saved(s), calm |-> Felt(s = Domain)]
    BY <1>2 DEF Components
  <2>4. CASE \E s \in SUBSET Domain :
               c = [has |-> s, file |-> Saved(s), calm |-> Felt(s = Domain)]
    <3>1. PICK s \in SUBSET Domain :
                 /\ c.has = s /\ c.file = [is |-> "whole", has |-> s, age |-> 0]
                 /\ c.calm \in {0, calm} /\ (s # Domain => c.calm = 0)
      BY <2>2, <2>4
    <3> QED BY <3>1
  <2> QED BY <2>1, <2>3, <2>4
<1> QED BY <1>1, <1>2

\* What is fetched of the manifests, or read from their file.
LEMMA ManifestsAreRecent ==
  ASSUME Typed, GapsAreRecent, seen # Domain => calm <= TTL - 1,
         NEW m \in Manifests(seen), ~(Valid("manifests") /\ Torn("manifests"))
  PROVE  /\ m.has \in SUBSET Domain /\ m.file \in FileType /\ m.calm \in {0, calm}
         /\ m.has # Domain => m.calm <= 2 * (TTL - 1)
         /\ m.file.is = "whole" /\ m.file.age < TTL /\ m.file.has # Domain =>
              m.calm <= m.file.age + Slack("manifests")
<1> DEFINE f == file["manifests"]
<1> USE DEF Typed, File, FileType, LongestEffect, Slack
<1>0. f \in FileType
  OBVIOUS
<1>1. CASE Valid("manifests")
  <2>1. m = [has |-> f.has, file |-> f, calm |-> calm]
    BY <1>1 DEF Manifests
  <2>2. f.is = "whole" /\ f.age < TTL
    BY <1>0, <1>1 DEF Valid, Torn
  <2> QED BY <1>0, <2>1, <2>2 DEF GapsAreRecent
<1>2. CASE ~Valid("manifests")
  <2>1. PICK s \in SUBSET seen :
          m = [has |-> s, file |-> IF s = {} THEN f ELSE Saved(s), calm |-> Felt(s = seen)]
    BY <1>2 DEF Manifests
  <2>2. /\ m.has = s /\ (m.file = f \/ m.file = [is |-> "whole", has |-> s, age |-> 0])
        /\ m.calm \in {0, calm} /\ (s # seen => m.calm = 0)
    <3>1. CASE s = seen
      BY <2>1, <3>1 DEF Saved, Felt
    <3>2. CASE s # seen
      BY <2>1, <3>2 DEF Saved, Felt
    <3> QED BY <3>1, <3>2
  <2>3. s # Domain => m.calm <= TTL - 1
    BY <2>2
  <2>4. f.is # "absent" => f.age >= TTL
    BY <1>0, <1>2 DEF Valid
  <2> QED BY <1>0, <2>2, <2>3, <2>4
<1> QED BY <1>1, <1>2

\* A file that is saved, or left as it is.
LEMMA SavingKeeps ==
  ASSUME Typed, GapsAreRecent, NEW g \in File, NEW x \in FileType,
         file' = [file EXCEPT ![g] = x], calm' \in {0, calm},
         x.is = "whole" /\ x.age < TTL /\ x.has # Domain => calm' <= x.age + Slack(g)
  PROVE  file' \in [File -> FileType] /\ GapsAreRecent'
<1>1. file' \in [File -> FileType]
  BY DEF Typed
<1>2. \A f \in File : 0 <= file[f].age + Slack(f)
  BY DEF Typed, File, FileType, Slack
<1>3. ASSUME NEW f \in File, file'[f].is = "whole", file'[f].age < TTL, file'[f].has # Domain
      PROVE  calm' <= file'[f].age + Slack(f)
  <2>1. CASE f = g
    BY <1>3, <2>1 DEF Typed
  <2>2. CASE f # g
    BY <1>2, <1>3, <2>2 DEF Typed, GapsAreRecent
  <2> QED BY <2>1, <2>2
<1> QED BY <1>1, <1>3 DEF GapsAreRecent

\* Every step keeps the invariant.
LEMMA NextIInv == IInv /\ [Next]_vars => IInv'
<1> SUFFICES ASSUME IInv, [Next]_vars PROVE IInv'
  OBVIOUS
<1> USE DEF IInv, LongestEffect
<1>1. ASSUME NEW a \in App, Begin(a) PROVE IInv'
  <2>1. Typed' /\ GapsAreRecent'
    BY <1>1 DEF Begin, Typed, GapsAreRecent
  <2>2. SeenIsRecent'
    BY <1>1 DEF Begin, Typed, SeenIsRecent
  <2>3. Passed' /\ VerdictsRecover'
    BY <1>1 DEF Begin, Typed, Passed, VerdictsRecover, Reference
  <2> QED BY <2>1, <2>2, <2>3
<1>2. CASE CheckName
  <2>1. PICK c \in Components :
          LET v == NameVerdict(app, c.has) IN
          /\ c.file.is # "torn"
          /\ file' = [file EXCEPT !["components"] = c.file] /\ calm' = c.calm
          /\ IF v # NotFound THEN Ends(v)
             ELSE IF app.strings THEN GoesOn("brands", c.has)
             ELSE ThenServices(c.has)
    BY <1>2 DEF CheckName
  <2>2. /\ c.has \in SUBSET Domain /\ c.file \in FileType /\ calm' \in {0, calm}
        /\ c.has # Domain => calm' <= TTL - 1
        /\ c.file.is = "whole" /\ c.file.age < TTL /\ c.file.has # Domain =>
             calm' <= c.file.age + Slack("components")
    BY <2>1, ComponentsAreRecent
  <2>3. file' \in [File -> FileType] /\ GapsAreRecent'
    BY <2>1, <2>2, SavingKeeps DEF File
  <2>4. app.known = NoDomain /\ at = "name"
    BY <1>2 DEF CheckName, Passed
  <2>5. CASE NameVerdict(app, c.has) # NotFound
    <3>1. Ends(NameVerdict(app, c.has))
      BY <2>1, <2>5
    <3>2. CASE c.has = Domain
      <4>1. answer' = Reference(app)
        BY <2>4, <2>5, <3>1, <3>2 DEF Ends, Reference
      <4> QED BY <2>2, <2>3, <3>1, <4>1 DEF Ends, Typed, SeenIsRecent, Passed, VerdictsRecover
    <3>3. CASE c.has # Domain
      <4>1. calm' <= LongestEffect
        BY <2>2, <3>3
      <4> QED BY <2>2, <2>3, <3>1, <4>1 DEF Ends, Typed, SeenIsRecent, Passed, VerdictsRecover
    <3> QED BY <3>2, <3>3
  <2>6. CASE NameVerdict(app, c.has) = NotFound
    <3>1. calm' <= LongestEffect \/ NoName
      <4>1. CASE c.has = Domain
        BY <2>4, <2>6, <4>1 DEF NoName
      <4>2. CASE c.has # Domain
        BY <2>2, <4>2
      <4> QED BY <4>1, <4>2
    <3>2. CASE app.strings
      <4>1. GoesOn("brands", c.has)
        BY <2>1, <2>6, <3>2
      <4> QED BY <2>2, <2>3, <3>1, <3>2, <4>1
              DEF GoesOn, Typed, SeenIsRecent, Passed, VerdictsRecover, NoName
    <3>3. CASE ~app.strings
      <4>1. ThenServices(c.has)
        BY <2>1, <2>6, <3>3
      <4>2. NoBrand
        BY <3>3 DEF NoBrand
      <4>3. CASE app.ble
        BY <2>2, <2>3, <3>1, <4>1, <4>2, <4>3
           DEF ThenServices, GoesOn, Typed, SeenIsRecent, Passed, VerdictsRecover, NoName, NoBrand
      <4>4. CASE ~app.ble
        <5>1. Ends(NotFound)
          BY <4>1, <4>4 DEF ThenServices
        <5>2. NoName => Reference(app) = NotFound
          BY <3>3, <4>4 DEF NoName, Reference
        <5> QED BY <2>2, <2>3, <3>1, <5>1, <5>2
                DEF Ends, Typed, SeenIsRecent, Passed, VerdictsRecover
      <4> QED BY <4>3, <4>4
    <3> QED BY <3>2, <3>3
  <2> QED BY <2>5, <2>6
<1>3. CASE CheckBrands
  <2>1. PICK m \in Manifests(seen) :
          LET v == BrandVerdict(app, Products(m.has, seen)) IN
          /\ file' = [file EXCEPT !["manifests"] = m.file] /\ calm' = m.calm
          /\ IF v # NotFound THEN Ends(v) ELSE ThenServices(seen)
    BY <1>3 DEF CheckBrands
  <2>2. /\ at = "brands" /\ (seen # Domain => calm <= TTL - 1) /\ app.strings
        /\ calm <= LongestEffect \/ NoName
    BY <1>3 DEF CheckBrands, SeenIsRecent, Passed
  <2>3. /\ m.has \in SUBSET Domain /\ m.file \in FileType /\ calm' \in {0, calm}
        /\ m.has # Domain => calm' <= 2 * (TTL - 1)
        /\ m.file.is = "whole" /\ m.file.age < TTL /\ m.file.has # Domain =>
             calm' <= m.file.age + Slack("manifests")
    BY <1>3, <2>1, <2>2, ManifestsAreRecent DEF CheckBrands
  <2>4. file' \in [File -> FileType] /\ GapsAreRecent'
    BY <2>1, <2>3, SavingKeeps DEF File
  <2>5. /\ seen # Domain => calm' <= TTL - 1
        /\ calm' <= LongestEffect \/ (NoName /\ seen = Domain /\ m.has = Domain)
    BY <2>2, <2>3 DEF Typed
  <2>6. CASE BrandVerdict(app, Products(m.has, seen)) # NotFound
    <3>1. Ends(BrandVerdict(app, Products(m.has, seen)))
      BY <2>1, <2>6
    <3>2. calm' <= LongestEffect \/ answer' = Reference(app)
      BY <2>2, <2>5, <2>6, <3>1 DEF Ends, Reference, NoName
    <3> QED BY <2>3, <2>4, <3>1, <3>2 DEF Ends, Typed, SeenIsRecent, Passed, VerdictsRecover
  <2>7. CASE BrandVerdict(app, Products(m.has, seen)) = NotFound
    <3>1. ThenServices(seen)
      BY <2>1, <2>7
    <3>2. calm' <= LongestEffect \/ (NoName /\ NoBrand)
      BY <2>5, <2>7 DEF NoBrand
    <3>3. CASE app.ble
      BY <2>3, <2>4, <2>5, <3>1, <3>2, <3>3
         DEF ThenServices, GoesOn, Typed, SeenIsRecent, Passed, VerdictsRecover, NoName, NoBrand
    <3>4. CASE ~app.ble
      <4>1. Ends(NotFound)
        BY <3>1, <3>4 DEF ThenServices
      <4>2. NoName /\ NoBrand => Reference(app) = NotFound
        BY <3>4 DEF NoName, NoBrand, Reference
      <4> QED BY <2>3, <2>4, <3>2, <4>1, <4>2
              DEF Ends, Typed, SeenIsRecent, Passed, VerdictsRecover
    <3> QED BY <3>3, <3>4
  <2> QED BY <2>6, <2>7
<1>4. CASE CheckServices
  <2>1. /\ at = "services" /\ (seen # Domain => calm <= TTL - 1) /\ app.ble
        /\ calm <= LongestEffect \/ (NoName /\ NoBrand)
    BY <1>4 DEF CheckServices, SeenIsRecent, Passed
  <2>2. CASE Valid("uuids") /\ ~Torn("uuids") /\ UNCHANGED <<file, calm>>
             /\ Ends(BleVerdict(app, file["uuids"].has))
    <3>1. file["uuids"].has = Domain \/ calm <= LongestEffect
      BY <2>2 DEF Valid, Torn, Typed, File, FileType, GapsAreRecent, Slack
    <3>2. NoName /\ NoBrand => Reference(app) = BleVerdict(app, Domain)
      BY <2>1 DEF NoName, NoBrand, Reference
    <3> QED BY <2>1, <2>2, <3>1, <3>2
            DEF Ends, Typed, GapsAreRecent, SeenIsRecent, Passed, VerdictsRecover
  <2>3. ASSUME NEW m \in Manifests(seen), ~(Valid("manifests") /\ Torn("manifests")),
               file' = [file EXCEPT !["manifests"] = m.file], calm' = m.calm,
               GoesOn("index", m.has)
        PROVE  IInv'
    <3>1. /\ m.has \in SUBSET Domain /\ m.file \in FileType /\ calm' \in {0, calm}
          /\ m.has # Domain => calm' <= 2 * (TTL - 1)
          /\ m.file.is = "whole" /\ m.file.age < TTL /\ m.file.has # Domain =>
               calm' <= m.file.age + Slack("manifests")
      BY <2>1, <2>3, ManifestsAreRecent
    <3>2. file' \in [File -> FileType] /\ GapsAreRecent'
      BY <2>3, <3>1, SavingKeeps DEF File
    <3> QED BY <2>1, <2>3, <3>1, <3>2
            DEF GoesOn, Typed, SeenIsRecent, Passed, VerdictsRecover, NoName, NoBrand
  <2>4. CASE \E m \in Manifests(seen) :
               /\ ~(Valid("manifests") /\ Torn("manifests"))
               /\ file' = [file EXCEPT !["manifests"] = m.file] /\ calm' = m.calm
               /\ GoesOn("index", m.has)
    BY <2>3, <2>4
  <2> QED BY <1>4, <2>2, <2>4 DEF CheckServices
<1>5. CASE MakeIndex
  <2>1. /\ at = "index" /\ (seen # Domain => calm <= 2 * (TTL - 1)) /\ app.ble
        /\ calm <= LongestEffect \/ (NoName /\ NoBrand)
    BY <1>5 DEF MakeIndex, SeenIsRecent, Passed
  <2>2. Saved(seen) \in FileType /\ Saved(seen).has = seen /\ Saved(seen).age = 0
    BY DEF Saved, FileType, Typed
  <2>3. file' \in [File -> FileType] /\ GapsAreRecent'
    <3>1. Saved(seen).has # Domain => calm' <= Saved(seen).age + Slack("uuids")
      BY <1>5, <2>1, <2>2 DEF MakeIndex, Slack
    <3>2. file' = [file EXCEPT !["uuids"] = Saved(seen)] /\ calm' = calm
      BY <1>5 DEF MakeIndex
    <3> QED BY <2>2, <3>1, <3>2, SavingKeeps DEF File
  <2>4. NoName /\ NoBrand => Reference(app) = BleVerdict(app, Domain)
    BY <2>1 DEF NoName, NoBrand, Reference
  <2>5. calm <= LongestEffect \/ seen = Domain
    BY <2>1 DEF Typed
  <2> QED BY <1>5, <2>1, <2>3, <2>4, <2>5
          DEF MakeIndex, Ends, Typed, SeenIsRecent, Passed, VerdictsRecover
<1>6. CASE Raises
  BY <1>6 DEF Raises, Typed, File, FileType, Slack, GapsAreRecent, SeenIsRecent, Passed, VerdictsRecover
<1>7. CASE Dies
  <2>1. file' \in [File -> FileType] /\ GapsAreRecent'
    <3>1. CASE UNCHANGED file
      BY <1>7, <3>1 DEF Dies, Typed, GapsAreRecent
    <3>2. CASE file' = [file EXCEPT ![Needed] = [is |-> "torn", has |-> {}, age |-> 0]]
      <4>1. Needed \in File
        BY DEF Needed, File
      <4>2. [is |-> "torn", has |-> {}, age |-> 0] \in FileType
        BY DEF FileType
      <4> QED BY <1>7, <3>2, <4>1, <4>2, SavingKeeps DEF Dies
    <3> QED BY <1>7, <3>1, <3>2 DEF Dies
  <2> QED BY <1>7, <2>1 DEF Dies, Typed, SeenIsRecent, Passed, VerdictsRecover
<1>8. CASE Tick
  <2>1. file' \in [File -> FileType] /\ calm' \in 0..LongestEffect + 1 /\ calm' <= calm + 1
    BY <1>8 DEF Tick, Typed, File, FileType
  <2>2. ASSUME NEW f \in File, file'[f].is = "whole", file'[f].age < TTL, file'[f].has # Domain
        PROVE  calm' <= file'[f].age + Slack(f)
    BY <1>8, <2>1, <2>2 DEF Tick, Typed, File, FileType, GapsAreRecent, Slack
  <2> QED BY <1>8, <2>1, <2>2 DEF Tick, Typed, GapsAreRecent, SeenIsRecent, Passed, VerdictsRecover
<1>9. CASE UNCHANGED vars
  BY <1>9 DEF vars, check, Typed, GapsAreRecent, SeenIsRecent, Passed, VerdictsRecover,
              NoName, NoBrand
<1> QED BY <1>1, <1>2, <1>3, <1>4, <1>5, <1>6, <1>7, <1>8, <1>9 DEF Next, Check

\* A check that misses an integration, or names one that does not cover the
\* app, does so no longer than three times a file is kept after the last fetch
\* that was not complete, for every time to live (checker.py:39, 225-321).
THEOREM Recovery == Spec => []VerdictsRecover
<1>1. Init => IInv
  BY InitIInv
<1>2. IInv /\ [Next]_vars => IInv'
  BY NextIInv
<1>3. IInv => VerdictsRecover
  BY DEF IInv
<1> QED BY <1>1, <1>2, <1>3, PTL DEF Spec

-----------------------------------------------------------------------------
(* What a check returns, and that no empty manifest index is kept.         *)

\* A set of naturals with 0 and the successors of its members has them all: if
\* k were missing, the members up to k would be mapped one to one into
\* themselves by successor, and not onto, though they are finitely many.
LEMMA Induction ==
  ASSUME NEW A \in SUBSET Nat, 0 \in A, \A n \in A : n + 1 \in A
  PROVE  A = Nat
<1> SUFFICES ASSUME NEW k \in Nat, k \notin A PROVE FALSE
  OBVIOUS
<1> DEFINE S == A \cap 0..k
           next == [n \in S |-> n + 1]
<1>1. IsFiniteSet(S)
  <2>1. IsFiniteSet(0..k) /\ S \in SUBSET (0..k)
    BY FS_Interval
  <2> HIDE DEF S
  <2> QED BY <2>1, FS_Subset
<1>2. next \in [S -> S]
  OBVIOUS
<1>3. next \in Injection(S, S)
  BY <1>2 DEF Injection, IsInjective
<1>4. next \in Surjection(S, S)
  BY <1>1, <1>3, FS_Injection
<1>5. \A m \in S : \E n \in S : next[n] = m
  BY <1>4 DEF Surjection
<1>6. 0 \in S
  OBVIOUS
<1> QED BY <1>5, <1>6

\* Of the integrations that the strings mention one is mentioned most
\* (most_common(), checker.py:189).
LEMMA Foremost ==
  ASSUME NEW a \in App, NEW ds \in SUBSET Domain, ds # {}
  PROVE  \E d \in ds : \A e \in ds : a.mentions[e] <= a.mentions[d]
<1> DEFINE f == a.mentions
           Topped(s) == s = {} \/ \E d \in s : \A e \in s : f[e] <= f[d]
           A == {n \in Nat : \A s \in SUBSET Domain : Cardinality(s) = n => Topped(s)}
<1>0. f \in [Domain -> Nat] /\ IsFiniteSet(Domain)
  BY DuplicateAssumption DEF AppType
<1>1. ASSUME NEW s \in SUBSET Domain PROVE IsFiniteSet(s) /\ Cardinality(s) \in Nat
  BY <1>0, FS_Subset, FS_CardinalityType
<1> HIDE DEF f
<1>2. 0 \in A
  BY <1>1, FS_EmptySet
<1>3. ASSUME NEW n \in A PROVE n + 1 \in A
  <2> SUFFICES ASSUME NEW s \in SUBSET Domain, Cardinality(s) = n + 1, s # {}
               PROVE  \E d \in s : \A e \in s : f[e] <= f[d]
    OBVIOUS
  <2>1. PICK x \in s : TRUE
    OBVIOUS
  <2>2. Cardinality(s \ {x}) = n
    BY <1>1, <2>1, FS_RemoveElement
  <2>3. Topped(s \ {x})
    BY <2>2
  <2> QED BY <1>0, <2>1, <2>3
<1>4. A = Nat
  BY <1>2, <1>3, Induction
<1>5. Topped(ds)
  BY <1>1, <1>4
<1> QED BY <1>5 DEF f

Kept ==
  /\ answer \in Verdict
  /\ file["manifests"].is = "whole" => file["manifests"].has # {}

LEMMA VerdictTypes ==
  ASSUME NEW a \in App, NEW s \in SUBSET Domain, NEW p \in SUBSET Domain
  PROVE  /\ NotFound \in Verdict
         /\ NameVerdict(a, s) \in Verdict
         /\ BrandVerdict(a, p) \in Verdict
         /\ BleVerdict(a, s) \in Verdict
<1>1. \A d \in Domain \cup {NoDomain}, c \in Coverage : Found(c, d) \in Verdict
  BY DEF Found, Verdict
<1>2. NotFound \in Verdict
  BY <1>1 DEF NotFound, Coverage
<1>3. NameVerdict(a, s) \in Verdict
  <2> DEFINE named == a.named \cap s
  <2>1. CASE named = {}
    BY <1>2, <2>1 DEF NameVerdict
  <2>2. CASE named # {}
    <3>1. (CHOOSE d \in named : TRUE) \in Domain
      BY <2>2
    <3> QED BY <1>1, <2>2, <3>1 DEF NameVerdict, Coverage
  <2> QED BY <2>1, <2>2
<1>4. BrandVerdict(a, p) \in Verdict
  <2> DEFINE mentioned == {d \in p : a.mentions[d] >= MinMentions}
             Top(d) == \A e \in mentioned : a.mentions[e] <= a.mentions[d]
             top == CHOOSE d \in mentioned : Top(d)
  <2>1. CASE mentioned = {}
    BY <1>2, <2>1 DEF BrandVerdict
  <2>2. CASE mentioned # {}
    <3>1. \E d \in mentioned : Top(d)
      BY <2>2, Foremost
    <3>2. top \in Domain
      BY <3>1
    <3>3. \E c \in {"full", "partial"} : BrandVerdict(a, p) = Found(c, top)
      BY <2>2 DEF BrandVerdict
    <3> QED BY <1>1, <3>2, <3>3 DEF Coverage
  <2> QED BY <2>1, <2>2
<1>5. BleVerdict(a, s) \in Verdict
  <2> DEFINE match == a.advertised \cap s
  <2>1. CASE match = {}
    BY <1>2, <2>1 DEF BleVerdict
  <2>2. CASE match # {}
    <3>1. (CHOOSE d \in match : TRUE) \in Domain
      BY <2>2
    <3> QED BY <1>1, <2>2, <3>1 DEF BleVerdict, Coverage
  <2> QED BY <2>1, <2>2
<1> QED BY <1>2, <1>3, <1>4, <1>5

\* What a fetch leaves in the file of the manifests.
LEMMA ManifestsNotEmpty ==
  ASSUME Typed, Kept, NEW m \in Manifests(seen)
  PROVE  m.has \in SUBSET Domain /\ (m.file.is = "whole" => m.file.has # {})
<1> DEFINE f == file["manifests"]
<1>1. f \in FileType
  BY DEF Typed, File
<1>2. CASE Valid("manifests")
  BY <1>1, <1>2 DEF Manifests, Kept, FileType
<1>3. CASE ~Valid("manifests")
  <2>1. PICK s \in SUBSET seen :
          m = [has |-> s, file |-> IF s = {} THEN f ELSE Saved(s), calm |-> Felt(s = seen)]
    BY <1>3 DEF Manifests
  <2> QED BY <2>1 DEF Saved, Kept, Typed
<1> QED BY <1>2, <1>3

LEMMA KeptNext ==
  ASSUME IInv, Kept, [Next]_vars
  PROVE  Kept'
<1> USE DEF IInv
<1>0. app \in App /\ seen \in SUBSET Domain
  BY DEF Typed
<1>1. \A v : Ends(v) /\ v \in Verdict => answer' \in Verdict
  BY DEF Ends
<1>2. \A s : ThenServices(s) => answer' \in Verdict
  BY <1>0, VerdictTypes DEF ThenServices, Ends, GoesOn, Kept
<1>3. ASSUME NEW a \in App, Begin(a) PROVE Kept'
  BY <1>3 DEF Begin, Kept, Found, NotFound, Verdict, Coverage, AppType
<1>4. CASE CheckName
  <2>1. PICK c \in Components :
          /\ c.file.is # "torn" /\ file' = [file EXCEPT !["components"] = c.file]
          /\ \/ Ends(NameVerdict(app, c.has)) \/ GoesOn("brands", c.has) \/ ThenServices(c.has)
    BY <1>4 DEF CheckName
  <2>2. c.has \in SUBSET Domain
    BY <2>1, ComponentsAreRecent
  <2>3. answer' \in Verdict
    BY <1>0, <1>1, <1>2, <2>1, <2>2, VerdictTypes DEF GoesOn, Kept
  <2> QED BY <2>1, <2>3 DEF Kept, Typed, File
<1>5. CASE CheckBrands
  <2>1. PICK m \in Manifests(seen) :
          /\ file' = [file EXCEPT !["manifests"] = m.file]
          /\ Ends(BrandVerdict(app, Products(m.has, seen))) \/ ThenServices(seen)
    BY <1>5 DEF CheckBrands
  <2>2. m.has \in SUBSET Domain /\ (m.file.is = "whole" => m.file.has # {})
    BY ManifestsNotEmpty
  <2>3. Products(m.has, seen) \in SUBSET Domain
    BY <1>0, <2>2 DEF Products
  <2>4. BrandVerdict(app, Products(m.has, seen)) \in Verdict
    BY <1>0, <2>3, VerdictTypes
  <2>5. answer' \in Verdict
    BY <1>1, <1>2, <2>1, <2>4
  <2> QED BY <2>1, <2>2, <2>5 DEF Kept, Typed, File
<1>6. CASE CheckServices
  <2>1. CASE UNCHANGED file /\ Ends(BleVerdict(app, file["uuids"].has))
    <3>1. file["uuids"].has \in SUBSET Domain
      BY DEF Typed, File, FileType
    <3> QED BY <1>0, <1>1, <2>1, <3>1, VerdictTypes DEF Kept
  <2>2. ASSUME NEW m \in Manifests(seen), file' = [file EXCEPT !["manifests"] = m.file],
               GoesOn("index", m.has)
        PROVE  Kept'
    BY <2>2, ManifestsNotEmpty DEF Kept, Typed, File, GoesOn
  <2> QED BY <1>6, <2>1, <2>2 DEF CheckServices
<1>7. CASE MakeIndex
  BY <1>0, <1>1, <1>7, VerdictTypes DEF MakeIndex, Kept, Typed, File
<1>8. CASE Dies
  <2>1. file'["manifests"] = file["manifests"] \/ file'["manifests"].is = "torn"
    BY <1>8 DEF Dies, Typed, File
  <2> QED BY <1>8, <2>1 DEF Dies, Kept
<1>9. CASE Tick
  BY <1>9 DEF Tick, Kept, Typed, File, FileType
<1>10. CASE Raises \/ UNCHANGED vars
  BY <1>10 DEF Raises, vars, check, Kept
<1> QED BY <1>3, <1>4, <1>5, <1>6, <1>7, <1>8, <1>9, <1>10 DEF Next, Check

\* Every variable keeps its type, a check always returns a verdict about an
\* integration of Home Assistant or none, and an empty manifest index, which
\* would let every component count for a product, is never kept
\* (checker.py:225-266), whatever is fetched and whenever a run dies.
THEOREM TypeCorrect == Spec => []TypeOK
<1>1. Init => IInv /\ Kept
  <2>1. Init => Kept
    BY DEF Init, Kept, Found, NotFound, Verdict, Coverage, File
  <2> QED BY <2>1, InitIInv
<1>2. IInv /\ Kept /\ [Next]_vars => (IInv /\ Kept)'
  BY NextIInv, KeptNext
<1>3. IInv /\ Kept => TypeOK
  BY DEF IInv, Kept, Typed, TypeOK
<1> QED BY <1>1, <1>2, <1>3, PTL DEF Spec
=============================================================================
