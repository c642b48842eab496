------------------------ MODULE RunSubmissionProofs ------------------------
(* Theorems about RunSubmission, for every file tree, every set of links   *)
(* and every spelling of a path: what is stored of a submission can be     *)
(* executed, stays what was meant, and is hashed for what it is.           *)
EXTENDS RunSubmission, WellFoundedInduction, TLAPS

(***************************************************************************)
(* Paths of any length                                                     *)
(***************************************************************************)
\* Induction over the numbers in the form of a set that is closed under
\* successor.
LEMMA SetInduction ==
  ASSUME NEW T, 0 \in T, \A n \in Nat : n \in T => n + 1 \in T
  PROVE  Nat \subseteq T
<1> DEFINE R == {ss \in Nat \X Nat : ss[1] < ss[2]}
           U == Nat \ T
<1>1. IsWellFoundedOn(R, Nat)
  BY NatLessThanWellFounded DEF OpToRel
<1>2. \A x, y \in Nat : x < y => <<x, y>> \in R
  OBVIOUS
<1> HIDE DEF R
<1>3. SUFFICES ASSUME U # {} PROVE FALSE
  OBVIOUS
<1>4. PICK x \in U : \A y \in U : ~ (<<y, x>> \in R)
  BY <1>1, <1>3, WFMin
<1>5. x - 1 \in Nat /\ x - 1 < x
  BY <1>4
<1>6. x - 1 \in T
  BY <1>2, <1>4, <1>5
<1> QED BY <1>4, <1>5, <1>6

\* The recursion that defines a way has a solution: WayOf is one.
LEMMA WayUnfolds ==
  ASSUME NEW links0, NEW start, NEW names \in Seq(STRING)
  PROVE  LET w == WayOf(links0, start, names)
         IN w = [i \in 0 .. Len(names) |->
                   IF i = 0 THEN start ELSE StepTo(links0, w[i - 1], names[i])]
<1> DEFINE IsWay(n, g) == g = [i \in 0 .. n |->
                                 IF i = 0 THEN start ELSE StepTo(links0, g[i - 1], names[i])]
           T == {n \in Nat : \E g : IsWay(n, g)}
<1>1. 0 \in T
  <2>1. IsWay(0, [i \in 0 .. 0 |-> start])
    OBVIOUS
  <2> QED BY <2>1
<1>2. ASSUME NEW n \in Nat, n \in T PROVE n + 1 \in T
  <2>1. PICK g : IsWay(n, g)
    BY <1>2
  <2> DEFINE last == StepTo(links0, g[n], names[n + 1])
             h == [i \in 0 .. n + 1 |-> IF i = n + 1 THEN last ELSE g[i]]
  <2>2. \A i \in 0 .. n : g[i] = IF i = 0 THEN start ELSE StepTo(links0, g[i - 1], names[i])
    BY <2>1
  <2>3. \A i \in 0 .. n : h[i] = g[i]
    BY <1>2
  <2>4. \A i \in 0 .. n + 1 :
          (IF i = n + 1 THEN last ELSE g[i]) =
          (IF i = 0 THEN start ELSE StepTo(links0, h[i - 1], names[i]))
    <3> TAKE i \in 0 .. n + 1
    <3>1. CASE i = n + 1
      <4>1. i # 0 /\ i - 1 = n /\ h[n] = g[n]
        BY <1>2, <2>3, <3>1
      <4> QED BY <3>1, <4>1
    <3>2. CASE i # n + 1 /\ i # 0
      <4>1. i \in 0 .. n /\ i - 1 \in 0 .. n
        BY <1>2, <3>2
      <4> QED BY <2>2, <2>3, <3>2, <4>1
    <3>3. CASE i = 0 /\ i # n + 1
      <4>1. 0 \in 0 .. n
        BY <1>2
      <4> QED BY <2>2, <3>3, <4>1
    <3> QED BY <3>1, <3>2, <3>3
  <2>5. IsWay(n + 1, h)
    BY <2>4
  <2> HIDE DEF h, IsWay
  <2> QED BY <1>2, <2>5
<1> HIDE DEF IsWay
<1>3. Nat \subseteq T
  BY <1>1, <1>2, SetInduction
<1>4. \E g : IsWay(Len(names), g)
  BY <1>3
<1> QED BY <1>4 DEF IsWay, WayOf

LEMMA WaySteps ==
  ASSUME NEW links0, NEW start, NEW names \in Seq(STRING)
  PROVE  /\ WayOf(links0, start, names)[0] = start
         /\ \A i \in 1 .. Len(names) :
              WayOf(links0, start, names)[i] =
                StepTo(links0, WayOf(links0, start, names)[i - 1], names[i])
<1> DEFINE w == WayOf(links0, start, names)
<1>1. w = [i \in 0 .. Len(names) |->
             IF i = 0 THEN start ELSE StepTo(links0, w[i - 1], names[i])]
  BY WayUnfolds
<1> HIDE DEF w
<1>2. Len(names) \in Nat
  OBVIOUS
<1>3. w[0] = start
  BY <1>1, <1>2
<1>4. \A i \in 1 .. Len(names) : w[i] = StepTo(links0, w[i - 1], names[i])
  BY <1>1, <1>2
<1> QED BY <1>3, <1>4 DEF w

(***************************************************************************)
(* Where a path can lead                                                   *)
(***************************************************************************)
\* Two sequences with the same elements are the same.
LEMMA SeqEqual ==
  ASSUME NEW S, NEW s \in Seq(S), NEW t \in Seq(S), Len(s) = Len(t),
         \A i \in 1 .. Len(s) : s[i] = t[i]
  PROVE  s = t
OBVIOUS

LEMMA PrefixOf ==
  ASSUME NEW S, NEW s \in Seq(S), NEW m \in 0 .. Len(s)
  PROVE  /\ SubSeq(s, 1, m) \in Seq(S) /\ Len(SubSeq(s, 1, m)) = m
         /\ \A i \in 1 .. m : SubSeq(s, 1, m)[i] = s[i]
OBVIOUS

LEMMA PrefixLocation ==
  ASSUME NEW l, IsLocation(l), NEW m \in 0 .. Len(l)
  PROVE  IsLocation(SubSeq(l, 1, m))
<1> DEFINE p == SubSeq(l, 1, m)
<1>1. l \in Seq(STRING) /\ \A i \in DOMAIN l : l[i] # ".."
  BY DEF IsLocation
<1>2. p \in Seq(STRING) /\ Len(p) = m /\ \A i \in 1 .. m : p[i] = l[i]
  BY <1>1
<1> HIDE DEF p
<1>3. IsLocation(p)
  BY <1>1, <1>2 DEF IsLocation
<1> QED BY <1>3 DEF p

LEMMA AppendLocation ==
  ASSUME NEW l, IsLocation(l), NEW name \in STRING, name # ".."
  PROVE  IsLocation(Append(l, name))
BY DEF IsLocation

LEMMA PrefixCanonical ==
  ASSUME NEW l, Canonical(l), NEW m \in 0 .. Len(l)
  PROVE  Canonical(SubSeq(l, 1, m))
<1> DEFINE p == SubSeq(l, 1, m)
<1>1. l \in Seq(STRING) /\ \A i \in DOMAIN l : l[i] # ".."
  BY DEF Canonical, IsLocation
<1>2. p \in Seq(STRING) /\ Len(p) = m /\ \A i \in 1 .. m : p[i] = l[i]
  BY <1>1
<1>3. \A n \in 1 .. m : SubSeq(p, 1, n) = SubSeq(l, 1, n)
  <2> TAKE n \in 1 .. m
  <2> HIDE DEF p
  <2>1. SubSeq(p, 1, n) \in Seq(STRING) /\ Len(SubSeq(p, 1, n)) = n
        /\ \A i \in 1 .. n : SubSeq(p, 1, n)[i] = p[i]
    BY <1>2
  <2>2. SubSeq(l, 1, n) \in Seq(STRING) /\ Len(SubSeq(l, 1, n)) = n
        /\ \A i \in 1 .. n : SubSeq(l, 1, n)[i] = l[i]
    BY <1>1
  <2>3. \A i \in 1 .. n : SubSeq(p, 1, n)[i] = SubSeq(l, 1, n)[i]
    BY <1>2, <2>1, <2>2
  <2> QED BY <2>1, <2>2, <2>3, SeqEqual
<1> HIDE DEF p
<1>4. IsLocation(p)
  BY <1>1, <1>2 DEF IsLocation
<1>5. \A n \in 1 .. Len(p) : SubSeq(p, 1, n) \notin DOMAIN LinkTargets
  <2> TAKE n \in 1 .. Len(p)
  <2>1. n \in 1 .. m /\ n \in 1 .. Len(l)
    BY <1>1, <1>2
  <2> QED BY <1>3, <2>1 DEF Canonical
<1> QED BY <1>4, <1>5 DEF Canonical, p

LEMMA AppendCanonical ==
  ASSUME NEW l, Canonical(l), NEW name \in STRING, name # "..",
         Append(l, name) \notin DOMAIN LinkTargets
  PROVE  Canonical(Append(l, name))
<1> DEFINE p == Append(l, name)
<1>1. l \in Seq(STRING) /\ \A i \in DOMAIN l : l[i] # ".."
  BY DEF Canonical, IsLocation
<1>2. /\ p \in Seq(STRING) /\ Len(p) = Len(l) + 1 /\ p[Len(l) + 1] = name
      /\ \A i \in 1 .. Len(l) : p[i] = l[i]
  BY <1>1
<1>3. \A n \in 1 .. Len(l) : SubSeq(p, 1, n) = SubSeq(l, 1, n)
  <2> TAKE n \in 1 .. Len(l)
  <2> HIDE DEF p
  <2>1. SubSeq(p, 1, n) \in Seq(STRING) /\ Len(SubSeq(p, 1, n)) = n
        /\ \A i \in 1 .. n : SubSeq(p, 1, n)[i] = p[i]
    BY <1>1, <1>2
  <2>2. SubSeq(l, 1, n) \in Seq(STRING) /\ Len(SubSeq(l, 1, n)) = n
        /\ \A i \in 1 .. n : SubSeq(l, 1, n)[i] = l[i]
    BY <1>1
  <2>3. \A i \in 1 .. n : SubSeq(p, 1, n)[i] = SubSeq(l, 1, n)[i]
    BY <1>2, <2>1, <2>2
  <2> QED BY <2>1, <2>2, <2>3, SeqEqual
<1>4. SubSeq(p, 1, Len(p)) = p
  <2>1. Len(p) \in 0 .. Len(p)
    BY <1>1, <1>2
  <2> HIDE DEF p
  <2> QED BY <1>2, <2>1, PrefixOf, SeqEqual
<1>5. p \notin DOMAIN LinkTargets
  OBVIOUS
<1> HIDE DEF p
<1>6. IsLocation(p)
  BY <1>1, <1>2 DEF IsLocation
<1>7. \A n \in 1 .. Len(p) : SubSeq(p, 1, n) \notin DOMAIN LinkTargets
  <2> TAKE n \in 1 .. Len(p)
  <2>1. n \in 1 .. Len(l) \/ n = Len(p)
    BY <1>1, <1>2
  <2> QED BY <1>3, <1>4, <1>5, <2>1 DEF Canonical
<1> QED BY <1>6, <1>7 DEF Canonical, p

\* Where resolve may be: at a location, and at one without links as long as it
\* has met no loop.
Sound(here) ==
  /\ here = [at |-> here.at, looped |-> here.looped]
  /\ here.looped \in BOOLEAN
  /\ IsLocation(here.at)
  /\ ~here.looped => Canonical(here.at)

LEMMA StepSound ==
  ASSUME NEW links0 \in LinkStates, NEW here, Sound(here), NEW name \in STRING
  PROVE  Sound(StepTo(links0, here, name))
<1> DEFINE at == here.at
           next == Append(at, name)
           there == StepTo(links0, here, name)
<1>1. /\ at \in Seq(STRING) /\ IsLocation(at) /\ here.looped \in BOOLEAN
      /\ here = [at |-> at, looped |-> here.looped]
      /\ ~here.looped => Canonical(at)
  BY DEF Sound, IsLocation
<1>2. CASE name = ".."
  <2>1. there = [here EXCEPT !.at = Parent(at)]
    BY <1>2 DEF StepTo
  <2>2. there = [at |-> Parent(at), looped |-> here.looped]
    <3> HIDE DEF there, at
    <3> QED BY <1>1, <2>1
  <2>3. IsLocation(Parent(at)) /\ (Canonical(at) => Canonical(Parent(at)))
    <3>1. CASE at = <<>>
      BY <1>1, <3>1 DEF Parent
    <3>2. CASE at # <<>>
      <4>1. Len(at) - 1 \in 0 .. Len(at)
        BY <1>1, <3>2
      <4> QED BY <1>1, <3>2, <4>1, PrefixLocation, PrefixCanonical DEF Parent, Front
    <3> QED BY <3>1, <3>2
  <2> HIDE DEF there, at
  <2> QED BY <1>1, <2>2, <2>3 DEF Sound, there
<1>3. CASE name # ".." /\ here.looped
  <2>1. there = [here EXCEPT !.at = next]
    BY <1>3 DEF StepTo
  <2>2. IsLocation(next)
    BY <1>1, <1>3, AppendLocation
  <2> HIDE DEF there, next, at
  <2>3. there = [at |-> next, looped |-> TRUE]
    BY <1>1, <1>3, <2>1
  <2> QED BY <2>2, <2>3 DEF Sound, there
<1>4. CASE name # ".." /\ ~here.looped
  <2>1. there = [at |-> LinkEnd(links0, next), looped |-> IsLoop(links0, next)]
    BY <1>4 DEF StepTo
  <2>2. DOMAIN links0 = DOMAIN LinkTargets
        /\ \A l \in DOMAIN LinkTargets : links0[l] \in LinkTargets[l]
    BY DEF LinkStates
  <2>3. Canonical(at) /\ IsLocation(next)
    BY <1>1, <1>4, AppendLocation
  <2>4. CASE IsLoop(links0, next)
    <3>1. LinkEnd(links0, next) = next
      BY <2>4 DEF IsLoop, LinkEnd
    <3>2. IsLoop(links0, next) = TRUE
      BY <2>4 DEF IsLoop
    <3> HIDE DEF there, next, at
    <3>3. there = [at |-> next, looped |-> TRUE]
      BY <2>1, <3>1, <3>2
    <3> QED BY <2>3, <3>3 DEF Sound, there
  <2>5. CASE ~IsLoop(links0, next)
    <3>1. Canonical(LinkEnd(links0, next))
      <4>1. CASE next \in DOMAIN links0
        BY <2>2, <2>5, <4>1, TreeAssumption DEF IsLoop, LinkEnd
      <4>2. CASE next \notin DOMAIN links0
        BY <1>4, <2>2, <2>3, <4>2, AppendCanonical DEF LinkEnd
      <4> QED BY <4>1, <4>2
    <3>2. IsLoop(links0, next) = FALSE
      BY <2>5 DEF IsLoop
    <3> HIDE DEF there, next, at
    <3>3. there = [at |-> LinkEnd(links0, next), looped |-> FALSE]
      BY <2>1, <3>2
    <3> QED BY <3>1, <3>3 DEF Sound, Canonical, there
  <2> QED BY <2>4, <2>5
<1> QED BY <1>1, <1>2, <1>3, <1>4

LEMMA WaySound ==
  ASSUME NEW links0 \in LinkStates, NEW start, Sound(start), NEW names \in Seq(STRING)
  PROVE  \A i \in 0 .. Len(names) : Sound(WayOf(links0, start, names)[i])
<1> DEFINE w == WayOf(links0, start, names)
           Good(i) == Sound(w[i])
           T == {n \in Nat : n <= Len(names) => Good(n)}
<1>1. w[0] = start /\ \A i \in 1 .. Len(names) : w[i] = StepTo(links0, w[i - 1], names[i])
  BY WaySteps
<1> HIDE DEF w
<1>2. 0 \in T
  BY <1>1
<1>3. ASSUME NEW n \in Nat, n \in T PROVE n + 1 \in T
  <2> SUFFICES ASSUME n + 1 <= Len(names) PROVE Good(n + 1)
    BY <1>3
  <2>1. /\ n <= Len(names) /\ n + 1 \in 1 .. Len(names) /\ (n + 1) - 1 = n
        /\ names[n + 1] \in STRING
    BY <1>3
  <2>2. Good(n) /\ w[n + 1] = StepTo(links0, w[n], names[n + 1])
    BY <1>1, <1>3, <2>1
  <2> QED BY <2>1, <2>2, StepSound
<1> HIDE DEF Good
<1>4. Nat \subseteq T
  BY <1>2, <1>3, SetInduction
<1>5. \A i \in 0 .. Len(names) : Good(i)
  BY <1>4
<1> QED BY <1>5 DEF Good, w

\* From a location without links, names that lead on to another one lead there,
\* whatever the links are.
LEMMA StraightWay ==
  ASSUME NEW links0 \in LinkStates, NEW from \in Seq(STRING), NEW names \in Seq(STRING),
         Canonical(from \o names)
  PROVE  WayOf(links0, [at |-> from, looped |-> FALSE], names)[Len(names)]
           = [at |-> from \o names, looped |-> FALSE]
<1> DEFINE start == [at |-> from, looped |-> FALSE]
           w == WayOf(links0, start, names)
           l == from \o names
           k == Len(from)
           Good(i) == w[i] = [at |-> SubSeq(l, 1, k + i), looped |-> FALSE]
           T == {n \in Nat : n <= Len(names) => Good(n)}
<1>1. w[0] = start /\ \A i \in 1 .. Len(names) : w[i] = StepTo(links0, w[i - 1], names[i])
  BY WaySteps
<1>2. /\ k \in Nat /\ Len(names) \in Nat
      /\ l \in Seq(STRING) /\ Len(l) = k + Len(names)
      /\ \A i \in 1 .. k : l[i] = from[i]
      /\ \A i \in 1 .. Len(names) : l[k + i] = names[i]
  OBVIOUS
<1>3. \A i \in 1 .. Len(l) : l[i] # ".."
  BY <1>2 DEF Canonical, IsLocation
<1>4. Canonical(l)
  OBVIOUS
<1> HIDE DEF w, l, k
<1>5. 0 \in T
  <2>1. SubSeq(l, 1, k) = from
    <3>1. SubSeq(l, 1, k) \in Seq(STRING) /\ Len(SubSeq(l, 1, k)) = k
          /\ \A i \in 1 .. k : SubSeq(l, 1, k)[i] = l[i]
      BY <1>2
    <3>2. Len(from) = k
      BY DEF k
    <3> QED BY <1>2, <3>1, <3>2, SeqEqual
  <2>2. k + 0 = k
    BY <1>2
  <2> QED BY <1>1, <2>1, <2>2
<1>6. ASSUME NEW n \in Nat, n \in T PROVE n + 1 \in T
  <2> SUFFICES ASSUME n + 1 <= Len(names) PROVE Good(n + 1)
    BY <1>6
  <2> DEFINE at == SubSeq(l, 1, k + n)
             here == [at |-> at, looped |-> FALSE]
             name == names[n + 1]
  <2>1. /\ n <= Len(names) /\ n + 1 \in 1 .. Len(names) /\ (n + 1) - 1 = n
        /\ k + n \in 0 .. Len(l) /\ k + n + 1 \in 1 .. Len(l) /\ k + (n + 1) = k + n + 1
    <3>1. k \in Nat /\ Len(names) \in Nat /\ Len(l) = k + Len(names)
      BY <1>2
    <3> HIDE DEF at, here, name, Good
    <3> QED BY <1>6, <3>1
  <2>2. w[n] = here /\ w[n + 1] = StepTo(links0, w[n], name)
    BY <1>1, <1>6, <2>1
  <2>4. name = l[k + n + 1] /\ name # ".." /\ name \in STRING
    BY <1>2, <1>3, <2>1
  <2>5. Append(at, name) = SubSeq(l, 1, k + n + 1)
    <3>1. at \in Seq(STRING) /\ Len(at) = k + n /\ \A i \in 1 .. k + n : at[i] = l[i]
      BY <1>2, <2>1
    <3> HIDE DEF at, name
    <3>2. /\ Append(at, name) \in Seq(STRING) /\ Len(Append(at, name)) = k + n + 1
          /\ \A i \in 1 .. k + n + 1 : Append(at, name)[i] = l[i]
      BY <1>2, <2>1, <2>4, <3>1
    <3>3. /\ SubSeq(l, 1, k + n + 1) \in Seq(STRING) /\ Len(SubSeq(l, 1, k + n + 1)) = k + n + 1
          /\ \A i \in 1 .. k + n + 1 : SubSeq(l, 1, k + n + 1)[i] = l[i]
      <4>1. k + n + 1 \in 0 .. Len(l)
        BY <1>2, <2>1
      <4> QED BY <1>2, <4>1, PrefixOf
    <3>4. \A i \in 1 .. k + n + 1 : Append(at, name)[i] = SubSeq(l, 1, k + n + 1)[i]
      BY <3>2, <3>3
    <3> QED BY <3>2, <3>3, <3>4, SeqEqual
  <2>6. SubSeq(l, 1, k + n + 1) \notin DOMAIN links0
    BY <1>4, <2>1 DEF Canonical, LinkStates
  <2>7. here.at = at /\ here.looped = FALSE
    OBVIOUS
  <2> HIDE DEF at, name, here
  <2>8. StepTo(links0, here, name) = [at |-> SubSeq(l, 1, k + n + 1), looped |-> FALSE]
    BY <2>4, <2>5, <2>6, <2>7 DEF StepTo, LinkEnd, IsLoop
  <2> QED BY <2>1, <2>2, <2>8
<1> HIDE DEF Good
<1>7. Nat \subseteq T
  BY <1>5, <1>6, SetInduction
<1>8. w[Len(names)] = [at |-> SubSeq(l, 1, k + Len(names)), looped |-> FALSE]
  BY <1>2, <1>7 DEF Good
<1>9. SubSeq(l, 1, k + Len(names)) = l
  BY <1>2
<1> QED BY <1>8, <1>9 DEF w, l

\* The names of a submitted path, and where it starts.
LEMMA PathOf ==
  ASSUME NEW c \in Config
  PROVE  NamesOf(c.mission) \in Seq(STRING) /\ Sound(StartAt(c.mission))
<1> DEFINE path == c.mission
<1>1. path.names \in Seq(STRING)
  BY DEF Config
<1>2. Canonical(<<>>)
  BY DEF Canonical, IsLocation
<1>3. Canonical(StartOf(path))
  BY <1>2, TreeAssumption DEF StartOf
<1> HIDE DEF path
<1>4. NamesOf(path) \in Seq(STRING)
  <2>1. Home \o path.names \in Seq(STRING)
    BY <1>1, PlacesAssumption
  <2> QED BY <1>1, <2>1 DEF NamesOf
<1> QED BY <1>3, <1>4 DEF Sound, StartAt, Canonical, path

\* A path is resolved to a location, without links unless it met a loop.
LEMMA ResolvedSound ==
  ASSUME NEW links0 \in LinkStates, NEW c \in Config
  PROVE  /\ IsLocation(Resolved(links0, c.mission)) /\ Looped(links0, c.mission) \in BOOLEAN
         /\ ~Looped(links0, c.mission) => Canonical(Resolved(links0, c.mission))
<1> DEFINE path == c.mission
           names == NamesOf(path)
           start == StartAt(path)
<1>1. names \in Seq(STRING) /\ Sound(start)
  BY PathOf
<1>2. Len(names) \in 0 .. Len(names)
  BY <1>1
<1>3. End(links0, path) = WayOf(links0, start, names)[Len(names)]
  BY DEF End, Way
<1> HIDE DEF path, names, start
<1>4. Sound(End(links0, path))
  BY <1>1, <1>2, <1>3, WaySound
<1> QED BY <1>4 DEF Sound, Resolved, Looped, path

\* Whoever opens a path finds what it resolves to, or nothing.
LEMMA OpenedResolved ==
  ASSUME NEW kind0, NEW links0, NEW path
  PROVE  Opened(kind0, links0, path) \in {Nowhere, Resolved(links0, path)}
BY DEF Opened

\* A way that met a loop leads past a link that leads back to itself.
LEMMA LoopMet ==
  ASSUME NEW links0 \in LinkStates, NEW start, Sound(start), ~start.looped,
         NEW names \in Seq(STRING)
  PROVE  LET w == WayOf(links0, start, names)
         IN \A n \in 0 .. Len(names) :
              w[n].looped => \E j \in 0 .. n : IsLoop(links0, w[j].at)
<1> DEFINE w == WayOf(links0, start, names)
           Good(i) == w[i].looped => \E j \in 0 .. i : IsLoop(links0, w[j].at)
           T == {n \in Nat : n <= Len(names) => Good(n)}
<1>1. w[0] = start /\ \A i \in 1 .. Len(names) : w[i] = StepTo(links0, w[i - 1], names[i])
  BY WaySteps
<1>2. \A i \in 0 .. Len(names) : Sound(w[i])
  BY WaySound
<1> HIDE DEF w
<1>3. 0 \in T
  BY <1>1
<1>4. ASSUME NEW n \in Nat, n \in T PROVE n + 1 \in T
  <2> SUFFICES ASSUME n + 1 <= Len(names), w[n + 1].looped
               PROVE  \E j \in 0 .. n + 1 : IsLoop(links0, w[j].at)
    BY <1>4
  <2> DEFINE name == names[n + 1]
             next == Append(w[n].at, name)
  <2>1. /\ n <= Len(names) /\ n + 1 \in 1 .. Len(names) /\ (n + 1) - 1 = n
        /\ n \in 0 .. Len(names)
    BY <1>4
  <2>2. Good(n) /\ w[n + 1] = StepTo(links0, w[n], name) /\ Sound(w[n])
    BY <1>1, <1>2, <1>4, <2>1
  <2>3. CASE w[n].looped
    BY <2>2, <2>3
  <2>4. CASE ~w[n].looped
    <3>1. name # ".."
      <4> SUFFICES ASSUME name = ".." PROVE FALSE
        OBVIOUS
      <4>1. w[n + 1] = [w[n] EXCEPT !.at = Parent(w[n].at)]
        BY <2>2 DEF StepTo
      <4>2. w[n] = [at |-> w[n].at, looped |-> w[n].looped]
        BY <2>2 DEF Sound
      <4> HIDE DEF name
      <4>3. w[n + 1].looped = w[n].looped
        BY <4>1, <4>2
      <4> QED BY <2>4, <4>3
    <3>2. w[n + 1] = [at |-> LinkEnd(links0, next), looped |-> IsLoop(links0, next)]
      BY <2>2, <2>4, <3>1 DEF StepTo
    <3> HIDE DEF name, next
    <3>3. w[n + 1].at = LinkEnd(links0, next) /\ w[n + 1].looped = IsLoop(links0, next)
      BY <3>2
    <3>4. IsLoop(links0, next)
      BY <3>3
    <3>5. w[n + 1].at = next
      BY <3>3, <3>4 DEF IsLoop, LinkEnd
    <3> QED BY <2>1, <3>4, <3>5
  <2> QED BY <2>3, <2>4
<1> HIDE DEF Good
<1>5. Nat \subseteq T
  BY <1>3, <1>4, SetInduction
<1>6. \A n \in 0 .. Len(names) : Good(n)
  BY <1>5
<1> QED BY <1>6 DEF Good, w

\* There is a first place on a way that is no directory, or its end.
LEMMA FirstStop ==
  ASSUME NEW last \in Nat, NEW dirs
  PROVE  \E i \in 0 .. last : /\ i = last \/ i \notin dirs
                              /\ \A j \in 0 .. i - 1 : j \in dirs
<1> DEFINE Stop(i) == (i = last \/ i \notin dirs) /\ \A j \in 0 .. i - 1 : j \in dirs
           All(n)  == \A j \in 0 .. n - 1 : j \in dirs
           T == {n \in Nat : n <= last => (\E i \in 0 .. last : Stop(i)) \/ All(n)}
<1>1. 0 \in T
  OBVIOUS
<1>2. ASSUME NEW n \in Nat, n \in T PROVE n + 1 \in T
  <2> SUFFICES ASSUME n + 1 <= last, ~\E i \in 0 .. last : Stop(i) PROVE All(n + 1)
    BY <1>2
  <2>1. n \in 0 .. last /\ All(n)
    BY <1>2
  <2>2. n \in dirs
    BY <2>1
  <2> QED BY <2>1, <2>2
<1>3. Nat \subseteq T
  <2> HIDE DEF T
  <2> QED BY <1>1, <1>2, SetInduction
<1>4. (\E i \in 0 .. last : Stop(i)) \/ All(last)
  BY <1>3
<1> QED BY <1>4

\* What is found at a path is at its end, and every place before is a directory.
LEMMA FoundAtEnd ==
  ASSUME NEW kind0, NEW links0, NEW path, NamesOf(path) \in Seq(STRING),
         Found(kind0, links0, path) \in {"file", "dir"}
  PROVE  /\ Found(kind0, links0, path) = KindAt(kind0, Resolved(links0, path))
         /\ \A i \in 0 .. Len(NamesOf(path)) : ~IsLoop(links0, Way(links0, path)[i].at)
<1> DEFINE way   == Way(links0, path)
           last  == Len(NamesOf(path))
           At(i) == IF IsLoop(links0, way[i].at) THEN "loop" ELSE KindAt(kind0, way[i].at)
           Stop(i) == (i = last \/ At(i) # "dir") /\ \A j \in 0 .. i - 1 : At(j) = "dir"
           stop  == CHOOSE i \in 0 .. last : Stop(i)
           dirs  == {i \in 0 .. last : At(i) = "dir"}
<1>1. Found(kind0, links0, path) =
        IF stop = last \/ At(stop) \in {"loop", "unreadable"} THEN At(stop) ELSE "none"
  BY DEF Found
<1>2. last \in Nat
  OBVIOUS
<1>3. Resolved(links0, path) = way[last].at
  BY DEF Resolved, End
<1> HIDE DEF last, At
<1>4. \E i \in 0 .. last : Stop(i)
  <2> HIDE DEF dirs
  <2>1. PICK i \in 0 .. last : (i = last \/ i \notin dirs) /\ \A j \in 0 .. i - 1 : j \in dirs
    BY <1>2, FirstStop
  <2>2. \A j \in 0 .. last : j \in dirs <=> At(j) = "dir"
    BY DEF dirs
  <2>3. \A j \in 0 .. i - 1 : At(j) = "dir"
    BY <1>2, <2>1, <2>2
  <2> QED BY <2>1, <2>2, <2>3
<1>5. stop \in 0 .. last /\ Stop(stop)
  BY <1>4
<1> HIDE DEF stop
<1>6. stop = last /\ At(last) \in {"file", "dir"} /\ Found(kind0, links0, path) = At(last)
  BY <1>1
<1>7. \A i \in 0 .. last : At(i) \in {"file", "dir"}
  BY <1>2, <1>5, <1>6
<1>8. \A i \in 0 .. last : ~IsLoop(links0, way[i].at) /\ At(i) = KindAt(kind0, way[i].at)
  BY <1>7 DEF At
<1> QED BY <1>2, <1>3, <1>6, <1>8 DEF last

\* A path that can be opened leads to a place without meeting a loop.
LEMMA OpenedWithoutLoop ==
  ASSUME NEW kind0, NEW links0 \in LinkStates, NEW c \in Config,
         Opened(kind0, links0, c.mission) # Nowhere
  PROVE  ~Looped(links0, c.mission)
<1> DEFINE path == c.mission
           names == NamesOf(path)
           start == StartAt(path)
<1>1. names \in Seq(STRING) /\ Sound(start) /\ ~start.looped
  BY PathOf DEF StartAt
<1>2. Found(kind0, links0, path) \in {"file", "dir"}
  BY DEF Opened
<1>3. /\ End(links0, path) = WayOf(links0, start, names)[Len(names)]
      /\ Way(links0, path) = WayOf(links0, start, names)
  BY DEF End, Way
<1> HIDE DEF path, names, start
<1>4. \A i \in 0 .. Len(names) : ~IsLoop(links0, WayOf(links0, start, names)[i].at)
  BY <1>1, <1>2, <1>3, FoundAtEnd DEF names
<1>5. Len(names) \in 0 .. Len(names)
  BY <1>1
<1>6. ~WayOf(links0, start, names)[Len(names)].looped
  BY <1>1, <1>4, <1>5, LoopMet
<1> QED BY <1>3, <1>6 DEF Looped, path

\* What stat says of a location without links is what is there.
LEMMA StatOfCanonical ==
  ASSUME NEW kind0, NEW links0 \in LinkStates, NEW l, Canonical(l),
         Stat(kind0, links0, l) = "file"
  PROVE  KindAt(kind0, l) = "file"
<1> DEFINE path == Absolute(l)
<1>1. l \in Seq(STRING)
  BY DEF Canonical, IsLocation
<1>2. NamesOf(path) = l /\ StartAt(path) = [at |-> <<>>, looped |-> FALSE]
  BY DEF NamesOf, StartAt, StartOf, Absolute
<1>3. <<>> \o l = l /\ <<>> \in Seq(STRING)
  BY <1>1
<1> HIDE DEF path
<1>4. End(links0, path) = WayOf(links0, [at |-> <<>>, looped |-> FALSE], l)[Len(l)]
  BY <1>2 DEF End, Way
<1>5. End(links0, path) = [at |-> l, looped |-> FALSE]
  BY <1>1, <1>3, <1>4, StraightWay
<1>6. Resolved(links0, path) = l
  BY <1>5 DEF Resolved
<1>7. Found(kind0, links0, path) = "file"
  BY DEF Stat, path
<1> QED BY <1>1, <1>2, <1>6, <1>7, FoundAtEnd

\* The stored form of a location in the repository stands for that location.
LEMMA RelativeAndBack ==
  ASSUME NEW l \in Seq(STRING), InRepo(l)
  PROVE  RepoRelative(l) \in Seq(STRING) /\ Repo \o RepoRelative(l) = l
<1> DEFINE k == Len(Repo)
           rest == SubSeq(l, k + 1, Len(l))
<1>1. /\ Repo \in Seq(STRING) /\ k \in Nat /\ Len(l) \in Nat /\ k <= Len(l)
      /\ SubSeq(Repo, 1, k) = SubSeq(l, 1, k)
  BY PlacesAssumption DEF IsLocation, InRepo, IsPrefix
<1>2. \A i \in 1 .. k : Repo[i] = l[i]
  <2>1. \A i \in 1 .. k : SubSeq(Repo, 1, k)[i] = Repo[i]
    <3>1. k \in 0 .. Len(Repo)
      BY <1>1
    <3> QED BY <1>1, <3>1, PrefixOf
  <2>2. \A i \in 1 .. k : SubSeq(l, 1, k)[i] = l[i]
    <3>1. k \in 0 .. Len(l)
      BY <1>1
    <3> HIDE DEF k
    <3> QED BY <1>1, <3>1, PrefixOf
  <2> QED BY <1>1, <2>1, <2>2
<1>3. /\ rest \in Seq(STRING) /\ Len(rest) = Len(l) - k
      /\ \A i \in 1 .. Len(l) - k : rest[i] = l[k + i]
  <2> HIDE DEF k
  <2> QED BY <1>1
<1> DEFINE whole == Repo \o rest
<1>4. /\ whole \in Seq(STRING) /\ Len(whole) = Len(l)
      /\ \A i \in 1 .. k : whole[i] = Repo[i]
      /\ \A i \in k + 1 .. Len(l) : whole[i] = rest[i - k]
  <2> HIDE DEF rest
  <2> QED BY <1>1, <1>3
<1>5. \A i \in 1 .. Len(l) : whole[i] = l[i]
  <2> TAKE i \in 1 .. Len(l)
  <2> HIDE DEF whole, rest, k
  <2>1. CASE i <= k
    BY <1>1, <1>2, <1>4, <2>1
  <2>2. CASE i > k
    <3>1. i - k \in 1 .. Len(l) - k /\ k + (i - k) = i /\ i \in k + 1 .. Len(l)
      BY <1>1, <2>2
    <3> QED BY <1>3, <1>4, <3>1
  <2> QED BY <1>1, <2>1, <2>2
<1>6. whole = l
  <2> HIDE DEF whole
  <2> QED BY <1>4, <1>5, SeqEqual
<1> QED BY <1>3, <1>6 DEF RepoRelative

LEMMA BackAndRelative ==
  ASSUME NEW names \in Seq(STRING)
  PROVE  InRepo(Repo \o names) /\ RepoRelative(Repo \o names) = names
<1> DEFINE k == Len(Repo)
           l == Repo \o names
           rest == SubSeq(l, k + 1, Len(l))
<1>1. /\ Repo \in Seq(STRING) /\ k \in Nat /\ Len(names) \in Nat
      /\ l \in Seq(STRING) /\ Len(l) = k + Len(names)
      /\ \A i \in 1 .. k : l[i] = Repo[i]
      /\ \A i \in 1 .. Len(names) : l[k + i] = names[i]
  BY PlacesAssumption DEF IsLocation
<1>2. SubSeq(l, 1, k) = SubSeq(Repo, 1, k)
  <2>1. k \in 0 .. Len(l) /\ k \in 0 .. Len(Repo)
    BY <1>1
  <2> HIDE DEF l, k
  <2>2. /\ SubSeq(l, 1, k) \in Seq(STRING) /\ Len(SubSeq(l, 1, k)) = k
        /\ \A i \in 1 .. k : SubSeq(l, 1, k)[i] = l[i]
    BY <1>1, <2>1, PrefixOf
  <2>3. /\ SubSeq(Repo, 1, k) \in Seq(STRING) /\ Len(SubSeq(Repo, 1, k)) = k
        /\ \A i \in 1 .. k : SubSeq(Repo, 1, k)[i] = Repo[i]
    BY <1>1, <2>1, PrefixOf
  <2>4. \A i \in 1 .. Len(SubSeq(l, 1, k)) : SubSeq(l, 1, k)[i] = SubSeq(Repo, 1, k)[i]
    BY <1>1, <2>2, <2>3
  <2> QED BY <2>2, <2>3, <2>4, SeqEqual
<1>3. rest = names
  <2> HIDE DEF l, k
  <2>1. /\ rest \in Seq(STRING) /\ Len(rest) = Len(names)
        /\ \A i \in 1 .. Len(names) : rest[i] = l[k + i]
    BY <1>1
  <2> HIDE DEF rest
  <2> QED BY <1>1, <2>1, SeqEqual
<1> QED BY <1>1, <1>2, <1>3 DEF InRepo, IsPrefix, RepoRelative

\* Below the repository, a location is stored without "..".
LEMMA RelativeLocation ==
  ASSUME NEW l, IsLocation(l), InRepo(l)
  PROVE  IsLocation(RepoRelative(l))
<1> DEFINE k == Len(Repo)
           rest == SubSeq(l, k + 1, Len(l))
<1>1. /\ l \in Seq(STRING) /\ k \in Nat /\ Len(l) \in Nat /\ k <= Len(l)
      /\ \A i \in 1 .. Len(l) : l[i] # ".."
  BY PlacesAssumption DEF IsLocation, InRepo, IsPrefix
<1>2. /\ rest \in Seq(STRING) /\ Len(rest) = Len(l) - k
      /\ \A i \in 1 .. Len(l) - k : rest[i] = l[k + i]
  <2> HIDE DEF k
  <2> QED BY <1>1
<1>3. \A i \in 1 .. Len(l) - k : k + i \in 1 .. Len(l)
  <2> HIDE DEF k
  <2> QED BY <1>1
<1> HIDE DEF rest, k
<1>4. IsLocation(rest)
  BY <1>1, <1>2, <1>3 DEF IsLocation
<1> QED BY <1>4 DEF RepoRelative, rest, k

(***************************************************************************)
(* The inductive invariant                                                 *)
(***************************************************************************)
\* What is there is what was there at the start, or nothing.
TreeSound == \A l \in DOMAIN Tree : kind[l] \in {Tree[l], "none"}

\* Between its two steps a submission keeps the location its path had, whatever
\* happens to links and files.
PendingSound ==
  pending # NoPending =>
    /\ pending.pc = "resolved"
    /\ pending.payload \in Submitted
    /\ pending.payload.project \in projects
    /\ RunnerOf(pending.payload) = "solo_wargame"
    /\ IsLocation(pending.mission)
    /\ ~pending.looped => Canonical(pending.mission)
    /\ pending.meant \in {Nowhere, pending.mission}
    /\ pending.meant # Nowhere => ~pending.looped

\* A stored run of solo_wargame is the normal form of what was submitted, for a
\* location in the repository; unless its path met a loop, that was a file and
\* leads through no link.
SoloRow(row, known) ==
  LET mission == Repo \o row.normalized.mission
  IN /\ row.project \in known
     /\ row.submitted \in Config
     /\ RestAccepted(row.submitted)
     /\ row.normalized.mission \in Seq(STRING) /\ IsLocation(row.normalized.mission)
     /\ row.normalized = Normalized(row.submitted, mission)
     /\ ~row.looped => Canonical(mission) /\ KindAt(Tree, mission) = "file"
     /\ row.meant \in {Nowhere, mission}
     /\ row.meant # Nowhere => ~row.looped

RowSound(r) ==
  /\ rows[r].runner \in RunnerType \cup {"none"}
  /\ rows[r].runner = "solo_wargame" => SoloRow(rows[r], projects)

SubInv == /\ TypeOK
          /\ rows = [r \in Run |-> rows[r]]
          /\ TreeSound
          /\ PendingSound
          /\ \A r \in Run : RowSound(r)

LEMMA InitSub == Init => SubInv
<1> SUFFICES ASSUME Init PROVE SubInv
  OBVIOUS
<1>1. /\ projects = {} /\ rows = [r \in Run |-> NoRow] /\ kind = Tree
      /\ links \in LinkStates /\ pending = NoPending /\ answer = "none"
  BY DEF Init
<1>2. \A r \in Run : rows[r].runner = "none"
  BY <1>1 DEF NoRow
<1>3. kind \in [DOMAIN Tree -> {"file", "dir", "unreadable", "none"}]
  <2>1. Tree \in [DOMAIN Tree -> {"file", "dir", "unreadable", "none"}]
    BY TreeAssumption
  <2> QED BY <1>1, <2>1
<1>4. TypeOK
  BY <1>1, <1>2, <1>3 DEF TypeOK, NoPending
<1> QED
  BY <1>1, <1>2, <1>4 DEF SubInv, TreeSound, PendingSound, RowSound

\* The other rows, and what is in flight, depend on nothing that is ever taken
\* back: projects are not deleted and locations have no memory of links.
LEMMA StoreKeepsRows ==
  ASSUME SubInv, NEW row, Store(row), projects' = projects,
         row.runner \in RunnerType \cup {"none"},
         row.runner = "solo_wargame" => SoloRow(row, projects)
  PROVE  /\ rows' = [r \in Run |-> rows'[r]] /\ \A r \in Run : RowSound(r)'
         /\ \A r \in Run : rows'[r].runner \in RunnerType \cup {"none"}
<1>1. PICK q \in Run : rows' = [rows EXCEPT ![q] = row]
  BY DEF Store
<1>2. rows = [r \in Run |-> rows[r]]
  BY DEF SubInv
<1>3. rows' = [r \in Run |-> IF r = q THEN row ELSE rows[r]]
  BY <1>1, <1>2
<1>4. rows' = [r \in Run |-> rows'[r]]
  BY <1>3
<1>5. rows'[q] = row /\ \A r \in Run \ {q} : rows'[r] = rows[r]
  BY <1>3
<1>6. \A r \in Run : RowSound(r)'
  <2> TAKE r \in Run
  <2>1. CASE r = q
    BY <1>5, <2>1 DEF RowSound
  <2>2. CASE r # q
    BY <1>5, <2>2 DEF RowSound, SubInv
  <2> QED BY <2>1, <2>2
<1> QED BY <1>4, <1>6 DEF RowSound

(***************************************************************************)
(* Steps                                                                   *)
(***************************************************************************)
\* Nothing but the end of a submission writes a row.
LEMMA RowsKept ==
  ASSUME SubInv, UNCHANGED rows, projects \subseteq projects'
  PROVE  /\ rows' = [r \in Run |-> rows'[r]]
         /\ \A r \in Run : RowSound(r)' /\ rows'[r].runner \in RunnerType \cup {"none"}
<1>1. rows' = [r \in Run |-> rows'[r]]
  BY DEF SubInv
<1>2. \A r \in Run : RowSound(r)'
  BY DEF SubInv, RowSound, SoloRow
<1> QED BY <1>1, <1>2 DEF RowSound

LEMMA IdleSound ==
  ASSUME pending' = NoPending
  PROVE  /\ PendingSound' /\ pending'.pc \in {"idle", "resolved"}
         /\ (pending # NoPending => /\ pending.payload \in Submitted
                                   /\ IsLocation(pending.mission)
                                   /\ pending.looped \in BOOLEAN)'
BY DEF PendingSound, NoPending

LEMMA CreateProjectStep ==
  ASSUME SubInv, NEW p \in Project, CreateProject(p)
  PROVE  SubInv'
<1>1. /\ projects' = projects \cup {p}
      /\ UNCHANGED <<rows, kind, links, pending, answer>>
  BY DEF CreateProject
<1>2. PendingSound' /\ TreeSound'
  BY <1>1 DEF SubInv, PendingSound, TreeSound
<1>3. TypeOK'
  BY <1>1 DEF SubInv, TypeOK
<1> QED BY <1>1, <1>2, <1>3, RowsKept DEF SubInv

\* A submission that is refused stores nothing.
LEMMA RefusedStep ==
  ASSUME SubInv, NEW code \in {"404", "422", "500"}, Answered(code),
         UNCHANGED <<projects, rows, kind, links>>
  PROVE  SubInv'
<1>1. pending' = NoPending /\ answer' = code
  BY DEF Answered
<1>2. TreeSound'
  BY DEF SubInv, TreeSound
<1>3. TypeOK'
  BY <1>1, IdleSound DEF SubInv, TypeOK
<1> QED BY <1>1, <1>2, <1>3, RowsKept, IdleSound DEF SubInv

\* A run is stored whole.
LEMMA StoredStep ==
  ASSUME SubInv, NEW row, Store(row), UNCHANGED <<projects, kind, links>>,
         row.runner \in RunnerType,
         row.runner = "solo_wargame" => SoloRow(row, projects)
  PROVE  SubInv'
<1>1. pending' = NoPending /\ answer' = "201"
  BY DEF Store, Answered
<1>2. TreeSound'
  BY DEF SubInv, TreeSound
<1>3. /\ rows' = [r \in Run |-> rows'[r]] /\ \A r \in Run : RowSound(r)'
      /\ \A r \in Run : rows'[r].runner \in RunnerType \cup {"none"}
  BY StoreKeepsRows
<1>4. TypeOK'
  BY <1>1, <1>3, IdleSound DEF SubInv, TypeOK
<1> QED BY <1>1, <1>2, <1>3, <1>4, IdleSound DEF SubInv

LEMMA SubmitStubStep ==
  ASSUME SubInv, NEW payload \in Submitted, SubmitStub(payload)
  PROVE  SubInv'
<1> DEFINE row == Row(payload, payload.config, Nowhere, FALSE)
<1>1. UNCHANGED <<projects, kind, links>> /\ row.runner = "stub"
  BY DEF SubmitStub, Row
<1> HIDE DEF row
<1>2. row.runner \in RunnerType /\ row.runner # "solo_wargame"
  BY <1>1 DEF RunnerType
<1>3. CASE Store(row)
  BY <1>1, <1>2, <1>3, StoredStep
<1>4. CASE Answered("500") /\ UNCHANGED rows
  BY <1>1, <1>4, RefusedStep
<1> QED BY <1>3, <1>4 DEF SubmitStub, row

\* The path is resolved to a location, and to one without links unless it met a
\* loop; what the path names, if it names anything, is that location.
LEMMA SubmitSoloStep ==
  ASSUME SubInv, NEW payload \in Submitted, SubmitSolo(payload)
  PROVE  SubInv'
<1> DEFINE path == payload.config.mission
<1>1. /\ RefusedWith(payload) = "none" /\ RunnerOf(payload) = "solo_wargame"
      /\ UNCHANGED <<projects, rows, kind, links>>
  BY DEF SubmitSolo
<1>2. CASE Answered("422") \/ Answered("500")
  BY <1>1, <1>2, RefusedStep
<1>3. CASE /\ pending' = [pc      |-> "resolved",
                          payload |-> payload,
                          mission |-> Resolved(links, path),
                          meant   |-> Opened(kind, links, path),
                          looped  |-> Looped(links, path)]
           /\ UNCHANGED answer
  <2>1. payload.config \in Config /\ links \in LinkStates
    BY SubmittedAssumption DEF SubInv, TypeOK
  <2>2. /\ IsLocation(Resolved(links, path)) /\ Looped(links, path) \in BOOLEAN
        /\ ~Looped(links, path) => Canonical(Resolved(links, path))
    BY <2>1, ResolvedSound
  <2>3. /\ Opened(kind, links, path) \in {Nowhere, Resolved(links, path)}
        /\ Opened(kind, links, path) # Nowhere => ~Looped(links, path)
    BY <2>1, OpenedResolved, OpenedWithoutLoop
  <2>4. payload.project \in projects
    BY <1>1 DEF RefusedWith
  <2>5. /\ pending'.pc = "resolved" /\ pending'.payload = payload
        /\ pending'.mission = Resolved(links, path)
        /\ pending'.meant = Opened(kind, links, path)
        /\ pending'.looped = Looped(links, path)
    BY <1>3
  <2>6. PendingSound'
    BY <1>1, <2>2, <2>3, <2>4, <2>5 DEF PendingSound
  <2>7. TypeOK'
    <3>1. /\ pending'.payload \in Submitted /\ IsLocation(pending'.mission)
          /\ pending'.looped \in BOOLEAN
      BY <2>2, <2>5
    <3> QED BY <1>1, <1>3, <2>5, <3>1, RowsKept DEF SubInv, TypeOK
  <2>8. TreeSound'
    BY <1>1 DEF SubInv, TreeSound
  <2> QED BY <1>1, <2>6, <2>7, <2>8, RowsKept DEF SubInv
<1> QED BY <1>2, <1>3 DEF SubmitSolo

\* What is stored is what was found a file in the repository, at the location
\* that the path had led to before.
LEMMA FinishSoloStep ==
  ASSUME SubInv, FinishSolo
  PROVE  SubInv'
<1> DEFINE c == pending.payload.config
           mission == pending.mission
           found == Stat(kind, links, mission)
           n == Normalized(c, mission)
           row == Row(pending.payload, n, pending.meant, pending.looped)
<1>1. /\ pending # NoPending /\ UNCHANGED <<projects, kind, links>>
      /\ pending.payload \in Submitted /\ pending.payload.project \in projects
      /\ RunnerOf(pending.payload) = "solo_wargame"
      /\ IsLocation(mission) /\ (~pending.looped => Canonical(mission))
      /\ pending.meant \in {Nowhere, mission}
      /\ pending.meant # Nowhere => ~pending.looped
  BY DEF FinishSolo, SubInv, PendingSound
<1>2. CASE (Answered("422") \/ Answered("500")) /\ UNCHANGED rows
  BY <1>1, <1>2, RefusedStep
<1>3. CASE InRepo(mission) /\ found = "file" /\ RestAccepted(c) /\ Store(row)
  <2>1. c \in Config /\ links \in LinkStates
    BY <1>1, SubmittedAssumption DEF SubInv, TypeOK
  <2>2. /\ RepoRelative(mission) \in Seq(STRING) /\ Repo \o RepoRelative(mission) = mission
        /\ IsLocation(RepoRelative(mission))
    BY <1>1, <1>3, RelativeAndBack, RelativeLocation DEF IsLocation
  <2>3. ~pending.looped => Canonical(mission) /\ KindAt(Tree, mission) = "file"
    <3>1. SUFFICES ASSUME ~pending.looped PROVE Canonical(mission) /\ KindAt(Tree, mission) = "file"
      OBVIOUS
    <3>2. Canonical(mission) /\ KindAt(kind, mission) = "file"
      BY <1>1, <1>3, <2>1, <3>1, StatOfCanonical
    <3>3. mission \in DOMAIN kind /\ kind[mission] = "file"
      BY <3>2 DEF KindAt
    <3>4. DOMAIN kind = DOMAIN Tree
      BY DEF SubInv, TypeOK
    <3> QED BY <3>2, <3>3, <3>4 DEF SubInv, TreeSound, KindAt
  <2>4. n.mission = RepoRelative(mission)
    BY DEF Normalized
  <2>5. /\ row.runner = "solo_wargame" /\ row.project = pending.payload.project
        /\ row.submitted = c /\ row.normalized = n /\ row.meant = pending.meant
        /\ row.looped = pending.looped
    BY <1>1 DEF Row
  <2> HIDE DEF c, mission, n, row, found
  <2>6. n = Normalized(c, mission)
    BY DEF n
  <2>7. Repo \o row.normalized.mission = mission
    BY <2>2, <2>4, <2>5
  <2>8. /\ row.meant \in {Nowhere, mission} /\ row.project \in projects
        /\ row.runner \in RunnerType /\ (row.meant # Nowhere => ~row.looped)
        /\ (~row.looped => Canonical(mission) /\ KindAt(Tree, mission) = "file")
    BY <1>1, <2>3, <2>5 DEF RunnerType
  <2>9. /\ row.submitted \in Config /\ RestAccepted(row.submitted)
        /\ row.normalized.mission \in Seq(STRING) /\ IsLocation(row.normalized.mission)
        /\ row.normalized = Normalized(row.submitted, mission)
    BY <1>3, <2>1, <2>2, <2>4, <2>5, <2>6
  <2>10. SoloRow(row, projects)
    BY <2>7, <2>8, <2>9 DEF SoloRow
  <2> QED BY <1>1, <1>3, <2>8, <2>10, StoredStep
<1> QED BY <1>2, <1>3 DEF FinishSolo

LEMMA TreeStep ==
  ASSUME SubInv,
         \/ \E l \in DOMAIN LinkTargets : \E target \in LinkTargets[l] : Retarget(l, target)
         \/ \E l \in Volatile : Appears(l)
  PROVE  SubInv'
<1>1. UNCHANGED <<projects, rows, pending, answer>>
  BY DEF Retarget, Appears
<1>2. PendingSound'
  BY <1>1 DEF SubInv, PendingSound
<1>3. links' \in LinkStates /\ kind' \in [DOMAIN Tree -> {"file", "dir", "unreadable", "none"}] /\ TreeSound'
  <2>1. /\ links \in LinkStates /\ kind \in [DOMAIN Tree -> {"file", "dir", "unreadable", "none"}]
        /\ TreeSound
    BY DEF SubInv, TypeOK
  <2>2. ASSUME NEW l \in DOMAIN LinkTargets, NEW target \in LinkTargets[l], Retarget(l, target)
        PROVE  links' \in LinkStates
    <3>1. target \in UNION Range(LinkTargets)
      BY DEF Range
    <3> QED BY <2>1, <2>2, <3>1 DEF Retarget, LinkStates
  <2>3. ASSUME NEW l \in Volatile, Appears(l)
        PROVE  kind' \in [DOMAIN Tree -> {"file", "dir", "unreadable", "none"}] /\ TreeSound'
    <3>1. /\ l \in DOMAIN Tree /\ Tree[l] \in {"file", "dir", "unreadable"}
          /\ kind' = [kind EXCEPT ![l] = IF kind[l] = "none" THEN Tree[l] ELSE "none"]
      BY <2>3, TreeAssumption DEF Appears
    <3> QED BY <2>1, <3>1 DEF TreeSound
  <2> QED BY <2>1, <2>2, <2>3 DEF Retarget, Appears, TreeSound
<1>4. TypeOK'
  BY <1>1, <1>3 DEF SubInv, TypeOK
<1> QED BY <1>1, <1>2, <1>3, <1>4, RowsKept DEF SubInv

LEMMA NextSub == SubInv /\ [Next]_vars => SubInv'
<1> SUFFICES ASSUME SubInv, [Next]_vars PROVE SubInv'
  OBVIOUS
<1>1. ASSUME NEW payload \in Submitted, SubmitRefused(payload) PROVE SubInv'
  <2>1. RefusedWith(payload) \in {"404", "422", "500"}
    BY <1>1 DEF SubmitRefused, RefusedWith
  <2> QED BY <1>1, <2>1, RefusedStep DEF SubmitRefused
<1>2. CASE UNCHANGED vars
  BY <1>2, RowsKept DEF vars, SubInv, TypeOK, TreeSound, PendingSound
<1> QED
  BY <1>1, <1>2, CreateProjectStep, SubmitStubStep, SubmitSoloStep, FinishSoloStep, TreeStep
     DEF Next

(***************************************************************************)
(* Theorems                                                                *)
(***************************************************************************)
\* The invariant of submissions, for every tree, every payload and every path.
THEOREM SubmissionSound == Spec => []SubInv
BY InitSub, NextSub, PTL DEF Spec

\* Every variable keeps its type; in particular no submission goes on with a
\* path that has a ".." left in it.
THEOREM SubmissionTypes == Spec => []TypeOK
<1>1. SubInv => TypeOK
  BY DEF SubInv
<1> QED BY <1>1, SubmissionSound, PTL

\* The seeds that pass the check are integers, and there is one at least.
LEMMA SeedsRight ==
  ASSUME NEW c \in Config, SeedsAccepted(c.seeds)
  PROVE  Seeds(c.seeds) # {} /\ Seeds(c.seeds) \subseteq Int
<1> DEFINE s == c.seeds
<1>1. /\ s.start \in Int \cup {NotInt} /\ s.stop \in Int \cup {NotInt}
      /\ s.list \in Seq(Int \cup {NotInt})
  BY DEF Config
<1>2. CASE s.kind = "range"
  <2>1. s.start \in Int /\ s.stop \in Int /\ s.stop > s.start
    BY <1>1, <1>2 DEF SeedsAccepted
  <2>2. Seeds(s) = s.start .. s.stop - 1
    BY <1>2 DEF Seeds
  <2>3. s.start \in s.start .. s.stop - 1
    BY <2>1
  <2> QED BY <2>1, <2>2, <2>3
<1>3. CASE s.kind # "range"
  <2>1. s.list # <<>> /\ \A i \in DOMAIN s.list : s.list[i] # NotInt
    BY <1>3 DEF SeedsAccepted
  <2>2. Seeds(s) = {s.list[i] : i \in DOMAIN s.list}
    BY <1>3 DEF Seeds, ToSet
  <2> HIDE DEF s
  <2>3. 1 \in DOMAIN s.list /\ \A i \in DOMAIN s.list : s.list[i] \in Int
    BY <1>1, <2>1
  <2> QED BY <2>2, <2>3 DEF s
<1> QED BY <1>2, <1>3

\* What RowSound says of a stored config, field by field.
LEMMA SoloFacts ==
  ASSUME SubInv, NEW r \in Solo
  PROVE  LET c == rows[r].submitted
             n == rows[r].normalized
         IN /\ rows[r].project \in projects
            /\ c \in Config /\ RestAccepted(c)
            /\ n = [mission |-> n.mission, policy |-> c.policy,
                    seeds |-> c.seeds, rows |-> RowsOrDefault(c.rows)]
            /\ c.rows \in {"absent", "true", "false"}
            /\ n.rows \in {"true", "false"}
            /\ n.rows = "true" <=> c.rows = "true"
            /\ n.mission \in Seq(STRING) /\ IsLocation(n.mission)
            /\ ~rows[r].looped =>
                 Canonical(Repo \o n.mission) /\ KindAt(Tree, Repo \o n.mission) = "file"
            /\ rows[r].meant \in {Nowhere, Repo \o n.mission}
            /\ rows[r].meant # Nowhere => ~rows[r].looped
<1> DEFINE c == rows[r].submitted
           n == rows[r].normalized
           mission == Repo \o n.mission
<1>1. /\ rows[r].project \in projects /\ c \in Config /\ RestAccepted(c)
      /\ n.mission \in Seq(STRING) /\ IsLocation(n.mission)
      /\ n = Normalized(c, mission)
      /\ ~rows[r].looped => Canonical(mission) /\ KindAt(Tree, mission) = "file"
      /\ rows[r].meant \in {Nowhere, mission}
      /\ rows[r].meant # Nowhere => ~rows[r].looped
  BY DEF SubInv, RowSound, SoloRow, Solo
<1>2. c.rows \in {"absent", "true", "false"}
  BY <1>1 DEF RestAccepted, RowsAccepted, Config
<1>3. n = [mission |-> n.mission, policy |-> c.policy,
           seeds |-> c.seeds, rows |-> RowsOrDefault(c.rows)]
  <2> HIDE DEF c, n, mission
  <2> QED BY <1>1 DEF Normalized
<1>4. /\ n.rows \in {"true", "false"}
      /\ n.rows = "true" <=> c.rows = "true"
  <2>1. n.rows = RowsOrDefault(c.rows)
    <3> HIDE DEF c, n
    <3> QED BY <1>3
  <2> HIDE DEF c, n
  <2> QED BY <1>2, <2>1 DEF RowsOrDefault
<1> QED BY <1>1, <1>2, <1>3, <1>4

\* Every stored run can be executed as it is; its mission was a file in the
\* repository unless its path met a loop.
THEOREM StoredRunnableCorrect == Spec => []StoredRunnable
<1>1. ASSUME SubInv PROVE StoredRunnable
  <2> SUFFICES ASSUME NEW r \in Solo
               PROVE  LET n == rows[r].normalized
                      IN /\ rows[r].project \in projects
                         /\ IsLocation(n.mission)
                         /\ ~rows[r].looped => KindAt(Tree, Repo \o n.mission) = "file"
                         /\ Seeds(n.seeds) # {} /\ Seeds(n.seeds) \subseteq Int
                         /\ n.policy \in SupportedPolicies
                         /\ n.rows \in {"true", "false"}
    BY DEF StoredRunnable
  <2> DEFINE c == rows[r].submitted
             n == rows[r].normalized
  <2>1. /\ rows[r].project \in projects /\ c \in Config /\ RestAccepted(c)
        /\ n = [mission |-> n.mission, policy |-> c.policy,
                seeds |-> c.seeds, rows |-> RowsOrDefault(c.rows)]
        /\ n.rows \in {"true", "false"} /\ IsLocation(n.mission)
        /\ ~rows[r].looped => KindAt(Tree, Repo \o n.mission) = "file"
    BY <1>1, SoloFacts
  <2>2. SeedsAccepted(c.seeds) /\ c.policy \in SupportedPolicies
    BY <2>1 DEF RestAccepted, PolicyAccepted
  <2>3. n.seeds = c.seeds /\ n.policy = c.policy
    <3> HIDE DEF n, c
    <3> QED BY <2>1
  <2>4. Seeds(n.seeds) # {} /\ Seeds(n.seeds) \subseteq Int
    <3> HIDE DEF n, c
    <3> QED BY <2>1, <2>2, <2>3, SeedsRight
  <2> QED BY <2>1, <2>2, <2>3, <2>4
<1> QED BY <1>1, SubmissionSound, PTL

\* Two stored configs are hashed alike exactly if they ask for the same batch.
THEOREM HashCorrect == Spec => []HashIdentifiesBatch
<1>1. ASSUME SubInv PROVE HashIdentifiesBatch
  <2> SUFFICES ASSUME NEW r \in Solo, NEW s \in Solo,
                      rows[r].meant # Nowhere, rows[s].meant # Nowhere
               PROVE  Hash(r) = Hash(s) <=> Batch(r) = Batch(s)
    BY DEF HashIdentifiesBatch
  <2> DEFINE c == rows[r].submitted
             n == rows[r].normalized
             d == rows[s].submitted
             m == rows[s].normalized
  <2>1. /\ n = [mission |-> n.mission, policy |-> c.policy,
                seeds |-> c.seeds, rows |-> RowsOrDefault(c.rows)]
        /\ n.rows \in {"true", "false"} /\ (n.rows = "true" <=> c.rows = "true")
        /\ n.mission \in Seq(STRING)
        /\ rows[r].meant = Repo \o n.mission
    BY <1>1, SoloFacts
  <2>2. /\ m = [mission |-> m.mission, policy |-> d.policy,
                seeds |-> d.seeds, rows |-> RowsOrDefault(d.rows)]
        /\ m.rows \in {"true", "false"} /\ (m.rows = "true" <=> d.rows = "true")
        /\ m.mission \in Seq(STRING)
        /\ rows[s].meant = Repo \o m.mission
    BY <1>1, SoloFacts
  <2>3. /\ Hash(r) = <<n.mission, n.policy, n.seeds, n.rows>>
        /\ Hash(s) = <<m.mission, m.policy, m.seeds, m.rows>>
        /\ Batch(r) = <<Repo \o n.mission, c.policy, c.seeds, c.rows = "true">>
        /\ Batch(s) = <<Repo \o m.mission, d.policy, d.seeds, d.rows = "true">>
    BY <2>1, <2>2 DEF Hash, HashedText, Batch
  <2>4. Repo \o n.mission = Repo \o m.mission => n.mission = m.mission
    BY <2>1, <2>2, BackAndRelative
  <2>5. n.policy = c.policy /\ n.seeds = c.seeds
    <3> HIDE DEF n, c
    <3> QED BY <2>1
  <2>6. m.policy = d.policy /\ m.seeds = d.seeds
    <3> HIDE DEF m, d
    <3> QED BY <2>2
  <2>7. n.rows = m.rows <=> ((c.rows = "true") = (d.rows = "true"))
    BY <2>1, <2>2
  <2> HIDE DEF n, c, m, d
  <2>8. Hash(r) = Hash(s) <=>
          n.mission = m.mission /\ c.policy = d.policy /\ c.seeds = d.seeds /\ n.rows = m.rows
    BY <2>3, <2>5, <2>6
  <2>9. Batch(r) = Batch(s) <=>
          /\ Repo \o n.mission = Repo \o m.mission /\ c.policy = d.policy /\ c.seeds = d.seeds
          /\ (c.rows = "true") = (d.rows = "true")
    BY <2>3
  <2> QED BY <2>4, <2>7, <2>8, <2>9
<1> QED BY <1>1, SubmissionSound, PTL

\* Submitted again, or opened by the upstream command, a stored mission leads to
\* the location it was stored for, wherever links point by then, unless its path
\* met a loop.
LEMMA StoredLeadsHome ==
  ASSUME SubInv, NEW r \in Solo, ~rows[r].looped,
         NEW path, path = [root |-> "relative", names |-> rows[r].normalized.mission]
  PROVE  Resolved(links, path) = Repo \o rows[r].normalized.mission
<1> DEFINE names == rows[r].normalized.mission
<1>1. names \in Seq(STRING) /\ Canonical(Repo \o names) /\ links \in LinkStates
      /\ Repo \in Seq(STRING)
  BY SoloFacts, PlacesAssumption DEF SubInv, TypeOK, IsLocation
<1>2. NamesOf(path) = names /\ StartAt(path) = [at |-> Repo, looped |-> FALSE]
  BY DEF NamesOf, StartAt, StartOf
<1> HIDE DEF names
<1>3. End(links, path) = WayOf(links, [at |-> Repo, looped |-> FALSE], names)[Len(names)]
  BY <1>2 DEF End, Way
<1>4. End(links, path) = [at |-> Repo \o names, looped |-> FALSE]
  BY <1>1, <1>3, StraightWay
<1> QED BY <1>4 DEF Resolved, names

\* Whenever an attempt is executed, the file that was meant is opened or none.
THEOREM MissionStaysPutCorrect == Spec => []MissionStaysPut
<1>1. ASSUME SubInv PROVE MissionStaysPut
  <2> SUFFICES ASSUME NEW r \in Solo, rows[r].meant # Nowhere
               PROVE  Opened(kind, links, RequestOf(rows[r]).mission_path)
                        \in {rows[r].meant, Nowhere}
    BY DEF MissionStaysPut
  <2> DEFINE path == RequestOf(rows[r]).mission_path
  <2>1. path = [root |-> "relative", names |-> rows[r].normalized.mission]
    BY DEF RequestOf, EpisodeBatchRequest
  <2>2. rows[r].meant = Repo \o rows[r].normalized.mission /\ ~rows[r].looped
    BY <1>1, SoloFacts
  <2> HIDE DEF path
  <2>3. Resolved(links, path) = rows[r].meant
    BY <1>1, <2>1, <2>2, StoredLeadsHome
  <2>4. Opened(kind, links, path) \in {Nowhere, Resolved(links, path)}
    BY OpenedResolved
  <2> QED BY <2>3, <2>4 DEF path
<1> QED BY <1>1, SubmissionSound, PTL

\* A stored config that is submitted again is accepted and stored as itself,
\* unless its path met a loop.
THEOREM ReproducibleCorrect == Spec => []Reproducible
<1>1. ASSUME SubInv PROVE Reproducible
  <2> SUFFICES ASSUME NEW r \in Solo, ~rows[r].looped,
                      Stat(kind, links, Resolved(links, Resubmitted(rows[r].normalized).mission))
                        = "file"
               PROVE  LET n  == rows[r].normalized
                          c  == Resubmitted(n)
                          at == Resolved(links, c.mission)
                      IN /\ ~Unresolvable(kind, links, c.mission)
                         /\ InRepo(at) /\ RestAccepted(c) /\ Normalized(c, at) = n
    BY DEF Reproducible
  <2> DEFINE n == rows[r].normalized
             d == rows[r].submitted
             c == Resubmitted(n)
             at == Resolved(links, c.mission)
  <2>1. /\ c.mission = [root |-> "relative", names |-> n.mission]
        /\ c.policy = n.policy /\ c.seeds = n.seeds /\ c.rows = n.rows
    BY DEF Resubmitted
  <2>2. /\ n = [mission |-> n.mission, policy |-> d.policy,
                seeds |-> d.seeds, rows |-> RowsOrDefault(d.rows)]
        /\ n.rows \in {"true", "false"} /\ n.mission \in Seq(STRING)
        /\ RestAccepted(d)
    BY <1>1, SoloFacts
  <2>3. at = Repo \o n.mission
    BY <1>1, <2>1, StoredLeadsHome
  <2>4. InRepo(at) /\ RepoRelative(at) = n.mission
    BY <2>2, <2>3, BackAndRelative
  <2>7. ~Unresolvable(kind, links, c.mission)
    BY <2>1 DEF Unresolvable
  <2> HIDE DEF n, d, c, at
  <2>5. RestAccepted(c)
    <3>1. n.policy = d.policy /\ n.seeds = d.seeds
      BY <2>2
    <3> QED BY <2>1, <2>2, <3>1 DEF RestAccepted, RowsAccepted
  <2>6. Normalized(c, at) = n
    <3>1. RowsOrDefault(c.rows) = n.rows
      BY <2>1, <2>2 DEF RowsOrDefault
    <3>2. Normalized(c, at) = [mission |-> n.mission, policy |-> n.policy,
                               seeds |-> n.seeds, rows |-> n.rows]
      BY <2>1, <2>4, <3>1 DEF Normalized
    <3>3. n = [mission |-> n.mission, policy |-> n.policy,
               seeds |-> n.seeds, rows |-> n.rows]
      BY <2>2
    <3> QED BY <3>2, <3>3
  <2> QED BY <2>4, <2>5, <2>6, <2>7 DEF n, c, at
<1> QED BY <1>1, SubmissionSound, PTL
=============================================================================
