---------------------------- MODULE ProcessProofs ----------------------------
(***************************************************************************)
(* Theorems about Process: what the set-up opens is closed in reverse      *)
(* order, and nobody uses it afterwards.                                   *)
(***************************************************************************)
EXTENDS Process, HttpControllerProofs, WellFoundedInduction

-----------------------------------------------------------------------------
(* The resources, in the order in which the set-up opens them. *)

Rungs ==
    IF Repo = "postgres"
    THEN <<"tracer", "meter", "pool", "backend", "http", "feature">>
    ELSE <<"tracer", "meter", "backend", "http", "feature">>

\* How many of them a number of set-up steps opens.
Reach(steps) ==
    LET pool == IF Repo = "postgres" THEN 1 ELSE 0
    IN CASE steps \in 0..2 -> 0
         [] steps = 3      -> 2
         [] steps \in 4..5 -> 2 + pool
         [] steps = 6      -> 3 + pool
         [] steps = 7      -> 4 + pool
         [] steps = 8      -> 5 + pool

\* What is open is what is registered, the first m of the resources.
Climbed(m) ==
    /\ m \in 0..Len(Rungs)
    /\ closers = [i \in 1..m |-> Rungs[i]]
    /\ open = {Rungs[i] : i \in 1..m}

\* The resources of a set-up are distinct.
LEMMA RungsType ==
    /\ Rungs \in Seq(Resources) /\ Len(Rungs) \in 5..6
    /\ \A i, k \in 1..Len(Rungs) : Rungs[i] = Rungs[k] => i = k
<1>1. CASE Repo = "postgres"
  BY <1>1 DEF Rungs, Resources
<1>2. CASE Repo # "postgres"
  BY <1>2 DEF Rungs, Resources
<1>. QED  BY <1>1, <1>2

\* The feature is opened after the server, the server after what requests need.
LEMMA RungsOrder ==
    ASSUME NEW m, Climbed(m)
    PROVE  /\ "feature" \in open => "http" \in open
           /\ "http" \in open => "backend" \in open
           /\ "http" \in open /\ Repo = "postgres" => "pool" \in open
           /\ m = Len(Rungs) => "feature" \in open
<1>1. CASE Repo = "postgres"
  <2>1. /\ Len(Rungs) = 6 /\ Rungs[3] = "pool" /\ Rungs[4] = "backend"
        /\ Rungs[5] = "http" /\ Rungs[6] = "feature"
    BY <1>1 DEF Rungs
  <2>2. \A i \in 1..6 : Rungs[i] = "http" => i = 5
    BY <2>1, RungsType
  <2>3. \A i \in 1..6 : Rungs[i] = "feature" => i = 6
    BY <2>1, RungsType
  <2>. QED  BY <2>1, <2>2, <2>3 DEF Climbed
<1>2. CASE Repo # "postgres"
  <2>1. /\ Len(Rungs) = 5 /\ Rungs[3] = "backend"
        /\ Rungs[4] = "http" /\ Rungs[5] = "feature"
    BY <1>2 DEF Rungs
  <2>2. \A i \in 1..5 : Rungs[i] = "http" => i = 4
    BY <2>1, RungsType
  <2>3. \A i \in 1..5 : Rungs[i] = "feature" => i = 5
    BY <2>1, RungsType
  <2>. QED  BY <1>2, <2>1, <2>2, <2>3 DEF Climbed
<1>. QED  BY <1>1, <1>2

\* The registered resources are well formed, and empty only when none is open.
LEMMA ClimbedType ==
    ASSUME NEW m, Climbed(m)
    PROVE  /\ closers \in Seq(Resources) /\ Len(closers) = m
           /\ open = Range(closers)
           /\ closers = <<>> <=> m = 0
           /\ m = 0 => open = {}
<1>1. m \in Nat /\ 1..m \subseteq 1..Len(Rungs)
  BY RungsType DEF Climbed
<1>2. closers \in Seq(Resources) /\ Len(closers) = m
  BY <1>1, RungsType DEF Climbed
<1>3. open = Range(closers)
  BY <1>1 DEF Climbed, Range
<1>4. closers = <<>> <=> m = 0
  BY <1>2
<1>5. m = 0 => open = {}
  BY DEF Climbed
<1>. QED  BY <1>2, <1>3, <1>4, <1>5

\* Closing the last resource.
LEMMA RungClosed ==
    ASSUME NEW m, Climbed(m), closers # <<>>, NEW r, Last(closers) = r, Closed(r)
    PROVE  Climbed(m - 1)'
<1>1. m \in 1..Len(Rungs) /\ Len(Rungs) \in Nat /\ Len(closers) = m
  BY ClimbedType, RungsType DEF Climbed
<1>2. r = Rungs[m]
  BY <1>1 DEF Last, Climbed
<1>3. closers' = [i \in 1..(m - 1) |-> Rungs[i]]
  <2>1. closers' = SubSeq(closers, 1, m - 1)
    BY <1>1 DEF Closed, Front
  <2>2. SubSeq(closers, 1, m - 1) = [i \in 1..(m - 1) |-> closers[i]]
    BY <1>1, ClimbedType
  <2>3. \A i \in 1..(m - 1) : closers[i] = Rungs[i]
    BY <1>1 DEF Climbed
  <2>. QED  BY <2>1, <2>2, <2>3
<1>4. open' = {Rungs[i] : i \in 1..(m - 1)}
  <2>1. open' = {Rungs[i] : i \in 1..m} \ {Rungs[m]}
    BY <1>2 DEF Closed, Climbed
  <2>2. \A i \in 1..(m - 1) : Rungs[i] # Rungs[m]
    BY <1>1, RungsType
  <2>3. 1..m = 1..(m - 1) \cup {m}
    BY <1>1
  <2>. QED  BY <2>1, <2>2, <2>3
<1>. QED  BY <1>1, <1>3, <1>4 DEF Climbed

\* Sequences of at most two elements, and concatenation.
LEMMA ShortSequences ==
    ASSUME NEW S
    PROVE  /\ <<>> \in Seq(S) /\ Len(<<>>) = 0
           /\ \A a \in S : <<a>> \in Seq(S) /\ Len(<<a>>) = 1 /\ <<a>>[1] = a
           /\ \A a, b \in S : /\ <<a, b>> \in Seq(S) /\ Len(<<a, b>>) = 2
                             /\ <<a, b>>[1] = a /\ <<a, b>>[2] = b
OBVIOUS

\* The elements of two sequences, one after the other.
LEMMA Concatenation ==
    ASSUME NEW S, NEW s \in Seq(S), NEW u \in Seq(S)
    PROVE  /\ s \o u \in Seq(S) /\ Len(s \o u) = Len(s) + Len(u)
           /\ \A i \in 1..Len(s) : (s \o u)[i] = s[i]
           /\ \A i \in 1..Len(u) : (s \o u)[Len(s) + i] = u[i]
OBVIOUS

\* Registering the next one or two, or none.
LEMMA RungsOpened ==
    ASSUME NEW m, Climbed(m), NEW opened \in Seq(Resources),
           m + Len(opened) <= Len(Rungs),
           \A i \in 1..Len(opened) : opened[i] = Rungs[m + i],
           closers' = Register(opened), open' = open \cup Range(opened)
    PROVE  Climbed(m + Len(opened))'
<1> DEFINE l == Len(opened)
<1>1. m \in Nat /\ l \in Nat /\ Len(Rungs) \in Nat /\ Len(closers) = m
  BY ClimbedType, RungsType DEF Climbed
<1>2. closers' = [i \in 1..(m + l) |-> Rungs[i]]
  <2> DEFINE c == closers \o opened
  <2>1. closers' = c /\ closers \in Seq(Resources)
    BY ClimbedType DEF Register
  <2>2. /\ c \in Seq(Resources) /\ Len(c) = Len(closers) + l
        /\ \A i \in 1..Len(closers) : c[i] = closers[i]
        /\ \A i \in 1..l : c[Len(closers) + i] = opened[i]
    BY <2>1, Concatenation
  <2> HIDE DEF c
  <2>3. /\ \A i \in 1..m : c[i] = Rungs[i]
        /\ \A i \in 1..l : c[m + i] = Rungs[m + i]
    BY <1>1, <2>2 DEF Climbed
  <2>4. \A i \in 1..(m + l) : i \in 1..m \/ (i - m \in 1..l /\ i = m + (i - m))
    BY <1>1
  <2>5. \A i \in 1..(m + l) : c[i] = Rungs[i]
    BY <2>3, <2>4
  <2>6. c = [i \in 1..(m + l) |-> c[i]]
    BY <1>1, <2>2
  <2>. QED  BY <2>1, <2>5, <2>6
<1>3. open' = {Rungs[i] : i \in 1..(m + l)}
  <2>1. Range(opened) = {Rungs[m + i] : i \in 1..l}
    BY DEF Range
  <2>2. \A i \in 1..(m + l) : i \in 1..m \/ (i - m \in 1..l /\ i = m + (i - m))
    BY <1>1
  <2>3. /\ \A i \in 1..m : i \in 1..(m + l)
        /\ \A i \in 1..l : m + i \in 1..(m + l)
    BY <1>1
  <2>4. open' = {Rungs[i] : i \in 1..m} \cup {Rungs[m + i] : i \in 1..l}
    BY <2>1 DEF Climbed
  <2>5. \A x : x \in open' => \E i \in 1..(m + l) : x = Rungs[i]
    BY <2>3, <2>4
  <2>6. \A i \in 1..(m + l) : Rungs[i] \in open'
    BY <2>2, <2>4
  <2> DEFINE N == 1..(m + l)
  <2> HIDE DEF N
  <2>7. \A x : x \in open' <=> x \in {Rungs[i] : i \in N}
    BY <2>5, <2>6, Zenon DEF N
  <2>. QED  BY <2>7, Zenon DEF N
<1>. QED  BY <1>1, <1>2, <1>3 DEF Climbed

\* A step that opens nothing, one resource, or the telemetry.
LEMMA ReachesBy ==
    ASSUME NEW s \in 0..7, NEW o,
           \/ o = <<>> /\ Reach(s + 1) = Reach(s)
           \/ /\ \E a \in Resources : o = <<a>> /\ Rungs[Reach(s) + 1] = a
              /\ Reach(s + 1) = Reach(s) + 1
           \/ o = <<"tracer", "meter">> /\ Reach(s) = 0 /\ Reach(s + 1) = 2
    PROVE  /\ o \in Seq(Resources)
           /\ Reach(s) + Len(o) = Reach(s + 1)
           /\ Reach(s + 1) <= Len(Rungs)
           /\ \A i \in 1..Len(o) : o[i] = Rungs[Reach(s) + i]
<1>1. Reach(s) \in Nat /\ Reach(s + 1) <= Len(Rungs)
  BY DEF Reach, Rungs
<1>2. CASE o = <<>> /\ Reach(s + 1) = Reach(s)
  BY <1>1, <1>2, ShortSequences
<1>3. ASSUME NEW a \in Resources, o = <<a>>, Rungs[Reach(s) + 1] = a,
             Reach(s + 1) = Reach(s) + 1
      PROVE  /\ o \in Seq(Resources) /\ Reach(s) + Len(o) = Reach(s + 1)
             /\ \A i \in 1..Len(o) : o[i] = Rungs[Reach(s) + i]
  BY <1>1, <1>3, ShortSequences
<1>4. CASE o = <<"tracer", "meter">> /\ Reach(s) = 0 /\ Reach(s + 1) = 2
  <2>1. /\ "tracer" \in Resources /\ "meter" \in Resources
        /\ Rungs[1] = "tracer" /\ Rungs[2] = "meter"
    BY DEF Resources, Rungs
  <2>. QED  BY <1>1, <1>4, <2>1, ShortSequences
<1>. QED  BY <1>1, <1>2, <1>3, <1>4

\* What each set-up step opens comes next.
LEMMA SetupReaches ==
    ASSUME NEW s \in 0..7, NEW o, o = Opens(SetupSteps[s + 1])
    PROVE  /\ o \in Seq(Resources)
           /\ Reach(s) + Len(o) = Reach(s + 1)
           /\ Reach(s + 1) <= Len(Rungs)
           /\ \A i \in 1..Len(o) : o[i] = Rungs[Reach(s) + i]
<1>0. CASE s = 0
  <2>1. o = <<>>
    BY <1>0 DEF SetupSteps, Opens
  <2>. QED  BY <1>0, <2>1, ReachesBy DEF Reach
<1>1. CASE s = 1
  <2>1. o = <<>>
    BY <1>1 DEF SetupSteps, Opens
  <2>. QED  BY <1>1, <2>1, ReachesBy DEF Reach
<1>2. CASE s = 2
  <2>1. o = <<"tracer", "meter">>
    BY <1>2 DEF SetupSteps, Opens
  <2>. QED  BY <1>2, <2>1, ReachesBy DEF Reach
<1>3. CASE s = 3
  <2>1. o = IF Repo = "postgres" THEN <<"pool">> ELSE <<>>
    BY <1>3 DEF SetupSteps, Opens
  <2>2. CASE Repo = "postgres"
    <3>1. "pool" \in Resources /\ Rungs[3] = "pool"
      BY <2>2 DEF Resources, Rungs
    <3>2. Reach(3) = 2 /\ Reach(4) = 3
      BY <2>2 DEF Reach
    <3>. QED  BY <1>3, <2>1, <2>2, <3>1, <3>2, ReachesBy
  <2>3. CASE Repo # "postgres"
    BY <1>3, <2>1, <2>3, ReachesBy DEF Reach
  <2>. QED  BY <2>2, <2>3
<1>4. CASE s = 4
  <2>1. o = <<>>
    BY <1>4 DEF SetupSteps, Opens
  <2>. QED  BY <1>4, <2>1, ReachesBy DEF Reach
<1>5. CASE s = 5
  <2>1. o = <<"backend">> /\ "backend" \in Resources
    BY <1>5 DEF SetupSteps, Opens, Resources
  <2>2. Reach(6) = Reach(5) + 1 /\ Rungs[Reach(5) + 1] = "backend"
    BY DEF Reach, Rungs
  <2>. QED  BY <1>5, <2>1, <2>2, ReachesBy
<1>6. CASE s = 6
  <2>1. o = <<"http">> /\ "http" \in Resources
    BY <1>6 DEF SetupSteps, Opens, Resources
  <2>2. Reach(7) = Reach(6) + 1 /\ Rungs[Reach(6) + 1] = "http"
    BY DEF Reach, Rungs
  <2>. QED  BY <1>6, <2>1, <2>2, ReachesBy
<1>7. CASE s = 7
  <2>1. o = <<"feature">> /\ "feature" \in Resources
    BY <1>7 DEF SetupSteps, Opens, Resources
  <2>2. Reach(8) = Reach(7) + 1 /\ Rungs[Reach(7) + 1] = "feature"
    BY DEF Reach, Rungs
  <2>. QED  BY <1>7, <2>1, <2>2, ReachesBy
<1>. QED  BY <1>0, <1>1, <1>2, <1>3, <1>4, <1>5, <1>6, <1>7

\* A step that fails has opened nothing, or the tracer.
LEMMA FailureReaches ==
    ASSUME NEW s \in 0..7, NEW opened \in {<<>>, <<"tracer">>},
           IsPrefix(opened, Opens(SetupSteps[s + 1]))
    PROVE  /\ opened \in Seq(Resources)
           /\ Reach(s) + Len(opened) <= Len(Rungs)
           /\ \A i \in 1..Len(opened) : opened[i] = Rungs[Reach(s) + i]
<1> DEFINE all == Opens(SetupSteps[s + 1])
<1>1. /\ Reach(s) \in Nat /\ Reach(s) <= Len(Rungs) /\ Len(Rungs) \in Nat
      /\ Reach(s) + 1 <= Reach(s + 1) => Reach(s) + 1 <= Len(Rungs)
  BY DEF Reach, Rungs
<1>2. CASE opened = <<>>
  BY <1>1, <1>2, ShortSequences
<1>3. CASE opened = <<"tracer">>
  <2>1. opened \in Seq(Resources) /\ Len(opened) = 1 /\ opened[1] = "tracer"
    BY <1>3, ShortSequences DEF Resources
  <2>2. /\ all \in Seq(Resources) /\ Reach(s) + Len(all) = Reach(s + 1)
        /\ \A i \in 1..Len(all) : all[i] = Rungs[Reach(s) + i]
    <3> HIDE DEF all
    <3>1. all = Opens(SetupSteps[s + 1])
      BY DEF all
    <3>. QED  BY <3>1, SetupReaches
  <2>3. Len(opened) <= Len(all) /\ SubSeq(opened, 1, 1) = SubSeq(all, 1, 1)
    BY <2>1 DEF IsPrefix
  <2> HIDE DEF all
  <2>4. SubSeq(opened, 1, 1)[1] = opened[1] /\ SubSeq(all, 1, 1)[1] = all[1]
    BY <2>1, <2>2, <2>3
  <2>. QED  BY <1>1, <2>1, <2>2, <2>3, <2>4
<1>. QED  BY <1>2, <1>3

-----------------------------------------------------------------------------
(* The inductive invariant: how far the process has come up or down, and who *)
(* is still at work then.                                                    *)

\* A goroutine that is left can only notice that it is canceled.
Quiet == \A t \in Tasks : Worker(t) => At(t, "begin")

NobodyServed == \A t \in Tasks : task[t] = Idle /\ exchange[t] = Free

\* The values of main's variables.
MainTypes ==
    /\ main \in {"setup", "serve", "close", "exit", "panic"}
    /\ setup \in 0..8
    /\ wait \in {"none", "waiting", "released", "returned"}
    /\ server \in {"off", "on", "failed", "down"}
    /\ following \in BOOLEAN
    /\ stop \in BOOLEAN
    /\ expired \in BOOLEAN

\* What is registered is the first of the resources, as many as the set-up steps
\* have opened; the process ends when none is left.
Ladder ==
    /\ Climbed(Len(closers))
    /\ main = "setup" => setup \in 0..7 /\ Len(closers) = Reach(setup)
    /\ main = "exit" => closers = <<>>

\* Nobody is served before the set-up is over, and a set-up that fails does so before
\* the server is there; the wait of Close starts after the
\* cancel, and when it has returned the goroutines that are left stop by themselves;
\* within the deadline the feature closes after that, and the server only when all
\* handlers are done and no other comes.
Curtain ==
    /\ main = "setup" => server = "off" /\ ~Canceled
    /\ server = "off" => NobodyServed /\ ~following
    /\ server = "off" /\ main # "setup" => "http" \notin open
    /\ wait # "none" => Canceled
    /\ wait = "returned" => Quiet
    /\ server # "off" /\ ~expired =>
          /\ "feature" \notin open => wait = "returned"
          /\ "http" \notin open => server = "down" /\ HandlersDone

ProcessInv == MainTypes /\ Ladder /\ Curtain

\* How many resources are registered after a step that registers or closes some.
LEMMA ClimbedNext ==
    ASSUME NEW m, Climbed(m)'
    PROVE  Len(closers') = m /\ Climbed(Len(closers))'
<1>1. m \in Nat /\ closers' = [i \in 1..m |-> Rungs[i]]
  BY RungsType DEF Climbed
<1>2. Len(closers') = m
  BY <1>1
<1>. QED  BY <1>2 DEF Climbed

\* A step that registers and closes nothing.
LEMMA ClimbedStays ==
    ASSUME Climbed(Len(closers)), UNCHANGED <<closers, open>>
    PROVE  Climbed(Len(closers))' /\ Len(closers') = Len(closers)
BY DEF Climbed

\* What closes the last of the resources leaves the others.
LEMMA LadderDown ==
    ASSUME Ladder, main = "close", main' = "close", NEW r, Closing(r), Closed(r)
    PROVE  Ladder'
<1>1. PICK m : m = Len(closers)
  OBVIOUS
<1>2. Climbed(m) /\ closers # <<>> /\ Last(closers) = r
  BY <1>1 DEF Ladder, Closing
<1>3. Climbed(m - 1)'
  BY <1>2, RungClosed
<1>. QED  BY <1>3, ClimbedNext DEF Ladder

\* A set-up step adds the next resources to what is open and registered, a closer
\* takes the last of both away.
LEMMA LadderStep ==
    ASSUME MainTypes, Ladder, [ProcessNext]_processVars
    PROVE  MainTypes' /\ Ladder'
<1>1. CASE SetupStep
  <2> DEFINE o == Opens(SetupSteps[setup + 1])
  <2>1. PICK m, l : m = Len(closers) /\ l = o
    OBVIOUS
  <2>2. setup \in 0..7 /\ Climbed(m) /\ m = Reach(setup)
    BY <1>1, <2>1 DEF Ladder, SetupStep
  <2>3. /\ l \in Seq(Resources) /\ m + Len(l) = Reach(setup + 1)
        /\ Reach(setup + 1) <= Len(Rungs)
        /\ \A i \in 1..Len(l) : l[i] = Rungs[m + i]
    <3>1. setup \in 0..7 /\ l = Opens(SetupSteps[setup + 1])
      BY <2>1, <2>2
    <3> HIDE DEF o
    <3>2. /\ l \in Seq(Resources) /\ Reach(setup) + Len(l) = Reach(setup + 1)
          /\ Reach(setup + 1) <= Len(Rungs)
          /\ \A i \in 1..Len(l) : l[i] = Rungs[Reach(setup) + i]
      BY <3>1, SetupReaches
    <3>. QED  BY <2>2, <3>2
  <2>4. closers' = Register(l) /\ open' = open \cup Range(l)
    BY <1>1, <2>1 DEF SetupStep
  <2>5. Climbed(m + Len(l))'
    BY <2>2, <2>3, <2>4, RungsOpened
  <2>6. Len(closers') = Reach(setup + 1) /\ Climbed(Len(closers))'
    BY <2>3, <2>5, ClimbedNext
  <2>7. /\ setup' = setup + 1 /\ setup' \in 0..8
        /\ UNCHANGED <<wait, following, stop, expired>>
        /\ main' = IF setup' = 8 THEN "serve" ELSE "setup"
        /\ server' = IF setup' = 8 THEN "on" ELSE "off"
    <3>1. Len(SetupSteps) = 8
      BY DEF SetupSteps
    <3>2. /\ setup' = setup + 1 /\ UNCHANGED <<wait, following, stop, expired>>
          /\ main' = IF setup' = Len(SetupSteps) THEN "serve" ELSE "setup"
          /\ server' = IF setup' = Len(SetupSteps) THEN "on" ELSE "off"
      BY <1>1 DEF SetupStep
    <3>. QED  BY <2>2, <3>1, <3>2
  <2>8. main' = "setup" => setup' \in 0..7
    BY <2>2, <2>7
  <2>9. Ladder'
    BY <2>6, <2>7, <2>8 DEF Ladder
  <2>. QED  BY <2>7, <2>9 DEF MainTypes
<1>2. CASE SetupFails
  <2>1. PICK m : m = Len(closers)
    OBVIOUS
  <2>2. setup \in 0..7 /\ Climbed(m) /\ m = Reach(setup)
    BY <1>2, <2>1 DEF Ladder, SetupFails
  <2>3. PICK l \in {<<>>, <<"tracer">>} :
            /\ IsPrefix(l, Opens(SetupSteps[setup + 1]))
            /\ open' = open \cup Range(l)
            /\ closers' = Register(l)
    BY <1>2 DEF SetupFails
  <2>4. /\ l \in Seq(Resources) /\ m + Len(l) <= Len(Rungs)
        /\ \A i \in 1..Len(l) : l[i] = Rungs[m + i]
    BY <2>2, <2>3, FailureReaches
  <2>5. Climbed(m + Len(l))'
    BY <2>2, <2>3, <2>4, RungsOpened
  <2>. QED  BY <1>2, <2>5, ClimbedNext DEF SetupFails, Ladder, MainTypes
<1>3. CASE CloseFeature
  BY <1>3, LadderDown DEF CloseFeature, Closing, MainTypes
<1>4. CASE CloseServer
  BY <1>4, LadderDown DEF CloseServer, Closing, MainTypes
<1>5. ASSUME NEW r, CloseOther(r)
      PROVE  MainTypes' /\ Ladder'
  BY <1>5, LadderDown DEF CloseOther, Closing, MainTypes
<1>6. ASSUME UNCHANGED <<closers, open>>, main' = main, UNCHANGED setup
      PROVE  Ladder'
  BY <1>6, ClimbedStays DEF Ladder
<1>7. ASSUME UNCHANGED <<closers, open, setup>>, main' \in {"close", "panic"}
      PROVE  Ladder'
  BY <1>7, ClimbedStays DEF Ladder
<1>8. CASE Exit
  BY <1>8, ClimbedStays DEF Exit, Ladder, MainTypes
<1>9. CASE Leave
  BY <1>9, <1>7 DEF Leave, MainTypes
<1>10. CASE WaitReturns
  BY <1>10, <1>6, <1>7 DEF WaitReturns, MainTypes
<1>11. CASE WaitStarts
  BY <1>11, <1>6 DEF WaitStarts, MainTypes
<1>12. CASE StreamStarts \/ StreamEnds \/ Signal \/ ServerFails \/ Expire
  BY <1>12, <1>6 DEF StreamStarts, StreamEnds, Signal, ServerFails, Expire, MainTypes
<1>13. CASE CancelFeature \/ StopServer
  BY <1>13, <1>6 DEF CancelFeature, StopServer, MainTypes, mainVars
<1>14. ASSUME NEW t \in Tasks, Work(t)
       PROVE  MainTypes' /\ Ladder'
  BY <1>14, <1>6 DEF Work, MainTypes
<1>15. CASE Request \/ UNCHANGED processVars
  BY <1>15, <1>6 DEF Request, processVars, mainVars, MainTypes
<1>. QED
  BY <1>1, <1>2, <1>3, <1>4, <1>5, <1>8, <1>9, <1>10, <1>11, <1>12, <1>13, <1>14, <1>15
     DEF ProcessNext, Proceed, Main, Shutdown

-----------------------------------------------------------------------------
(* The process beside its requests. *)

\* A step of the process is one of the controller's, or leaves the requests alone.
LEMMA ProcessIsHttp ==
    ASSUME TypeInv, ProcessNext
    PROVE  HttpAny
<1>1. ASSUME Request
      PROVE  HttpAny
  BY <1>1 DEF Request, HttpAny
<1>2. ASSUME NEW t \in Tasks, Work(t)
      PROVE  HttpAny
  BY <1>2 DEF Work, HttpAny
<1>3. ASSUME NothingServed
      PROVE  HttpAny
  BY <1>3 DEF NothingServed, vars, HttpAny, Aside, TypeInv, TypeOK
<1>4. ASSUME CancelFeature \/ CloseFeature
      PROVE  HttpAny
  BY <1>4 DEF CancelFeature, CloseFeature, HttpAny, Aside
<1>5. ASSUME NEW r, CloseOther(r)
      PROVE  HttpAny
  BY <1>3, <1>5 DEF CloseOther
<1>6. CASE SetupStep \/ SetupFails \/ Leave \/ StopServer \/ CloseServer \/ Exit
  BY <1>3, <1>6 DEF SetupStep, SetupFails, Leave, StopServer, CloseServer, Exit
<1>7. CASE \/ WaitStarts \/ WaitReturns \/ StreamStarts \/ StreamEnds
           \/ Signal \/ ServerFails \/ Expire
  BY <1>3, <1>7
     DEF WaitStarts, WaitReturns, StreamStarts, StreamEnds, Signal, ServerFails, Expire
<1>. QED
  BY <1>1, <1>2, <1>4, <1>5, <1>6, <1>7 DEF ProcessNext, Proceed, Main, Shutdown

\* The controller's steps keep the service well formed, whoever closes it.
LEMMA AnyTypes ==
    ASSUME TypeInv, HttpAny
    PROVE  TypeInv'
<1>1. ASSUME NEW t \in Tasks, NEW op \in Ops, NEW n \in Names,
             NEW node \in Nodes \cup {NoNode}, Receive(t, op, n, node)
      PROVE  TypeInv'
  BY <1>1, TypeStep DEF Receive, Next
<1>2. ASSUME NEW t \in Tasks, HttpStep(t)
      PROVE  TypeInv'
  BY <1>2, TypeStep DEF HttpStep, Handle, Run, Next
<1>3. ASSUME NEW t \in Tasks, Show(t)
      PROVE  TypeInv'
  <2>1. faults' \in 0..MaxFaults
    BY <1>3, FaultType DEF Show, TypeInv
  <2>. QED  BY <1>3, <2>1 DEF Show, TypeInv, TypeOK
<1>4. CASE Aside
  BY <1>4 DEF Aside, TypeInv, TypeOK
<1>5. ASSUME NEW t \in Tasks, Reject(t)
      PROVE  TypeInv'
  BY <1>5, TypeStep DEF Reject
<1>. QED  BY <1>1, <1>2, <1>3, <1>4, <1>5 DEF HttpAny

\* When nobody is served, only a request changes that.
LEMMA NobodyServedStays ==
    ASSUME NobodyServed, UNCHANGED <<task, exchange>>
    PROVE  NobodyServed'
BY DEF NobodyServed

\* When the wait of Close is over, goroutines only stop.
LEMMA QuietGoesOn ==
    ASSUME TypeInv, HttpInv, Canceled, Quiet, ProcessNext
    PROVE  Quiet'
<1>1. ASSUME NEW t \in Tasks, Step(t)
      PROVE  Quiet'
  <2>1. \A u \in Tasks \ {t} : task'[u] = task[u]
    BY <1>1, StepCases
  <2>2. Worker(t)' => At(t, "begin")'
    BY <1>1, QuietStays DEF Quiet
  <2>. QED  BY <2>1, <2>2 DEF Quiet, Worker, At
<1>2. ASSUME NEW t \in Tasks, NEW op \in Ops, NEW n \in Names,
             NEW node \in Nodes \cup {NoNode}, Receive(t, op, n, node)
      PROVE  Quiet'
  <2> DEFINE k == [pc |-> "lookup", op |-> op, name |-> n, node |-> node,
                   vol |-> NoRow, event |-> op, attempt |-> 0]
  <2>1. /\ task'[t] = k /\ k.pc = "lookup"
        /\ \A u \in Tasks \ {t} : task'[u] = task[u]
    BY <1>2, BecomeEffect DEF Receive, Arrive
  <2>. QED  BY <2>1 DEF Quiet, Worker, At
<1>3. ASSUME UNCHANGED task
      PROVE  Quiet'
  BY <1>3 DEF Quiet, Worker, At
<1>. QED
  BY <1>1, <1>2, <1>3, ProcessIsHttp
     DEF HttpAny, HttpStep, Handle, Run, Reject, Show, Aside, vars

\* Nor does a step of somebody else's that keeps out of the shutdown.
LEMMA CurtainAside ==
    ASSUME Curtain, main' = main \/ "setup" \notin {main, main'},
           UNCHANGED <<task, exchange, closing, server, following, wait, open, expired>>
    PROVE  Curtain'
BY DEF Curtain, NobodyServed, Canceled, Quiet, Worker, At, HandlersDone

\* A closer returns before the deadline only when those that it waits for are gone.
LEMMA CurtainStep ==
    ASSUME TypeInv, TypeInv', HttpInv, MainTypes, Ladder, Ladder', Curtain,
           [ProcessNext]_processVars
    PROVE  Curtain'
<1>1. CASE SetupStep
  <2>1. /\ main = "setup" /\ server = "off" /\ NobodyServed /\ ~following
        /\ setup' = setup + 1 /\ setup \in 0..7
        /\ UNCHANGED <<task, exchange, closing, wait, following, expired>>
    BY <1>1 DEF SetupStep, NothingServed, vars, Curtain, Ladder
  <2>2. Len(SetupSteps) = 8
    BY DEF SetupSteps
  <2>3. /\ main' = IF setup' = 8 THEN "serve" ELSE "setup"
        /\ server' = IF setup' = 8 THEN "on" ELSE "off"
    BY <1>1, <2>2 DEF SetupStep
  <2>4. server' # "off" => "feature" \in open' /\ "http" \in open'
    <3>1. SUFFICES ASSUME setup' = 8
                   PROVE  "feature" \in open' /\ "http" \in open'
      BY <2>3
    <3>2. PICK m, l : m = Len(closers) /\ l = Opens(SetupSteps[setup + 1])
      OBVIOUS
    <3>3. setup = 7 /\ l = <<"feature">>
      <4>1. setup = 7
        BY <2>1, <3>1
      <4>2. SetupSteps[8] = "volume feature"
        BY DEF SetupSteps
      <4>3. SetupSteps[setup + 1] = SetupSteps[8]
        BY <4>1
      <4>4. l = Opens("volume feature")
        BY <3>2, <4>2, <4>3
      <4>. QED  BY <4>1, <4>4 DEF Opens
    <3>4. "feature" \in open'
      BY <1>1, <3>2, <3>3 DEF SetupStep, Range
    <3>5. "http" \in open
      <4>1. Climbed(m) /\ m = Reach(7)
        BY <2>1, <3>2, <3>3 DEF Ladder
      <4>2. Reach(7) \in 1..Reach(7) /\ Rungs[Reach(7)] = "http"
        BY DEF Reach, Rungs
      <4>. QED  BY <4>1, <4>2 DEF Climbed
    <3>. QED  BY <1>1, <3>4, <3>5 DEF SetupStep
  <2>5. NobodyServed' /\ (wait' # "none" => Canceled') /\ ~Canceled'
    BY <2>1, NobodyServedStays DEF Curtain, Canceled
  <2>6. Quiet'
    BY <2>1 DEF NobodyServed, Quiet, Worker, Idle
  <2>. QED  BY <2>1, <2>3, <2>4, <2>5, <2>6, NobodyServedStays DEF Curtain
<1>2. CASE SetupFails
  <2>1. /\ main = "setup" /\ main' = "close"
        /\ server = "off" /\ NobodyServed /\ ~following
        /\ UNCHANGED <<task, exchange, closing, wait, expired, server, following>>
    BY <1>2 DEF SetupFails, NothingServed, vars, Curtain
  <2>2. NobodyServed' /\ Quiet' /\ (wait' # "none" => Canceled')
    BY <2>1 DEF NobodyServed, Quiet, Worker, Idle, Curtain, Canceled
  <2>3. "http" \notin open
    <3>1. PICK m : m = Len(closers)
      OBVIOUS
    <3>2. setup \in 0..7 /\ Climbed(m) /\ m = Reach(setup)
      BY <2>1, <3>1 DEF Ladder
    <3>3. setup # 7
      <4>1. SetupSteps[8] = "volume feature"
        BY DEF SetupSteps
      <4>2. ~MayFail("volume feature")
        BY DEF MayFail
      <4>3. ASSUME setup = 7
            PROVE  SetupSteps[setup + 1] = SetupSteps[8]
        BY <4>3
      <4>. QED  BY <1>2, <4>1, <4>2, <4>3 DEF SetupFails
    <3>4. /\ Reach(7) \in 1..Len(Rungs) /\ Rungs[Reach(7)] = "http"
          /\ Reach(setup) \in Nat /\ Reach(setup) < Reach(7)
      BY <3>2, <3>3 DEF Reach, Rungs
    <3>5. \A i \in 1..m : Rungs[i] # "http"
      BY <3>2, <3>4, RungsType
    <3>. QED  BY <3>2, <3>5 DEF Climbed
  <2>4. "http" \notin open'
    <3>1. PICK l \in {<<>>, <<"tracer">>} : open' = open \cup Range(l)
      BY <1>2 DEF SetupFails
    <3>2. "http" \notin Range(l)
      BY DEF Range
    <3>. QED  BY <2>3, <3>1, <3>2
  <2>. QED  BY <2>1, <2>2, <2>4 DEF Curtain
<1>3. CASE CloseFeature
  <2>1. /\ UNCHANGED <<task, exchange, main, server, following, wait, expired>>
        /\ Canceled' /\ main = "close" /\ open' = open \ {"feature"}
        /\ wait = "returned" \/ expired
    BY <1>3 DEF CloseFeature, Closing, Closed, Canceled
  <2>. QED
    BY <2>1 DEF Curtain, NobodyServed, Quiet, Worker, At, HandlersDone
<1>4. CASE CloseServer
  <2>1. /\ UNCHANGED <<task, exchange, closing, main, server, following, wait, expired>>
        /\ open' = open \ {"http"} /\ server = "down"
        /\ HandlersDone \/ expired
    BY <1>4 DEF CloseServer, Closed, NothingServed, vars
  <2>. QED
    BY <2>1 DEF Curtain, NobodyServed, Canceled, Quiet, Worker, At, HandlersDone
<1>5. ASSUME NEW r \in {"backend", "pool", "meter", "tracer"}, CloseOther(r)
      PROVE  Curtain'
  <2>1. /\ UNCHANGED <<task, exchange, closing, main, server, following, wait, expired>>
        /\ open' = open \ {r}
    BY <1>5 DEF CloseOther, Closed, NothingServed, vars
  <2>. QED
    BY <2>1 DEF Curtain, NobodyServed, Canceled, Quiet, Worker, At, HandlersDone
<1>6. CASE CancelFeature
  <2>1. /\ UNCHANGED <<task, exchange, main, server, following, wait, open, expired>>
        /\ Canceled' /\ main = "close"
    BY <1>6 DEF CancelFeature, Closing, mainVars, Canceled
  <2>. QED
    BY <2>1 DEF Curtain, NobodyServed, Quiet, Worker, At, HandlersDone
<1>7. CASE StopServer
  <2>1. /\ UNCHANGED <<task, exchange, closing, main, following, wait, open, expired>>
        /\ main = "close" /\ server' = "down"
    BY <1>7 DEF StopServer, Closing, NothingServed, vars
  <2>2. "http" \in open
    <3>1. PICK m : m = Len(closers)
      OBVIOUS
    <3>2. closers \in Seq(Resources) /\ open = Range(closers) /\ Last(closers) = "http"
      BY <1>7, <3>1, ClimbedType DEF StopServer, Closing, Ladder
    <3>3. closers # <<>>
      BY <1>7 DEF StopServer, Closing
    <3>. QED  BY <3>2, <3>3 DEF Last, Range
  <2>3. server # "off"
    BY <2>1, <2>2 DEF Curtain
  <2>. QED
    BY <2>1, <2>2, <2>3 DEF Curtain, Canceled, Quiet, Worker, At
<1>8. CASE WaitStarts
  <2>1. /\ UNCHANGED <<task, exchange, closing, main, server, following, open, expired>>
        /\ Canceled /\ wait = "none"
        /\ wait' = "returned" => NoneCounted
    BY <1>8 DEF WaitStarts, NothingServed, vars, Canceled
  <2>. QED
    BY <2>1
       DEF Curtain, NobodyServed, Canceled, Quiet, Worker, At, HandlersDone, NoneCounted
<1>9. CASE WaitReturns
  <2>1. CASE NoneCounted /\ wait' = "returned" /\ UNCHANGED main
    <3>1. /\ UNCHANGED <<task, exchange, closing, main, server, following, open, expired>>
          /\ wait = "released"
      BY <1>9, <2>1 DEF WaitReturns, NothingServed, vars
    <3>. QED
      BY <2>1, <3>1
         DEF Curtain, NobodyServed, Canceled, Quiet, Worker, At, HandlersDone, NoneCounted
  <2>2. CASE main' = "panic" /\ UNCHANGED wait
    <3>1. main # "setup"
      BY <1>9 DEF WaitReturns, Curtain
    <3>. QED  BY <1>9, <2>2, <3>1, CurtainAside DEF WaitReturns, NothingServed, vars
  <2>. QED  BY <1>9, <2>1, <2>2 DEF WaitReturns
<1>10. CASE Leave \/ Exit
  BY <1>10, CurtainAside DEF Leave, Exit, NothingServed, vars
<1>11. CASE Signal
  BY <1>11, CurtainAside DEF Signal, NothingServed, vars
<1>12. CASE ServerFails
  <2>1. /\ UNCHANGED <<task, exchange, closing, main, following, wait, open, expired>>
        /\ server = "on" /\ server' = "failed" /\ main = "serve"
    BY <1>12 DEF ServerFails, NothingServed, vars
  <2>. QED
    BY <2>1 DEF Curtain, Canceled, Quiet, Worker, At
<1>13. CASE Expire
  <2>1. /\ UNCHANGED <<task, exchange, closing, main, server, following, wait, open>> /\ expired'
    BY <1>13 DEF Expire, NothingServed, vars
  <2>. QED
    BY <2>1 DEF Curtain, NobodyServed, Canceled, Quiet, Worker, At
<1>14. ASSUME NEW t \in Tasks, Work(t)
       PROVE  Curtain'
  <2>1. /\ UNCHANGED <<closing, main, server, following, open, expired>>
        /\ wait' = IF wait = "waiting" /\ NoneCounted' THEN "released" ELSE wait
    <3>1. HttpStep(t) => UNCHANGED closing
      BY StepCases DEF HttpStep, Handle, Run
    <3>2. Show(t) => UNCHANGED closing
      BY DEF Show
    <3>. QED  BY <1>14, <3>1, <3>2 DEF Work
  <2>2. exchange[t].pc \in {"app", "show"} \/ (Worker(t) /\ UNCHANGED exchange)
    BY <1>14 DEF Work, HttpStep, Handle, Run, Show
  <2>3. Free.pc \notin {"app", "show"} /\ Idle.pc = "idle"
    BY DEF Free, Idle
  <2>4. server # "off"
    BY <2>2, <2>3 DEF Curtain, NobodyServed, Worker
  <2>5. HandlersDone => HandlersDone'
    BY <2>1, <2>2, <2>3 DEF HandlersDone
  <2>6. wait' = "returned" => Quiet'
    BY <1>14, <2>1, QuietGoesOn DEF Curtain, ProcessNext, Proceed
  <2>7. main # "setup"
    BY <2>4 DEF Curtain
  <2>. QED  BY <2>1, <2>4, <2>5, <2>6, <2>7 DEF Curtain, Canceled
<1>15. CASE Request
  <2>1. /\ server \in {"on", "failed"}
        /\ UNCHANGED <<closing, main, server, following, wait, open, expired>>
    BY <1>15 DEF Request, mainVars, Receive, Arrive
  <2>2. wait' = "returned" => Quiet'
    BY <1>15, <2>1, QuietGoesOn DEF Curtain, ProcessNext
  <2>. QED  BY <2>1, <2>2 DEF Curtain, Canceled
<1>16. CASE UNCHANGED processVars
  BY <1>16, CurtainAside DEF processVars, httpVars, vars, mainVars
<1>17. CASE StreamStarts
  <2>1. /\ UNCHANGED <<task, exchange, closing, main, server, wait, open, expired>>
        /\ server \in {"on", "failed"}
    BY <1>17 DEF StreamStarts, NothingServed, vars
  <2>. QED  BY <2>1 DEF Curtain, Canceled, Quiet, Worker, At
<1>18. CASE StreamEnds
  <2>1. /\ UNCHANGED <<task, exchange, closing, main, server, wait, open, expired>>
        /\ ~following'
    BY <1>18 DEF StreamEnds, NothingServed, vars
  <2>. QED
    BY <2>1 DEF Curtain, NobodyServed, Canceled, Quiet, Worker, At, HandlersDone
<1>. QED
  BY <1>1, <1>2, <1>3, <1>4, <1>5, <1>6, <1>7, <1>8, <1>9, <1>10, <1>11, <1>12, <1>13,
     <1>14, <1>15, <1>16, <1>17, <1>18
     DEF ProcessNext, Proceed, Main, Shutdown

\* A step of the process or of anybody in it keeps all three invariants.
LEMMA ProcessStays ==
    ASSUME TypeInv, HttpInv, ProcessInv, [ProcessNext]_processVars
    PROVE  TypeInv' /\ HttpInv' /\ ProcessInv'
<1>1. TypeInv' /\ HttpInv'
  <2>1. ASSUME UNCHANGED processVars
        PROVE  TypeInv' /\ HttpInv'
    BY <2>1, TypeStep
       DEF processVars, httpVars, vars, HttpInv, Serving, Handler, Worker
  <2>. QED  BY <2>1, ProcessIsHttp, AnyTypes, HttpServes
<1>. QED  BY <1>1, LadderStep, CurtainStep DEF ProcessInv

\* At first nothing is open.
LEMMA ProcessInvInit == ProcessInit => TypeInv /\ HttpInv /\ ProcessInv
<1> SUFFICES ASSUME ProcessInit
             PROVE  TypeInv /\ HttpInv /\ ProcessInv
  OBVIOUS
<1>1. TypeInv /\ HttpInv
  BY HttpInvInit DEF ProcessInit
<1>2. MainTypes
  <2>1. following = FALSE /\ stop = FALSE /\ expired = FALSE
    BY DEF ProcessInit
  <2>2. setup \in 0..8
    BY DEF ProcessInit
  <2>. QED  BY <2>1, <2>2 DEF ProcessInit, MainTypes
<1>3. Ladder
  <2>1. Len(closers) = 0 /\ closers = [i \in 1..0 |-> Rungs[i]]
    BY DEF ProcessInit
  <2>2. open = {Rungs[i] : i \in 1..0}
    BY DEF ProcessInit
  <2>3. Climbed(Len(closers))
    BY <2>1, <2>2, RungsType DEF Climbed
  <2>. QED  BY <2>1, <2>3 DEF ProcessInit, Ladder, Reach
<1>4. Curtain
  BY DEF ProcessInit, HttpInit, Init, Curtain, NobodyServed, Canceled
<1>. QED  BY <1>1, <1>2, <1>3, <1>4 DEF ProcessInv

\* The invariants of main hold, beside those of the handlers.
LEMMA ProcessInvariant == ProcessSpec => [](TypeInv /\ HttpInv /\ ProcessInv)
BY ProcessInvInit, ProcessStays, PTL DEF ProcessSpec

-----------------------------------------------------------------------------
(* The theorems, for clients that do not wait for each other too. *)

\* The process is well formed, and what is open is exactly what is registered to be
\* closed.
THEOREM ProcessTypes == ProcessSpec => []ProcessTypeOK
<1>1. ASSUME TypeInv, HttpInv, ProcessInv
      PROVE  ProcessTypeOK
  <2>1. HttpTypeOK
    BY <1>1 DEF TypeInv, HttpInv, HttpTypeOK, Serving
  <2>2. closers \in Seq(Resources) /\ open = Range(closers)
    BY <1>1, ClimbedType DEF ProcessInv, Ladder
  <2>3. Len(SetupSteps) = 8
    BY DEF SetupSteps
  <2>. QED  BY <1>1, <2>1, <2>2, <2>3 DEF ProcessInv, MainTypes, ProcessTypeOK
<1>. QED  BY <1>1, ProcessInvariant, PTL

\* Whatever step of the set-up fails, and however the process ends short of a panic,
\* everything that was opened has been closed.
THEOREM EverythingIsClosed == ProcessSpec => []NothingLeftOpen
<1>1. ASSUME ProcessInv
      PROVE  NothingLeftOpen
  <2>1. open = Range(closers)
    BY <1>1, ClimbedType DEF ProcessInv, Ladder
  <2>. QED  BY <1>1, <2>1 DEF ProcessInv, Ladder, NothingLeftOpen, Range
<1>. QED  BY <1>1, ProcessInvariant, PTL

\* A shutdown within its deadline closes neither the backend nor the pool under a
\* handler, a stream or a goroutine that calls them.
THEOREM NobodyUsesWhatIsClosed == ProcessSpec => []NoUseAfterClose
<1>1. ASSUME TypeInv, HttpInv, ProcessInv, ~expired, following, Repo = "postgres"
      PROVE  "pool" \in open
  <2>1. server # "off" /\ "http" \in open
    BY <1>1 DEF ProcessInv, Curtain, HandlersDone
  <2>. QED  BY <1>1, <2>1, RungsOrder DEF ProcessInv, Ladder
<1>2. ASSUME TypeInv, HttpInv, ProcessInv, ~expired, NEW t \in Tasks
      PROVE  /\ task[t].pc \in {"call", "inspect"} => "backend" \in open
             /\ UsesDatabase(t) /\ Repo = "postgres" => "pool" \in open
  <2>1. Idle.pc = "idle" /\ Free.pc = "free"
    BY DEF Idle, Free
  <2>2. CASE server = "off"
    <3>1. task[t].pc = "idle" /\ exchange[t].pc = "free"
      BY <1>2, <2>1, <2>2 DEF ProcessInv, Curtain, NobodyServed
    <3>. QED  BY <3>1 DEF UsesDatabase
  <2>3. CASE server # "off" /\ "http" \notin open
    <3>1. "feature" \notin open
      BY <1>2, <2>3, RungsOrder DEF ProcessInv, Ladder
    <3>2. HandlersDone /\ Quiet
      BY <1>2, <2>3, <3>1 DEF ProcessInv, Curtain
    <3>3. exchange[t].pc = "free" /\ ~Handler(t)
      BY <1>2, <2>1, <3>2 DEF HandlersDone, HttpInv, Serving
    <3>4. task[t].pc \in {"idle", "begin"}
      BY <3>2, <3>3 DEF Handler, Quiet, At
    <3>. QED  BY <3>3, <3>4 DEF UsesDatabase
  <2>4. CASE "http" \in open
    BY <1>2, <2>4, RungsOrder DEF ProcessInv, Ladder
  <2>. QED  BY <2>2, <2>3, <2>4
<1>3. TypeInv /\ HttpInv /\ ProcessInv => NoUseAfterClose
  BY <1>1, <1>2 DEF NoUseAfterClose
<1>. QED  BY <1>3, ProcessInvariant, PTL

-----------------------------------------------------------------------------
(* Induction, for functions that are defined by recursion over an interval. *)

\* Induction over the naturals, for a set.
LEMMA SetInduction ==
    ASSUME NEW S, 0 \in S, \A n \in Nat : n \in S => n + 1 \in S
    PROVE  Nat \subseteq S
<1> DEFINE R == OpToRel(<, Nat)
           T == Nat \ S
<1>1. IsWellFoundedOn(R, Nat)
  BY NatLessThanWellFounded
<1>2. \A x, y \in Nat : y < x => <<y, x>> \in R
  BY DEF OpToRel
<1> HIDE DEF R
<1>3. SUFFICES ASSUME T # {} PROVE FALSE
  OBVIOUS
<1>4. PICK x \in T : \A y \in T : <<y, x>> \notin R
  BY <1>1, <1>3, WFMin
<1>5. x - 1 \in Nat /\ x - 1 < x /\ x = (x - 1) + 1
  BY <1>4
<1>6. x - 1 \in S
  BY <1>2, <1>4, <1>5
<1>. QED  BY <1>4, <1>5, <1>6

\* There is a function over the n + 1 integers from a, with values in D, that starts at
\* c and whose values F takes from one to the next.
Recurs(D, F, c, a, n) ==
    \E f \in [a..(a + n) -> D] :
        f = [k \in a..(a + n) |-> IF k = a THEN c ELSE F[f[k - 1]]]

\* Recursion over an interval defines a function.
LEMMA Recursion ==
    ASSUME NEW D, NEW F \in [D -> D], NEW c \in D, NEW a \in Int
    PROVE  \A n \in Nat : Recurs(D, F, c, a, n)
<1> DEFINE Runs(n) == \E f \in [a..(a + n) -> D] :
                         f = [k \in a..(a + n) |-> IF k = a THEN c ELSE F[f[k - 1]]]
           S == {n \in Nat : Runs(n)}
<1>1. 0 \in S
  <2> DEFINE f == [k \in a..(a + 0) |-> c]
  <2>1. f \in [a..(a + 0) -> D] /\ f = [k \in a..(a + 0) |-> IF k = a THEN c ELSE F[f[k - 1]]]
    OBVIOUS
  <2>. QED  BY <2>1
<1>2. ASSUME NEW n \in Nat, n \in S
      PROVE  n + 1 \in S
  <2>1. PICK f \in [a..(a + n) -> D] :
              f = [k \in a..(a + n) |-> IF k = a THEN c ELSE F[f[k - 1]]]
    BY <1>2
  <2> DEFINE h == [k \in a..(a + (n + 1)) |-> IF k = a + (n + 1) THEN F[f[a + n]] ELSE f[k]]
  <2>2. h \in [a..(a + (n + 1)) -> D]
    <3>1. a + n \in a..(a + n)
      OBVIOUS
    <3>2. \A k \in a..(a + (n + 1)) : k = a + (n + 1) \/ k \in a..(a + n)
      OBVIOUS
    <3>. QED  BY <3>1, <3>2
  <2>3. ASSUME NEW k \in a..(a + (n + 1))
        PROVE  h[k] = IF k = a THEN c ELSE F[h[k - 1]]
    <3>1. CASE k = a + (n + 1)
      <4>1. k - 1 = a + n /\ k # a /\ k - 1 \in a..(a + (n + 1)) /\ k - 1 # a + (n + 1)
        BY <3>1
      <4>. QED  BY <3>1, <4>1
    <3>2. CASE k \in a..(a + n)
      <4>1. k # a => k - 1 \in a..(a + n)
        BY <3>2
      <4>2. \A i \in a..(a + n) : h[i] = f[i]
        OBVIOUS
      <4>3. f[k] = IF k = a THEN c ELSE F[f[k - 1]]
        BY <2>1, <3>2
      <4> HIDE DEF h
      <4>. QED  BY <3>2, <4>1, <4>2, <4>3
    <3>. QED  BY <3>1, <3>2
  <2>4. h = [k \in a..(a + (n + 1)) |-> IF k = a THEN c ELSE F[h[k - 1]]]
    <3>1. h = [k \in a..(a + (n + 1)) |-> h[k]]
      OBVIOUS
    <3> HIDE DEF h
    <3>. QED  BY <2>3, <3>1
  <2> HIDE DEF h
  <2>5. Runs(n + 1)
    BY <2>2, <2>4
  <2> HIDE DEF Runs
  <2>. QED  BY <2>5
<1> HIDE DEF S
<1>3. Nat \subseteq S
  BY <1>1, <1>2, SetInduction
<1>. QED  BY <1>3 DEF S, Recurs

-----------------------------------------------------------------------------
(* The lengths of the sleeps between attempts. *)

\* A quotient lies between the bounds of which its dividend is at least and at most
\* the multiple.
LEMMA DivBounds ==
    ASSUME NEW x \in Int, NEW d \in Nat \ {0}, NEW low \in Int, NEW high \in Int,
           low * d <= x, x <= high * d
    PROVE  x \div d \in low..high
OBVIOUS

\* A product grows with its factors.
LEMMA Grows ==
    ASSUME NEW a \in Nat, NEW m \in Nat, NEW n \in Nat, m <= n
    PROVE  a * m <= a * n /\ m * a <= n * a
OBVIOUS

\* The policies that validate lets through are made of natural numbers.
LEMMA PolicyTypes ==
    ASSUME NEW p \in RetryPolicy, Valid(p)
    PROVE  /\ p.initialWait \in Nat \ {0} /\ p.maxWait \in Nat \ {0}
           /\ p.multiplier.num \in Nat \ {0} /\ p.multiplier.den \in Nat \ {0}
<1>1. /\ p.initialWait \in Int /\ p.maxWait \in Int
      /\ p.multiplier.num \in Int /\ p.multiplier.den \in Nat \ {0}
  BY MaxDurationAssumption DEF RetryPolicy, MinDuration
<1>. QED  BY <1>1 DEF Valid

\* A sleep of the loop never exceeds the ceiling, whatever overflowed before it. While
\* no product leaves the range of a duration, a sleep that follows a positive one,
\* itself no longer than the first or the ceiling, is positive, and no shorter unless
\* the ceiling cut it. runWithRetry computes the next wait from the last at each turn.
LEMMA NextSleep ==
    ASSUME NEW p \in RetryPolicy, NEW last \in Int, Valid(p)
    PROVE  /\ NextWait(last, p) \in Int
           /\ NextWait(last, p) <= p.maxWait
           /\ Fits(p) /\ last > 0 /\ (last <= p.initialWait \/ last <= p.maxWait) =>
                 /\ NextWait(last, p) > 0
                 /\ last <= p.maxWait => NextWait(last, p) >= last
<1> DEFINE num == p.multiplier.num
           den == p.multiplier.den
           exact == (last * num) \div den
<1>0. /\ p.initialWait \in Nat /\ p.maxWait \in Nat
      /\ num \in Nat /\ den \in Nat \ {0}
  BY PolicyTypes
<1>1. MaxDuration \in Nat \ {0} /\ MinDuration \in Int /\ exact \in Int
  BY <1>0, MaxDurationAssumption DEF MinDuration
<1>2. Scale(last, p.multiplier) \in Int
  BY <1>1 DEF Scale
<1>3. NextWait(last, p) \in Int /\ NextWait(last, p) <= p.maxWait
  BY <1>0, <1>2 DEF NextWait
<1>4. ASSUME Fits(p), last > 0, last <= p.initialWait \/ last <= p.maxWait
      PROVE  exact \in last..MaxDuration
  <2>1. last * num <= MaxDuration * den
    <3>1. CASE last <= p.initialWait
      <4>1. last * num <= p.initialWait * num
        BY <1>0, <1>4, <3>1, Grows
      <4>2. p.initialWait * num <= MaxDuration * den
        BY <1>4 DEF Fits
      <4>. QED  BY <1>0, <1>1, <4>1, <4>2
    <3>2. CASE last <= p.maxWait
      <4>1. last * num <= p.maxWait * num
        BY <1>0, <1>4, <3>2, Grows
      <4>2. p.maxWait * num <= MaxDuration * den
        BY <1>4 DEF Fits
      <4>. QED  BY <1>0, <1>1, <4>1, <4>2
    <3>. QED  BY <1>0, <1>4, <3>1, <3>2
  <2>2. last * den <= last * num
    <3>1. last \in Nat /\ den \in Nat /\ num \in Nat /\ den <= num
      BY <1>0, <1>4 DEF Valid
    <3> HIDE DEF num, den
    <3>. QED  BY <3>1, Grows
  <2>3. last * num \in Int /\ den \in Nat \ {0}
    BY <1>0
  <2>. QED
    <3> HIDE DEF num, den
    <3>1. (last * num) \div den \in last..MaxDuration
      BY <1>1, <2>1, <2>2, <2>3, DivBounds
    <3>. QED  BY <3>1
<1>5. ASSUME Fits(p), last > 0, last <= p.initialWait \/ last <= p.maxWait
      PROVE  Scale(last, p.multiplier) \in last..MaxDuration
  <2>1. exact \in last..MaxDuration
    BY <1>4, <1>5
  <2>2. exact \in MinDuration..MaxDuration
    BY <1>1, <1>5, <2>1 DEF MinDuration
  <2>. QED  BY <2>1, <2>2 DEF Scale
<1>. QED  BY <1>0, <1>1, <1>2, <1>3, <1>5 DEF NextWait, Valid

\* The same over an interval.
LEMMA IntervalInduction ==
    ASSUME NEW n \in Nat, NEW S, n >= 1 => 1 \in S,
           \A k \in 1..(n - 1) : k \in S => k + 1 \in S
    PROVE  1..n \subseteq S
<1> DEFINE Z == {i \in Nat : i + 1 \in 1..n => i + 1 \in S}
<1>1. 0 \in Z
  OBVIOUS
<1>2. ASSUME NEW i \in Nat, i \in Z
      PROVE  i + 1 \in Z
  <2> SUFFICES ASSUME (i + 1) + 1 \in 1..n
               PROVE  (i + 1) + 1 \in S
    OBVIOUS
  <2>1. i + 1 \in 1..(n - 1) /\ i + 1 \in 1..n
    OBVIOUS
  <2>. QED  BY <1>2, <2>1
<1>3. Nat \subseteq Z
  <2> HIDE DEF Z
  <2>. QED  BY <1>1, <1>2, SetInduction
<1>4. ASSUME NEW k \in 1..n
      PROVE  k \in S
  <2>1. k - 1 \in Z /\ (k - 1) + 1 = k
    BY <1>3
  <2>. QED  BY <2>1
<1>. QED  BY <1>4

\* The sleeps are those that the loop computes, each from the one before.
LEMMA WaitsDefined ==
    ASSUME NEW p \in RetryPolicy, Valid(p), NEW n \in Nat
    PROVE  LET sleep == Waits(p, n)
           IN \A k \in 1..n :
                 /\ sleep[k] \in Int
                 /\ sleep[k] = IF k = 1 THEN p.initialWait ELSE NextWait(sleep[k - 1], p)
<1> DEFINE Body(f) == [k \in 1..n |-> IF k = 1 THEN p.initialWait ELSE NextWait(f[k - 1], p)]
           sleep == Waits(p, n)
<1>1. p.initialWait \in Int /\ \A w \in Int : NextWait(w, p) \in Int
  BY PolicyTypes, NextSleep
<1>2. \E f : f = Body(f)
  <2> DEFINE F == [w \in Int |-> NextWait(w, p)]
  <2>1. CASE n = 0
    <3>1. Body(<<>>) = Body(Body(<<>>))
      BY <2>1
    <3> HIDE DEF Body
    <3>. QED  BY <3>1
  <2>2. CASE n # 0
    <3>1. PICK m \in Nat : n = 1 + m
      BY <2>2
    <3>3. PICK f \in [1..(1 + m) -> Int] :
               f = [k \in 1..(1 + m) |-> IF k = 1 THEN p.initialWait ELSE F[f[k - 1]]]
      <4> DEFINE c == p.initialWait
      <4>1. c \in Int /\ F \in [Int -> Int] /\ 1 \in Int
        BY <1>1
      <4> HIDE DEF F, c
      <4>2. Recurs(Int, F, c, 1, m)
        BY <4>1, Recursion
      <4>. QED  BY <4>2 DEF Recurs, c
    <3>4. \A k \in 1..n : k # 1 => f[k - 1] \in Int
      <4>1. \A k \in 1..n : k # 1 => k - 1 \in 1..n
        OBVIOUS
      <4>. QED  BY <3>1, <4>1
    <3>5. \A k \in 1..n : (IF k = 1 THEN p.initialWait ELSE F[f[k - 1]])
                             = (IF k = 1 THEN p.initialWait ELSE NextWait(f[k - 1], p))
      BY <3>4
    <3>6. f = Body(f)
      <4> HIDE DEF F
      <4>. QED  BY <3>1, <3>3, <3>5
    <3> HIDE DEF Body
    <3>. QED  BY <3>6
  <2>. QED  BY <2>1, <2>2
<1>3. sleep = CHOOSE f : f = Body(f)
  BY DEF Waits
<1>4. sleep = Body(sleep)
  <2> HIDE DEF Body, sleep
  <2>. QED  BY <1>2, <1>3
<1>5. \A k \in 1..n :
         sleep[k] = IF k = 1 THEN p.initialWait ELSE NextWait(sleep[k - 1], p)
  <2> HIDE DEF sleep
  <2>. QED  BY <1>4
<1> DEFINE S == {k \in 1..n : sleep[k] \in Int}
<1>6. n >= 1 => 1 \in S
  <2> HIDE DEF sleep
  <2>. QED  BY <1>1, <1>5
<1>7. \A k \in 1..(n - 1) : k \in S => k + 1 \in S
  <2> HIDE DEF sleep
  <2>1. \A k \in 1..(n - 1) : k + 1 \in 1..n /\ k + 1 # 1 /\ (k + 1) - 1 = k
    OBVIOUS
  <2>. QED  BY <1>1, <1>5, <2>1
<1>8. 1..n \subseteq S
  <2> HIDE DEF S
  <2>. QED  BY <1>6, <1>7, IntervalInduction
<1>. QED  BY <1>5, <1>8

\* The powers of a number are the products they should be.
LEMMA PowersDefined ==
    ASSUME NEW m \in Nat, NEW n \in Nat
    PROVE  LET power == Powers(m, n)
           IN \A k \in 0..n :
                 /\ power[k] \in Nat
                 /\ power[k] = IF k = 0 THEN 1 ELSE m * power[k - 1]
<1> DEFINE Body(f) == [k \in 0..n |-> IF k = 0 THEN 1 ELSE m * f[k - 1]]
           power == Powers(m, n)
           F == [w \in Nat |-> m * w]
<1>1. PICK f \in [0..(0 + n) -> Nat] :
           f = [k \in 0..(0 + n) |-> IF k = 0 THEN 1 ELSE F[f[k - 1]]]
  <2>1. F \in [Nat -> Nat]
    OBVIOUS
  <2>2. 1 \in Nat /\ 0 \in Int
    OBVIOUS
  <2> HIDE DEF F
  <2>3. Recurs(Nat, F, 1, 0, n)
    BY <2>1, <2>2, Recursion
  <2>. QED  BY <2>3 DEF Recurs
<1>2. f = Body(f)
  <2>1. \A k \in 0..n : k # 0 => f[k - 1] \in Nat
    <3>1. \A k \in 0..n : k # 0 => k - 1 \in 0..(0 + n)
      OBVIOUS
    <3>. QED  BY <3>1
  <2>2. \A k \in 0..n : (IF k = 0 THEN 1 ELSE F[f[k - 1]])
                           = (IF k = 0 THEN 1 ELSE m * f[k - 1])
    BY <2>1
  <2>3. 0 + n = n
    OBVIOUS
  <2> HIDE DEF F
  <2>. QED  BY <1>1, <2>2, <2>3
<1>3. power = CHOOSE g : g = Body(g)
  BY DEF Powers
<1>4. power = Body(power)
  <2> HIDE DEF Body, power
  <2>. QED  BY <1>2, <1>3
<1>5. \A k \in 0..n : power[k] = IF k = 0 THEN 1 ELSE m * power[k - 1]
  <2> HIDE DEF power
  <2>. QED  BY <1>4
<1> DEFINE S == {k \in 1..(n + 1) : power[k - 1] \in Nat}
<1>6. 1 \in S
  <2> HIDE DEF power
  <2>1. 0 \in 0..n /\ 1 - 1 = 0 /\ 1 \in 1..(n + 1)
    OBVIOUS
  <2>. QED  BY <1>5, <2>1
<1>7. \A k \in 1..((n + 1) - 1) : k \in S => k + 1 \in S
  <2> HIDE DEF power
  <2> SUFFICES ASSUME NEW k \in 1..((n + 1) - 1), k \in S
               PROVE  k + 1 \in S
    OBVIOUS
  <2>1. k \in 0..n /\ k # 0 /\ (k + 1) - 1 = k /\ k + 1 \in 1..(n + 1)
    OBVIOUS
  <2>2. power[k] = m * power[k - 1]
    BY <1>5, <2>1
  <2>. QED  BY <2>1, <2>2
<1>8. 1..(n + 1) \subseteq S
  <2> HIDE DEF S
  <2>1. n + 1 \in Nat
    OBVIOUS
  <2>. QED  BY <1>6, <1>7, <2>1, IntervalInduction
<1>9. ASSUME NEW k \in 0..n
      PROVE  power[k] \in Nat
  <2> HIDE DEF power
  <2>1. k + 1 \in 1..(n + 1) /\ (k + 1) - 1 = k
    OBVIOUS
  <2>. QED  BY <1>8, <2>1
<1>. QED  BY <1>5, <1>9

\* Every sleep but the first is at most the ceiling, whatever overflows; and
\* while nothing overflows every sleep is positive and, once below the ceiling, no
\* shorter than the one before: the loop of runWithRetry, for any policy that validate
\* lets through, any width of a duration and any number of attempts.
THEOREM EverySleepIsBounded ==
    ASSUME NEW p \in RetryPolicy, Valid(p), NEW n \in Nat
    PROVE  Bounded(p, n)
<1> DEFINE sleep == Waits(p, n)
           Sound(k) == sleep[k] > 0 /\ (sleep[k] <= p.initialWait \/ sleep[k] <= p.maxWait)
           S == {k \in 1..n : Sound(k)}
<1>1. /\ \A k \in 1..n : sleep[k] \in Int
      /\ n >= 1 => sleep[1] = p.initialWait
  <2>1. \A k \in 1..n :
           /\ sleep[k] \in Int
           /\ sleep[k] = IF k = 1 THEN p.initialWait ELSE NextWait(sleep[k - 1], p)
    BY WaitsDefined
  <2> HIDE DEF sleep
  <2>. QED  BY <2>1
<1>2. \A k \in 2..n : k - 1 \in 1..n /\ sleep[k] = NextWait(sleep[k - 1], p)
  <2>1. \A k \in 1..n :
           /\ sleep[k] \in Int
           /\ sleep[k] = IF k = 1 THEN p.initialWait ELSE NextWait(sleep[k - 1], p)
    BY WaitsDefined
  <2> HIDE DEF sleep
  <2>2. \A k \in 2..n : k \in 1..n /\ k # 1 /\ k - 1 \in 1..n
    OBVIOUS
  <2>. QED  BY <2>1, <2>2
<1> HIDE DEF sleep
<1>3. ASSUME Fits(p)
      PROVE  1..n \subseteq S
  <2>1. n >= 1 => 1 \in S
    BY <1>1, PolicyTypes
  <2>2. ASSUME NEW k \in 1..(n - 1), k \in S
        PROVE  k + 1 \in S
    <3>1. k + 1 \in 2..n /\ k + 1 \in 1..n /\ (k + 1) - 1 = k /\ k \in 1..n
      OBVIOUS
    <3>2. sleep[k + 1] = NextWait(sleep[k], p) /\ sleep[k] \in Int
      BY <1>1, <1>2, <3>1
    <3>3. sleep[k + 1] <= p.maxWait /\ sleep[k + 1] > 0
      BY <1>3, <2>2, <3>2, NextSleep
    <3>. QED  BY <3>1, <3>3
  <2> HIDE DEF S
  <2>. QED  BY <2>1, <2>2, IntervalInduction
<1>4. ASSUME NEW k \in 2..n
      PROVE  /\ sleep[k] <= p.maxWait
             /\ Fits(p) => sleep[k] > 0
             /\ Fits(p) /\ sleep[1] <= p.maxWait => sleep[k] >= sleep[k - 1]
  <2>1. /\ k \in 1..n /\ k - 1 \in 1..n /\ sleep[k - 1] \in Int
        /\ sleep[k] = NextWait(sleep[k - 1], p)
    BY <1>1, <1>2
  <2>2. sleep[k] <= p.maxWait
    BY <2>1, NextSleep
  <2>3. Fits(p) => sleep[k] > 0
    BY <1>3, <2>1
  <2>4. ASSUME Fits(p), sleep[1] <= p.maxWait
        PROVE  sleep[k] >= sleep[k - 1]
    <3>1. sleep[k - 1] <= p.maxWait
      <4>1. CASE k = 2
        BY <2>4, <4>1
      <4>2. CASE k # 2
        <5>1. k - 1 \in 2..n
          BY <4>2
        <5>2. sleep[k - 1] = NextWait(sleep[(k - 1) - 1], p) /\ sleep[(k - 1) - 1] \in Int
          BY <1>1, <1>2, <5>1
        <5>. QED  BY <5>2, NextSleep
      <4>. QED  BY <4>1, <4>2
    <3>2. sleep[k - 1] > 0
      BY <1>3, <2>1, <2>4
    <3>. QED  BY <2>1, <2>4, <3>1, <3>2, NextSleep
  <2>. QED  BY <2>2, <2>3, <2>4
<1>. QED  BY <1>4 DEF Bounded, sleep

\* A number divided by one.
LEMMA DivByOne ==
    ASSUME NEW x \in Int
    PROVE  x \div 1 = x
OBVIOUS

\* A product of three, either way.
LEMMA Reassociate ==
    ASSUME NEW a \in Nat, NEW b \in Nat, NEW c \in Nat
    PROVE  a * (c * b) = (a * b) * c
OBVIOUS

\* With a whole multiplier, a sleep that follows a sound one is the multiple of it, or
\* the ceiling.
LEMMA NextSleepIsExact ==
    ASSUME NEW p \in RetryPolicy, Valid(p), Fits(p), p.multiplier.den = 1,
           NEW last \in Nat, last <= p.initialWait \/ last <= p.maxWait
    PROVE  NextWait(last, p) = IF last * p.multiplier.num > p.maxWait
                               THEN p.maxWait ELSE last * p.multiplier.num
<1> DEFINE num == p.multiplier.num
<1>1. p.initialWait \in Nat /\ p.maxWait \in Nat /\ num \in Nat /\ MaxDuration \in Nat
  BY PolicyTypes, MaxDurationAssumption
<1> HIDE DEF num
<1>2. last * num <= MaxDuration /\ last * num \in Nat
  <2>1. p.initialWait * num <= MaxDuration * 1 /\ p.maxWait * num <= MaxDuration * 1
    BY DEF Fits, num
  <2>2. last * num <= p.initialWait * num \/ last * num <= p.maxWait * num
    BY <1>1, Grows
  <2>. QED  BY <1>1, <2>1, <2>2
<1>3. (last * num) \div 1 = last * num
  BY <1>2, DivByOne
<1>4. last * num \in MinDuration..MaxDuration
  BY <1>1, <1>2 DEF MinDuration
<1>5. Scale(last, p.multiplier) = last * num
  BY <1>3, <1>4 DEF Scale, num
<1>. QED  BY <1>5 DEF NextWait, num

\* Without overflow and with a whole multiplier the sleeps of runWithRetry are the
\* closed form, the first wait times a power of the multiplier cut off at the ceiling:
\* the loop computes each sleep from the last one and not from the exact one, and
\* nothing is lost by that.
THEOREM SleepsAreExponential ==
    ASSUME NEW p \in RetryPolicy, Valid(p), NEW n \in Nat
    PROVE  Exponential(p, n)
<1> SUFFICES ASSUME Fits(p), p.multiplier.den = 1
             PROVE  \A k \in 2..n :
                       Waits(p, n)[k] =
                          IF p.initialWait * Powers(p.multiplier.num, n)[k - 1] > p.maxWait
                          THEN p.maxWait
                          ELSE p.initialWait * Powers(p.multiplier.num, n)[k - 1]
  BY DEF Exponential
<1> DEFINE init == p.initialWait
           num == p.multiplier.num
           top == p.maxWait
           sleep == Waits(p, n)
           power == Powers(num, n)
           Cut(x) == IF x > top THEN top ELSE x
           S == {k \in 1..n : sleep[k] = IF k = 1 THEN init ELSE Cut(init * power[k - 1])}
<1>1. init \in Nat \ {0} /\ num \in Nat \ {0} /\ top \in Nat \ {0}
  BY PolicyTypes
<1>2. /\ \A k \in 1..n : sleep[k] \in Int
      /\ n >= 1 => sleep[1] = init
      /\ \A k \in 1..(n - 1) : sleep[k + 1] = NextWait(sleep[k], p)
  <2>1. \A k \in 1..n :
           /\ sleep[k] \in Int
           /\ sleep[k] = IF k = 1 THEN init ELSE NextWait(sleep[k - 1], p)
    BY WaitsDefined
  <2> HIDE DEF sleep
  <2>2. \A k \in 1..(n - 1) : k + 1 \in 1..n /\ k + 1 # 1 /\ (k + 1) - 1 = k
    OBVIOUS
  <2>. QED  BY <2>1, <2>2
<1>3. /\ \A k \in 0..n : power[k] \in Nat
      /\ power[0] = 1
      /\ \A k \in 1..n : power[k] = num * power[k - 1]
  <2>1. \A k \in 0..n : power[k] \in Nat /\ power[k] = IF k = 0 THEN 1 ELSE num * power[k - 1]
    BY <1>1, PowersDefined
  <2> HIDE DEF power
  <2>2. 0 \in 0..n /\ \A k \in 1..n : k \in 0..n /\ k # 0
    OBVIOUS
  <2>. QED  BY <2>1, <2>2
<1>4. \A last \in Nat : last <= init \/ last <= top => NextWait(last, p) = Cut(last * num)
  BY NextSleepIsExact
<1> HIDE DEF init, num, top, sleep, power
<1>5. n >= 1 => 1 \in S
  BY <1>2
<1>6. ASSUME NEW k \in 1..(n - 1), k \in S
      PROVE  k + 1 \in S
  <2>1. /\ k + 1 \in 1..n /\ k + 1 # 1 /\ (k + 1) - 1 = k /\ k \in 1..n /\ k \in 0..n
        /\ k - 1 \in 0..n
    OBVIOUS
  <2>2. sleep[k + 1] = NextWait(sleep[k], p)
    BY <1>2
  <2>3. power[k] = num * power[k - 1] /\ power[k - 1] \in Nat /\ power[k] \in Nat
    BY <1>3, <2>1
  <2> DEFINE e == init * power[k - 1]
  <2>4. init * power[k] = e * num /\ e \in Nat
    BY <1>1, <2>3, Reassociate
  <2>5. k = 1 => e = init
    BY <1>1, <1>3
  <2> HIDE DEF e
  <2>6. CASE k = 1 \/ e <= top
    <3>1. sleep[k] = e /\ (e <= init \/ e <= top)
      <4>1. sleep[k] = IF k = 1 THEN init ELSE Cut(e)
        BY <1>6 DEF e
      <4>. QED  BY <1>1, <2>4, <2>5, <2>6, <4>1
    <3>2. NextWait(e, p) = Cut(e * num)
      BY <1>4, <2>4, <3>1
    <3>. QED  BY <2>1, <2>2, <2>4, <3>1, <3>2
  <2>7. CASE k # 1 /\ e > top
    <3>1. sleep[k] = top
      <4>1. sleep[k] = IF k = 1 THEN init ELSE Cut(e)
        BY <1>6 DEF e
      <4>. QED  BY <2>7, <4>1
    <3>2. e <= e * num /\ top <= top * num
      <4>1. e * 1 <= e * num /\ top * 1 <= top * num
        BY <1>1, <2>4, Grows
      <4>. QED  BY <1>1, <2>4, <4>1
    <3>3. e * num \in Nat /\ top * num \in Nat
      BY <1>1, <2>4
    <3>4. NextWait(top, p) = Cut(top * num)
      BY <1>1, <1>4
    <3>5. Cut(top * num) = top /\ Cut(e * num) = top
      BY <1>1, <2>4, <2>7, <3>2, <3>3
    <3>. QED  BY <2>1, <2>2, <2>4, <3>1, <3>4, <3>5
  <2>. QED  BY <1>1, <2>4, <2>6, <2>7
<1>7. 1..n \subseteq S
  <2> HIDE DEF S
  <2>. QED  BY <1>5, <1>6, IntervalInduction
<1>8. ASSUME NEW k \in 2..n
      PROVE  sleep[k] = Cut(init * power[k - 1])
  <2>1. k \in 1..n /\ k # 1
    OBVIOUS
  <2>. QED  BY <1>7, <2>1
<1>. QED  BY <1>8 DEF init, num, top, sleep, power

\* Every policy that the configuration lets through sleeps as the back-off promises,
\* whatever the environment may ask for and however many attempts are looked at.
THEOREM BackoffStaysBounded == ProcessSpec => []BackoffIsBounded
<1>1. BackoffIsBounded
  <2> SUFFICES ASSUME NEW p \in RetryPolicies, Valid(p)
               PROVE  SleepsWell(p)
    BY DEF BackoffIsBounded
  <2>1. p \in RetryPolicy /\ MaxSleeps \in Nat
    BY RetryPoliciesAssumption, MaxSleepsAssumption
  <2>. QED  BY <2>1, EverySleepIsBounded, SleepsAreExponential DEF SleepsWell
<1>. QED  BY <1>1, PTL

-----------------------------------------------------------------------------
(* The service inside the process, for clients that do not wait for each other. *)

\* A step of the process is one of the service, or one that its rows, its storage and
\* its tasks do not show.
LEMMA ProcessIsSeen ==
    ASSUME TypeInv, [ProcessNext]_processVars
    PROVE  [Next]_vars \/ UNCHANGED <<db, backend, task>>
<1>1. ASSUME NEW t \in Tasks, NEW op \in Ops, NEW n \in Names,
             NEW node \in Nodes \cup {NoNode}, Receive(t, op, n, node)
      PROVE  Next
  BY <1>1 DEF Receive, Next
<1>2. ASSUME NEW t \in Tasks, HttpStep(t)
      PROVE  Next
  BY <1>2 DEF HttpStep, Handle, Run, Next
<1>3. ASSUME NEW t \in Tasks, Reject(t) \/ Show(t)
      PROVE  UNCHANGED <<db, backend, task>>
  BY <1>3 DEF Reject, Show, vars
<1>4. HttpAny => [Next]_vars \/ UNCHANGED <<db, backend, task>>
  BY <1>1, <1>2, <1>3 DEF HttpAny, Aside
<1>5. UNCHANGED processVars => UNCHANGED <<db, backend, task>>
  BY DEF processVars, httpVars, vars
<1>. QED  BY <1>4, <1>5, ProcessIsHttp

\* The row of a volume on its way to, on or from a node has a node (which one, with
\* clients that do not wait for each other, it does not say), through every set-up and
\* shutdown.
THEOREM ProcessRecordsNodes == ProcessSpec => []NodeRecorded
<1>1. ProcessInit => NodeInv
  BY NodeInit DEF ProcessInit, HttpInit
<1>2. TypeInv /\ NodeInv /\ [ProcessNext]_processVars => NodeInv'
  <2>1. NodeInv /\ UNCHANGED <<db, backend, task>> => NodeInv'
    BY DEF NodeInv, Copying, NodeOK
  <2>. QED  BY <2>1, ProcessIsSeen, NodeStep
<1>3. NodeInv => NodeRecorded
  BY DEF NodeInv, NodeOK, NodeRecorded
<1>. QED  BY <1>1, <1>2, <1>3, ProcessInvariant, PTL DEF ProcessSpec

\* However many clients create a name at once, and whatever the process does
\* meanwhile, one goroutine provisions it.
THEOREM ProcessHasOneCreator == ProcessSpec => []OneCreator
<1>1. ProcessInit => CreatorInv
  BY CreatorInit DEF ProcessInit, HttpInit
<1>2. TypeInv /\ CreatorInv /\ [ProcessNext]_processVars => CreatorInv'
  <2>1. CreatorInv /\ UNCHANGED <<db, backend, task>> => CreatorInv'
    BY DEF CreatorInv, OneCreator, Creating
  <2>. QED  BY <2>1, ProcessIsSeen, CreatorStep
<1>3. CreatorInv => OneCreator
  BY DEF CreatorInv
<1>. QED  BY <1>1, <1>2, <1>3, ProcessInvariant, PTL DEF ProcessSpec

\* A volume shown as deleted is gone from the backend, also while a shutdown cancels
\* the goroutines of its deletion and of others.
THEOREM ProcessDeletesForGood == ProcessSpec => []DeletedMeansGone
<1>1. ProcessInit => GoneInv
  BY GoneInit DEF ProcessInit, HttpInit
<1>2. TypeInv /\ GoneInv /\ [ProcessNext]_processVars => GoneInv'
  <2>1. GoneInv /\ UNCHANGED <<db, backend, task>> => GoneInv'
    BY DEF GoneInv, Untouched, Reserved, Gone, Past, Provisioning, Creating, Claims, Copying
  <2>. QED  BY <2>1, ProcessIsSeen, GoneStep
<1>3. GoneInv => DeletedMeansGone
  BY DEF GoneInv, Gone, DeletedMeansGone
<1>. QED  BY <1>1, <1>2, <1>3, ProcessInvariant, PTL DEF ProcessSpec

\* The feature reports the goroutines gone only after a wait that has returned.
LEMMA DrainsByWaiting ==
    ASSUME TypeInv, closing = "drained" => wait = "returned", [ProcessNext]_processVars
    PROVE  (closing = "drained" => wait = "returned")'
<1>1. ASSUME UNCHANGED <<closing, wait>>
      PROVE  (closing = "drained" => wait = "returned")'
  BY <1>1
<1>2. ASSUME NEW t \in Tasks, Work(t)
      PROVE  (closing = "drained" => wait = "returned")'
  <2>1. UNCHANGED closing
    BY <1>2, StepCases DEF Work, HttpStep, Handle, Run, Show
  <2>. QED  BY <1>2, <2>1 DEF Work
<1>3. CASE Request
  BY <1>3 DEF Request, Receive, Arrive, mainVars
<1>4. CASE CancelFeature \/ CloseFeature
  BY <1>4 DEF CancelFeature, CloseFeature
<1>5. CASE WaitStarts \/ WaitReturns
  BY <1>5 DEF WaitStarts, WaitReturns, NothingServed, vars
<1>6. ASSUME NEW r, CloseOther(r)
      PROVE  UNCHANGED <<closing, wait>>
  BY <1>6 DEF CloseOther, NothingServed, vars
<1>7. CASE SetupStep \/ SetupFails \/ Leave \/ StopServer \/ CloseServer \/ Exit
  BY <1>1, <1>7
     DEF SetupStep, SetupFails, Leave, StopServer, CloseServer, Exit, NothingServed, vars
<1>8. CASE StreamStarts \/ StreamEnds \/ Signal \/ ServerFails \/ Expire
  BY <1>1, <1>8
     DEF StreamStarts, StreamEnds, Signal, ServerFails, Expire, NothingServed, vars
<1>9. CASE UNCHANGED processVars
  BY <1>1, <1>9 DEF processVars, httpVars, vars, mainVars
<1>. QED
  BY <1>1, <1>2, <1>3, <1>4, <1>5, <1>6, <1>7, <1>8, <1>9
     DEF ProcessNext, Proceed, Main, Shutdown

\* When the feature has closed within its deadline no goroutine is at work, though
\* handlers may go on to start some until the server has closed too: those have not
\* begun, and stop without doing anything.
THEOREM ProcessDrainsToQuiet == ProcessSpec => []DrainedMeansQuiet
<1> DEFINE Waited == closing = "drained" => wait = "returned"
<1>1. ProcessInit => Waited
  BY DEF ProcessInit, HttpInit, Init
<1>2. TypeInv /\ Waited /\ [ProcessNext]_processVars => Waited'
  BY DrainsByWaiting
<1>3. ProcessInv /\ Waited => DrainedMeansQuiet
  BY DEF ProcessInv, Curtain, Quiet, DrainedMeansQuiet
<1>. QED  BY <1>1, <1>2, <1>3, ProcessInvariant, PTL DEF ProcessSpec

-----------------------------------------------------------------------------
(* The service inside the process, for clients that wait for each other. *)

\* What such clients ask for is among what clients ask for.
LEMMA OrderlyIsProcess == OrderlyProcessSpec => ProcessSpec
<1>1. [OrderlyRequest \/ Proceed]_processVars => [ProcessNext]_processVars
  BY DEF OrderlyRequest, ProcessNext
<1>. QED  BY <1>1, PTL DEF OrderlyProcessSpec, ProcessSpec

\* The request that arrives is that of an orderly client.
LEMMA OrderlyReceive ==
    ASSUME TypeInv, HttpInv, OrderlyRequest
    PROVE  HttpOrderly
<1>1. PICK t \in Tasks, op \in Ops, n \in Names, node \in Nodes \cup {NoNode} :
          Receive(t, op, n, node)
  BY DEF OrderlyRequest, Request
<1> DEFINE x == [pc |-> "app", op |-> op, name |-> n, node |-> node]
<1>2. exchange[t] = Free /\ exchange'[t] = x
  BY <1>1 DEF Receive, HttpInv
<1>3. x # Free
  BY DEF Free
<1>4. OrderlyClient(op, n)
  BY <1>2, <1>3 DEF OrderlyRequest
<1>. QED  BY <1>1, <1>4 DEF HttpOrderly

\* main closes the service as its users assume: once and for all.
LEMMA OrderlyProceed ==
    ASSUME TypeInv, HttpInv, [OrderlyRequest \/ Proceed]_processVars
    PROVE  [HttpOrderly]_httpVars
<1>1. ASSUME NEW t \in Tasks, Work(t)
      PROVE  HttpOrderly
  BY <1>1 DEF Work, HttpOrderly
<1>2. ASSUME NothingServed
      PROVE  HttpOrderly
  BY <1>2 DEF NothingServed, vars, HttpOrderly, Aside, Canceled, TypeInv, TypeOK
<1>3. CASE CancelFeature \/ CloseFeature
  BY <1>3 DEF CancelFeature, CloseFeature, HttpOrderly, Aside, Canceled
<1>4. ASSUME NEW r, CloseOther(r)
      PROVE  HttpOrderly
  BY <1>2, <1>4 DEF CloseOther
<1>5. CASE SetupStep \/ SetupFails \/ Leave \/ StopServer \/ CloseServer \/ Exit
  BY <1>2, <1>5 DEF SetupStep, SetupFails, Leave, StopServer, CloseServer, Exit
<1>6. CASE \/ WaitStarts \/ WaitReturns \/ StreamStarts \/ StreamEnds
           \/ Signal \/ ServerFails \/ Expire
  BY <1>2, <1>6
     DEF WaitStarts, WaitReturns, StreamStarts, StreamEnds, Signal, ServerFails, Expire
<1>7. CASE UNCHANGED processVars
  BY <1>7 DEF processVars
<1>. QED
  BY <1>1, <1>3, <1>4, <1>5, <1>6, <1>7, OrderlyReceive DEF Proceed, Main, Shutdown

\* The process is a service of orderly clients: everything said of one holds in it.
LEMMA ProcessIsService == OrderlyProcessSpec => OrderlyService
<1>1. ProcessInit => HttpInit
  BY DEF ProcessInit
<1>2. OrderlyProcessSpec => [](TypeInv /\ HttpInv)
  BY OrderlyIsProcess, ProcessInvariant, PTL
<1>. QED
  BY <1>1, <1>2, OrderlyProceed, PTL DEF OrderlyProcessSpec, OrderlyService

\* From the set-up to the exit, through signals, a failing server, a deadline that
\* runs out and a panic, the process does to its volumes what the life cycle promises.
THEOREM ProcessImplementsLifecycle == OrderlyProcessSpec => ImplementsLifecycle
BY ProcessIsService, OrderlyLifecycle, PTL

\* Nothing of this makes a row leave the FSM, gives one to two goroutines, or leaves
\* one at rest that is not what the backend knows or names another node.
THEOREM ProcessRowsAreTrue ==
    OrderlyProcessSpec => /\ FollowsFsm /\ []StableStateIsTrue
                          /\ []MountIsNamed /\ []OneAtWork
BY ProcessIsService, OrderlyRows, PTL

\* What is accepted is under way, a reconciled row agrees with the backend, and a body
\* is about its request, also when a signal ends the contexts of the requests half way.
THEOREM ProcessAnswersTruly ==
    OrderlyProcessSpec => AcceptanceIsTrue /\ []BodyIsAboutRequest
BY ProcessIsService, OrderlyAcceptance, OrderlyBodies, PTL

\* With the in-memory repository a volume in progress has a task at work on it until
\* the feature cancels them: neither a signal nor a failing server leaves one alone.
THEOREM ProcessAttends ==
    ASSUME Repo = "inmemory"
    PROVE  OrderlyProcessSpec => []Attended
BY ProcessIsService, OrderlyProgress, PTL

=============================================================================
