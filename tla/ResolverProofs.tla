-------------------------- MODULE ResolverProofs --------------------------
(***************************************************************************)
(* For any number of threads, service types, resolvers, operations and     *)
(* forks: the registry has one service per key and keeps each in front of  *)
(* those it uses, nothing outlives what it refers to, and each resolve     *)
(* operation is done or destroyed once.                                    *)
(***************************************************************************)
EXTENDS ResolverService, OpQueueTheorems

Phases == {"open", "fork_prepare", "forked", "shutdown", "destroy"}
Service == [key : Keys \cup {"none"}, uses : Seq(Objects),
            state : {"none", "constructing", "alive", "shutdown"}]
Frame == [call : {"use", "make"}, key : Keys, obj : Objects \cup {NoObject},
          at : {"find", "construct", "insert"}]

TypeRegistry ==
    /\ list \in Seq(Objects) /\ svc \in [Objects -> Service]
    /\ stack \in [Threads -> Seq(Frame)] /\ found \in [Threads -> SUBSET Objects]
    /\ phase \in Phases /\ todo \in Seq(Objects) /\ forks \in 0 .. MaxForks

-----------------------------------------------------------------------------
(* The registry.                                                           *)

\* Its constructor has all it needs.
Complete(x) == x.key \in Keys /\ ~(Len(x.uses) < Len(Needs[x.key]))

\* Once the call in progress f has an object, it is its own.
Owns(f, l, objects) ==
    IF f.at = "find" THEN f.obj = NoObject /\ f.call = "use"
    ELSE /\ f.obj \in Objects /\ ~Has(l, f.obj) /\ objects[f.obj].key = f.key
         /\ objects[f.obj].state = IF f.at = "insert" THEN "alive" ELSE "constructing"
         /\ f.at = "insert" => Complete(objects[f.obj])
OwnObject(f) == Owns(f, list, svc)

\* Under the call that is running there are only constructors that wait for it.
Shape(q) ==
    \A i \in 1 .. Len(q) : /\ i > 1 => q[i].at = "construct"
                           /\ i < Len(q) => q[i].call = "use"
Frames ==
    \A t \in Threads : /\ Shape(stack[t])
                       /\ \A i \in 1 .. Len(stack[t]) : OwnObject(stack[t][i])

\* Two calls do not construct the same object.
Apart ==
    \A t, u \in Threads : \A i \in 1 .. Len(stack[t]), j \in 1 .. Len(stack[u]) :
        stack[t][i].obj = stack[u][j].obj /\ stack[t][i].obj # NoObject => t = u /\ i = j

InHand(s) == \E t \in Threads : \E i \in 1 .. Len(stack[t]) : stack[t][i].obj = s

\* An object is in the list or belongs to a call; what it uses is in the list.
Placed ==
    \A s \in Objects :
        /\ svc[s] # NoService => Has(list, s) \/ InHand(s)
        /\ \A i \in 1 .. Len(svc[s].uses) : Has(list, svc[s].uses[i])

\* A service of the list has all it needs, and it is alive until shutdown() visits it.
Linked ==
    \A s \in Objects : Has(list, s) =>
        /\ Complete(svc[s])
        /\ phase \notin {"shutdown", "destroy"} \/ Has(todo, s) => svc[s].state = "alive"

OnePerKey == \A i, j \in 1 .. Len(list) : svc[list[i]].key = svc[list[j]].key => i = j

\* A service stands in front of those its constructor obtained.
Behind(i, s) == \E j \in i + 1 .. Len(list) : list[j] = s
InFront ==
    \A i \in 1 .. Len(list) : \A n \in 1 .. Len(svc[list[i]].uses) : Behind(i, svc[list[i]].uses[n])

\* The program's references.
Referenced == \A t \in Threads : \A s \in found[t] : Has(list, s) \/ phase = "destroy"

\* What is still to be visited is the end of the list, or the whole of it backwards.
Walking ==
    /\ phase # "open" => Quiet
    /\ phase \in {"open", "destroy"} => todo = <<>>
    /\ phase \in {"fork_prepare", "shutdown"} =>
         /\ Len(todo) <= Len(list)
         /\ \A i \in 1 .. Len(todo) : todo[i] = list[Len(list) - Len(todo) + i]
    /\ phase = "forked" => \A i \in 1 .. Len(todo) : Has(list, todo[i])

RegistryInv ==
    /\ TypeRegistry /\ Frames /\ Apart /\ Placed
    /\ Linked /\ OnePerKey /\ InFront /\ Referenced /\ Walking

-----------------------------------------------------------------------------
(* The resolver services.                                                  *)

Answers == {"none", "aborted", "result"}
OpRecord == [token : Tokens \cup {NoToken}, res : Resolvers \cup {NoResolver}, answer : Answers]
Work == [open : BOOLEAN, queue : Seq(Ops), stopped : BOOLEAN,
         thread : {"none", "running", "ended"}, cur : Ops \cup {NoOp}]
Impl == [svc : Objects \cup {NoObject}, token : Tokens \cup {NoToken}, owner : Ops \cup {Program}]
TypeResolver ==
    /\ work \in [Objects -> Work] /\ op_queue_ \in [Objects -> Seq(Ops)]
    /\ outstanding_work_ \in Int /\ impl \in [Resolvers -> Impl]
    /\ op \in [Ops -> OpRecord] /\ issued \in 0 .. MaxOps
    /\ done \subseteq Ops /\ destroyed \subseteq Ops /\ cancelled \subseteq Ops

\* The service may be called: shutdown() has not visited it.
Standing(s) == Has(list, s) /\ (phase \in {"shutdown", "destroy"} => Has(todo, s))

Empty(s) ==
    /\ work[s].queue = <<>> /\ work[s].cur = NoOp /\ work[s].thread = "none"
    /\ op_queue_[s] = <<>>

\* Only such a service has operations, and only an open resolver service has a thread,
\* until the prepare event of a fork.
Working ==
    \A s \in Objects :
        /\ Standing(s) \/ Empty(s)
        /\ HasThread(s) => work[s].open /\ svc[s].key = "resolver" /\ phase # "forked"
        /\ phase = "fork_prepare" /\ HasThread(s) => Has(todo, s)
        /\ work[s].cur # NoOp => work[s].thread = "running"
        /\ svc[s].key = "resolver" /\ svc[s].state = "alive" => work[s].open

\* The operation is somewhere between the two schedulers.
Within(o, w, q) == \E s \in Objects : Has(w[s].queue, o) \/ w[s].cur = o \/ Has(q[s], o)
InPlace(o) == Within(o, work, op_queue_)

\* A resolver has its service, and an owner that is still there.
Owned ==
    \A r \in Resolvers : Exists(r) =>
        /\ Has(list, impl[r].svc) /\ svc[impl[r].svc].key = "resolver"
        /\ impl[r].owner # Program => InPlace(impl[r].owner)
        /\ phase \in {"shutdown", "destroy"} => impl[r].owner # Program

ServiceInv == RegistryInv /\ TypeResolver /\ Working /\ Owned

-----------------------------------------------------------------------------
(* Sequences.                                                              *)

LEMMA TailFacts ==
  ASSUME NEW S, NEW q \in Seq(S), q # <<>>
  PROVE  /\ Tail(q) \in Seq(S) /\ Len(Tail(q)) = Len(q) - 1 /\ Len(q) \in Nat \ {0}
         /\ Head(q) = q[1] /\ Head(q) \in S
         /\ \A i \in 1 .. Len(Tail(q)) : Tail(q)[i] = q[i + 1] /\ i + 1 \in 1 .. Len(q)
OBVIOUS

LEMMA PushFacts ==
  ASSUME NEW S, NEW q \in Seq(S), NEW x \in S
  PROVE  /\ <<x>> \o q \in Seq(S) /\ Len(<<x>> \o q) = Len(q) + 1 /\ (<<x>> \o q)[1] = x
         /\ \A i \in 2 .. Len(<<x>> \o q) : (<<x>> \o q)[i] = q[i - 1] /\ i - 1 \in 1 .. Len(q)
         /\ \A i \in 1 .. Len(q) : (<<x>> \o q)[i + 1] = q[i]
OBVIOUS

LEMMA PushHas ==
  ASSUME NEW S, NEW q \in Seq(S), NEW x \in S, NEW y
  PROVE  Has(<<x>> \o q, y) <=> y = x \/ Has(q, y)
<1>1. Len(q) \in Nat
  OBVIOUS
<1>2. ASSUME NEW i \in 1 .. Len(<<x>> \o q) PROVE i = 1 \/ i \in 2 .. Len(<<x>> \o q)
  BY <1>1, PushFacts
<1>3. 1 \in 1 .. Len(<<x>> \o q) /\ \A i \in 1 .. Len(q) : i + 1 \in 1 .. Len(<<x>> \o q)
  BY <1>1, PushFacts
<1> QED BY <1>2, <1>3, PushFacts DEF Has

LEMMA AppendHas ==
  ASSUME NEW S, NEW q \in Seq(S), NEW x \in S
  PROVE  Has(Append(q, x), x) /\ \A y : Has(q, y) => Has(Append(q, x), y)
<1>1. /\ Len(Append(q, x)) = Len(q) + 1 /\ Append(q, x)[Len(q) + 1] = x
      /\ \A i \in 1 .. Len(q) : Append(q, x)[i] = q[i]
  OBVIOUS
<1>2. Len(q) + 1 \in 1 .. Len(Append(q, x)) /\ 1 .. Len(q) \subseteq 1 .. Len(Append(q, x))
  BY <1>1
<1> QED BY <1>1, <1>2 DEF Has

LEMMA InSet == ASSUME NEW S, NEW q \in Seq(S), NEW x PROVE x \in ToSet(q) <=> Has(q, x)
BY DEF ToSet, Has

LEMMA Members ==
  ASSUME TypeRegistry, NEW k
  PROVE  /\ \A s \in Registered(k) : s \in Objects /\ Has(list, s) /\ svc[s].key = k
         /\ \A s : Has(list, s) => s \in Objects /\ (svc[s].key = k => s \in Registered(k))
         /\ \A i \in 1 .. Len(list) : list[i] \in Objects /\ Has(list, list[i])
BY InSet DEF Registered, Has, TypeRegistry

LEMMA ListKept ==
  ASSUME OnePerKey, InFront, list' = list,
         \A i \in 1 .. Len(list) : /\ svc'[list[i]].key = svc[list[i]].key
                                    /\ svc'[list[i]].uses = svc[list[i]].uses
  PROVE  OnePerKey' /\ InFront'
<1>1. \A i, j \in 1 .. Len(list) : svc'[list[i]].key = svc'[list[j]].key => i = j
  BY DEF OnePerKey
<1>2. \A i \in 1 .. Len(list) : \A n \in 1 .. Len(svc'[list[i]].uses) :
         \E j \in i + 1 .. Len(list) : list[j] = svc'[list[i]].uses[n]
  <2> TAKE i \in 1 .. Len(list)
  <2> TAKE n \in 1 .. Len(svc'[list[i]].uses)
  <2>1. svc'[list[i]].uses = svc[list[i]].uses
    OBVIOUS
  <2>2. Behind(i, svc[list[i]].uses[n])
    BY <2>1 DEF InFront
  <2> QED BY <2>1, <2>2 DEF Behind
<1> QED BY <1>1, <1>2 DEF OnePerKey, InFront, Behind

\* The service object x when its constructor has obtained s.
Using(x, s) == [x EXCEPT !.uses = Append(@, s)]

LEMMA UsingFacts ==
  ASSUME NEW x \in Service, NEW s \in Objects
  PROVE  /\ Using(x, s) \in Service /\ Using(x, s).key = x.key /\ Using(x, s).state = x.state
         /\ Using(x, s).uses = Append(x.uses, s)
<1>1. Append(x.uses, s) \in Seq(Objects)
  BY AppendProperties DEF Service
<1> QED BY <1>1 DEF Service, Using

\* The service objects, none and new.
LEMMA ServiceFacts ==
  /\ NoService \in Service /\ NoService.uses = <<>> /\ NoService.key = "none" /\ NoService.state = "none"
  /\ \A k \in Keys : New(k) \in Service /\ New(k).key = k /\ New(k).state = "constructing"
                     /\ New(k).uses = <<>> /\ New(k) # NoService
  /\ \A x \in Service : /\ x.key \in Keys \cup {"none"} /\ x.uses \in Seq(Objects)
                        /\ x.state \in {"none", "constructing", "alive", "shutdown"}
  /\ NoObject \notin Objects /\ Objects \subseteq Nat
<1>1. NoService \in Service /\ \A k \in Keys : New(k) \in Service
  BY DEF NoService, New, Service
<1>3. \A x \in Service : /\ x.key \in Keys \cup {"none"} /\ x.uses \in Seq(Objects)
                         /\ x.state \in {"none", "constructing", "alive", "shutdown"}
  BY DEF Service
<1>4. /\ NoService.uses = <<>> /\ NoService.key = "none" /\ NoService.state = "none"
      /\ \A k \in Keys : /\ New(k).key = k /\ New(k).state = "constructing"
                         /\ New(k).uses = <<>> /\ New(k) # NoService
      /\ NoObject \notin Objects /\ Objects \subseteq Nat
  BY RegistryAssumption DEF NoService, New, NoObject, Objects
<1> QED BY <1>1, <1>3, <1>4

-----------------------------------------------------------------------------
(* Calls that return.                                                      *)

\* The call that runs on a thread, and the constructor that waits for it.
LEMMA TopFacts ==
  ASSUME RegistryInv, NEW t \in Threads, stack[t] # <<>>
  PROVE  /\ stack[t] \in Seq(Frame) /\ 1 \in 1 .. Len(stack[t]) /\ Len(stack[t]) \in Nat
         /\ Top(t) = stack[t][1] /\ Top(t) \in Frame /\ OwnObject(Top(t))
         /\ phase = "open" /\ todo = <<>>
         /\ Len(stack[t]) # 1 => /\ 2 \in 1 .. Len(stack[t]) /\ stack[t][2].at = "construct"
                                 /\ stack[t][2].obj \in Objects /\ OwnObject(stack[t][2])
                                 /\ stack[t][2].obj # Top(t).obj /\ Top(t).call = "use"
<1>1. stack[t] \in Seq(Frame) /\ 1 \in 1 .. Len(stack[t]) /\ Len(stack[t]) \in Nat /\ Top(t) = stack[t][1]
   /\ Top(t) \in Frame
  BY TailFacts DEF RegistryInv, TypeRegistry, Top
<1>2. OwnObject(Top(t))
  BY <1>1 DEF RegistryInv, Frames
<1>3. phase = "open" /\ todo = <<>>
  BY DEF RegistryInv, Walking, Quiet
<1>4. ASSUME Len(stack[t]) # 1
      PROVE  /\ 2 \in 1 .. Len(stack[t]) /\ stack[t][2].at = "construct"
             /\ stack[t][2].obj \in Objects /\ OwnObject(stack[t][2])
             /\ stack[t][2].obj # Top(t).obj /\ Top(t).call = "use"
  <2>1. 2 \in 1 .. Len(stack[t]) /\ 1 < Len(stack[t])
    <3>1. \A n \in Nat : 1 \in 1 .. n /\ n # 1 => 2 \in 1 .. n /\ 1 < n
      OBVIOUS
    <3> QED BY <3>1, <1>1, <1>4
  <2>0. Shape(stack[t]) /\ OwnObject(stack[t][2])
    BY <2>1 DEF RegistryInv, Frames
  <2>2. stack[t][2].at = "construct" /\ OwnObject(stack[t][2]) /\ Top(t).call = "use"
    <3>1. 2 > 1
      OBVIOUS
    <3> QED BY <2>1, <2>0, <3>1, <1>1 DEF Shape
  <2>3. stack[t][2].obj \in Objects /\ stack[t][2].obj # NoObject
    BY <2>2, ServiceFacts DEF OwnObject, Owns
  <2>4. stack[t][2].obj # Top(t).obj
    BY <2>1, <2>3, <1>1 DEF RegistryInv, Apart
  <2> QED BY <2>1, <2>2, <2>3, <2>4
<1> QED BY <1>1, <1>2, <1>3, <1>4

\* What a returning call does to the objects: one that waits for it gets the service.
LEMMA Returned ==
  ASSUME RegistryInv, NEW t \in Threads, stack[t] # <<>>, NEW s \in Objects,
         NEW objects \in [Objects -> Service],
         \A o \in Objects \ {Top(t).obj} : objects[o] = svc[o],
         Return(t, s), svc' = Given(t, s, objects)
  PROVE  /\ svc' \in [Objects -> Service] /\ found' \in [Threads -> SUBSET Objects]
         /\ stack' = [stack EXCEPT ![t] = Tail(stack[t])] /\ stack' \in [Threads -> Seq(Frame)]
         /\ Top(t).obj \in Objects => svc'[Top(t).obj] = objects[Top(t).obj]
         /\ \A o \in Objects \ {Top(t).obj} :
              /\ svc'[o].key = svc[o].key /\ svc'[o].state = svc[o].state
              /\ \/ svc'[o] = svc[o]
                 \/ /\ Len(stack[t]) # 1 /\ o = stack[t][2].obj
                    /\ svc'[o].uses = Append(svc[o].uses, s)
         /\ \A u \in Threads : found'[u] \subseteq found[u] \cup {s}
<1> USE DEF RegistryInv, TypeRegistry
<1>1. stack' = [stack EXCEPT ![t] = Tail(stack[t])] /\ stack' \in [Threads -> Seq(Frame)]
  BY TopFacts, TailFacts DEF Return
<1>2. /\ found' \in [Threads -> SUBSET Objects]
      /\ \A u \in Threads : found'[u] \subseteq found[u] \cup {s}
  BY DEF Return
<1>3. CASE Len(stack[t]) = 1
  <2>1. svc' = objects
    BY <1>3 DEF Given
  <2> QED BY <2>1, <1>1, <1>2
<1>4. CASE Len(stack[t]) # 1
  <2> DEFINE p == stack[t][2].obj
  <2>1. p \in Objects /\ p # Top(t).obj /\ objects[p] = svc[p]
    BY <1>4, TopFacts
  <2>2. svc' = [objects EXCEPT ![p] = Using(objects[p], s)]
    BY <1>4 DEF Given, Using
  <2>3. /\ Using(objects[p], s) \in Service /\ Using(objects[p], s).key = objects[p].key
        /\ Using(objects[p], s).state = objects[p].state
        /\ Using(objects[p], s).uses = Append(objects[p].uses, s)
    <3>1. objects[p] \in Service
      BY <2>1
    <3> QED BY <3>1, UsingFacts
  <2>4. svc' \in [Objects -> Service] /\ svc'[p] = Using(objects[p], s)
     /\ \A o \in Objects \ {p} : svc'[o] = objects[o]
    BY <2>1, <2>2, <2>3
  <2> QED BY <1>1, <1>2, <1>4, <2>1, <2>3, <2>4
<1> QED BY <1>3, <1>4

\* The calls that are left are in order, if their objects are.
LEMMA FramesLeft ==
  ASSUME RegistryInv, NEW t \in Threads, stack[t] # <<>>,
         stack' = [stack EXCEPT ![t] = Tail(stack[t])], svc' \in [Objects -> Service],
         \A o \in Objects \ {Top(t).obj} :
            /\ svc'[o].key = svc[o].key /\ svc'[o].state = svc[o].state
            /\ Len(svc'[o].uses) >= Len(svc[o].uses)
            /\ InHand(o) /\ ~Has(list, o) => ~Has(list', o)
  PROVE  /\ (Frames /\ Apart)'
         /\ \A o \in Objects : InHand(o) /\ o # Top(t).obj => InHand(o)'
<1>1. /\ stack[t] \in Seq(Frame) /\ Tail(stack[t]) \in Seq(Frame)
      /\ Len(Tail(stack[t])) = Len(stack[t]) - 1 /\ Len(stack[t]) \in Nat \ {0}
      /\ \A i \in 1 .. Len(Tail(stack[t])) : Tail(stack[t])[i] = stack[t][i + 1] /\ i + 1 \in 1 .. Len(stack[t])
      /\ 1 \in 1 .. Len(stack[t]) /\ Top(t) = stack[t][1]
  BY TailFacts, TopFacts DEF RegistryInv, TypeRegistry
<1>2. stack'[t] = Tail(stack[t]) /\ \A u \in Threads \ {t} : stack'[u] = stack[u]
  BY DEF RegistryInv, TypeRegistry
<1> DEFINE old(u, i) == IF u = t THEN i + 1 ELSE i
<1>3. \A u \in Threads : \A i \in 1 .. Len(stack'[u]) :
         /\ old(u, i) \in 1 .. Len(stack[u]) /\ stack'[u][i] = stack[u][old(u, i)]
         /\ stack'[u][i] \in Frame
         /\ <<u, old(u, i)>> # <<t, 1>>
  BY <1>1, <1>2 DEF RegistryInv, TypeRegistry
<1>4. ASSUME NEW f \in Frame, NEW u \in Threads, NEW i \in 1 .. Len(stack[u]), f = stack[u][i],
             <<u, i>> # <<t, 1>>
      PROVE  Owns(f, list', svc')
  <2>1. Owns(f, list, svc)
    BY <1>4 DEF RegistryInv, Frames, OwnObject
  <2>2. f.at = "find" => f.obj = NoObject /\ f.call = "use"
    BY <2>1 DEF Owns
  <2>3. ASSUME f.at # "find"
        PROVE  f.obj \in Objects \ {Top(t).obj} /\ InHand(f.obj)
    <3>1. f.obj \in Objects
      BY <2>1, <2>3 DEF Owns
    <3>2. f.obj # Top(t).obj
      <4>1. f.obj # NoObject /\ ~(u = t /\ i = 1)
        BY <1>4, <3>1, ServiceFacts
      <4>2. \A j \in 1 .. Len(stack[t]) : f.obj = stack[t][j].obj => u = t /\ i = j
        BY <1>4, <4>1 DEF RegistryInv, Apart
      <4> QED BY <1>1, <4>1, <4>2
    <3>3. InHand(f.obj)
      BY <1>4 DEF InHand
    <3> QED BY <3>1, <3>2, <3>3
  <2>4. ASSUME f.at # "find"
        PROVE  ~Has(list', f.obj) /\ (Complete(svc[f.obj]) => Complete(svc'[f.obj]))
    <3>1. ~Has(list, f.obj)
      BY <2>1, <2>4 DEF Owns
    <3> DEFINE n == Len(svc[f.obj].uses)
               m == Len(svc'[f.obj].uses)
               k == Len(Needs[svc[f.obj].key])
    <3>2. m >= n /\ svc'[f.obj].key = svc[f.obj].key
      BY <2>3, <2>4
    <3>3. ASSUME svc[f.obj].key \in Keys PROVE n \in Nat /\ k \in Nat /\ m \in Nat
      <4>1. svc[f.obj] \in Service /\ svc'[f.obj] \in Service
        BY <2>3, <2>4 DEF RegistryInv, TypeRegistry
      <4>2. /\ svc[f.obj].uses \in Seq(Objects) /\ Needs[svc[f.obj].key] \in Seq(Keys)
            /\ svc'[f.obj].uses \in Seq(Objects)
        BY <4>1, <3>3, ServiceFacts, RegistryAssumption
      <4> QED BY <4>2, LenProperties
    <3>4. svc[f.obj].key \in Keys => (~(n < k) => ~(m < k))
      <4>1. \A x, y, z \in Nat : y >= x /\ ~(x < z) => ~(y < z)
        OBVIOUS
      <4> QED BY <3>2, <3>3, <4>1
    <3> QED BY <2>3, <2>4, <3>1, <3>2, <3>4 DEF Complete
  <2> QED BY <2>1, <2>2, <2>3, <2>4 DEF Owns
<1>5. ASSUME NEW u \in Threads PROVE Shape(stack'[u])
  <2>1. CASE u # t
    BY <1>2, <2>1 DEF RegistryInv, Frames
  <2>2. CASE u = t
    <3>1. Shape(stack[t])
      BY DEF RegistryInv, Frames
    <3>2. ASSUME NEW i \in 1 .. Len(Tail(stack[t]))
          PROVE  /\ i > 1 => Tail(stack[t])[i].at = "construct"
                 /\ i < Len(Tail(stack[t])) => Tail(stack[t])[i].call = "use"
      <4>1. i + 1 \in 1 .. Len(stack[t]) /\ Tail(stack[t])[i] = stack[t][i + 1]
        BY <1>1
      <4>2. i + 1 > 1 /\ (i < Len(Tail(stack[t])) => i + 1 < Len(stack[t]))
        BY <1>1
      <4> QED BY <3>1, <4>1, <4>2 DEF Shape
    <3> QED BY <1>2, <2>2, <3>2 DEF Shape
  <2> QED BY <2>1, <2>2
<1>6. Frames'
  <2>1. ASSUME NEW u \in Threads, NEW i \in 1 .. Len(stack'[u]) PROVE OwnObject(stack[u][i])'
    <3>1. PICK f \in Frame : f = stack'[u][i]
      BY <1>3, <2>1
    <3>2. /\ old(u, i) \in 1 .. Len(stack[u]) /\ f = stack[u][old(u, i)]
          /\ <<u, old(u, i)>> # <<t, 1>>
      BY <1>3, <2>1, <3>1
    <3>3. Owns(f, list', svc')
      <4>1. PICK m : m = old(u, i)
        OBVIOUS
      <4>2. m \in 1 .. Len(stack[u]) /\ f = stack[u][m] /\ <<u, m>> # <<t, 1>>
        BY <3>2, <4>1
      <4> QED BY <1>4, <4>2
    <3> QED BY <3>1, <3>3 DEF OwnObject, Owns
  <2> QED BY <2>1, <1>5 DEF Frames
<1>7. Apart'
  <2>1. \A u, w \in Threads : \A i \in 1 .. Len(stack'[u]), j \in 1 .. Len(stack'[w]) :
           stack'[u][i].obj = stack'[w][j].obj /\ stack'[u][i].obj # NoObject => u = w /\ i = j
    <3> TAKE u, w \in Threads
    <3> TAKE i \in 1 .. Len(stack'[u]), j \in 1 .. Len(stack'[w])
    <3> HAVE stack'[u][i].obj = stack'[w][j].obj /\ stack'[u][i].obj # NoObject
    <3>1. PICK m \in 1 .. Len(stack[u]) : m = old(u, i) /\ stack'[u][i] = stack[u][m]
      BY <1>3
    <3>2. PICK n \in 1 .. Len(stack[w]) : n = old(w, j) /\ stack'[w][j] = stack[w][n]
      BY <1>3
    <3>3. Apart
      BY DEF RegistryInv
    <3>4. stack[u][m].obj = stack[w][n].obj /\ stack[u][m].obj # NoObject
      BY <3>1, <3>2
    <3>5. u = w /\ m = n
      BY <3>3, <3>4 DEF Apart
    <3> QED BY <3>1, <3>2, <3>5
  <2> QED BY <2>1 DEF Apart
<1>8. ASSUME NEW o \in Objects, InHand(o), o # Top(t).obj PROVE InHand(o)'
  <2>0. PICK u \in Threads : \E i \in 1 .. Len(stack[u]) : stack[u][i].obj = o
    BY <1>8 DEF InHand
  <2>1. PICK i \in 1 .. Len(stack[u]) : stack[u][i].obj = o
    BY <2>0
  <2>2. CASE u # t
    BY <2>1, <2>2, <1>2 DEF InHand
  <2>3. CASE u = t
    <3>1. i # 1
      BY <2>1, <2>3, <1>1, <1>8
    <3>2. i - 1 \in 1 .. Len(Tail(stack[t])) /\ Tail(stack[t])[i - 1] = stack[t][i]
      BY <3>1, <2>3, <1>1
    <3> QED BY <3>2, <2>1, <2>3, <1>2 DEF InHand
  <2> QED BY <2>2, <2>3
<1> QED BY <1>6, <1>7, <1>8

\* A call that returns a service of the list, and one that puts its object in front.
LEMMA ReturnKeeps ==
  ASSUME RegistryInv, NEW t \in Threads, stack[t] # <<>>, NEW s \in Objects,
         NEW objects \in [Objects -> Service],
         \A o \in Objects \ {Top(t).obj} : objects[o] = svc[o],
         Return(t, s), svc' = Given(t, s, objects), UNCHANGED walk,
         \/ /\ list' = list /\ Has(list, s)
            /\ Top(t).obj \in Objects => objects[Top(t).obj] = NoService
         \/ /\ list' = <<Top(t).obj>> \o list /\ s = Top(t).obj /\ objects = svc
            /\ Top(t).at = "insert" /\ Registered(Top(t).key) = {}
  PROVE  RegistryInv'
<1> DEFINE p == Top(t).obj
<1>1. /\ svc' \in [Objects -> Service] /\ found' \in [Threads -> SUBSET Objects]
      /\ stack' = [stack EXCEPT ![t] = Tail(stack[t])] /\ stack' \in [Threads -> Seq(Frame)]
      /\ p \in Objects => svc'[p] = objects[p]
      /\ \A o \in Objects \ {p} :
           /\ svc'[o].key = svc[o].key /\ svc'[o].state = svc[o].state
           /\ \/ svc'[o] = svc[o]
              \/ /\ Len(stack[t]) # 1 /\ o = stack[t][2].obj
                 /\ svc'[o].uses = Append(svc[o].uses, s)
      /\ \A u \in Threads : found'[u] \subseteq found[u] \cup {s}
  BY Returned
<1>2. /\ list \in Seq(Objects) /\ svc \in [Objects -> Service] /\ phase = "open" /\ phase' = "open"
      /\ todo = <<>> /\ todo' = <<>> /\ forks' \in 0 .. MaxForks /\ phase' \in Phases
      /\ todo' \in Seq(Objects)
  BY TopFacts DEF RegistryInv, TypeRegistry, walk, Phases
<1>3. \A o : Has(list, o) => /\ Has(list', o) /\ o \in Objects /\ o # p
                             /\ svc'[o] = svc[o]
  <2>1. ASSUME NEW o, Has(list, o) PROVE o \in Objects /\ o # p /\ svc'[o] = svc[o]
    <3>1. o \in Objects
      BY <2>1, Members DEF RegistryInv
    <3>2. o # p
      BY <2>1, <3>1, TopFacts, ServiceFacts DEF OwnObject, Owns
    <3>3. ~(Len(stack[t]) # 1 /\ o = stack[t][2].obj)
      BY <2>1, TopFacts DEF OwnObject, Owns
    <3> QED BY <1>1, <3>1, <3>2, <3>3
  <2>2. ASSUME NEW o, Has(list, o) PROVE Has(list', o)
    <3>1. CASE list' = list
      BY <2>2, <3>1
    <3>2. CASE list' = <<p>> \o list /\ s = p
      BY <2>2, <3>2, <1>2, PushHas
    <3> QED BY <3>1, <3>2
  <2> QED BY <2>1, <2>2
<1>4. list' \in Seq(Objects) /\ Has(list', s) /\ \A o : Has(list', o) => o = s \/ Has(list, o)
  <2>1. CASE list' = list /\ Has(list, s)
    BY <2>1, <1>2
  <2>2. CASE list' = <<p>> \o list /\ s = p
    BY <2>2, <1>2, PushHas, PushFacts
  <2> QED BY <2>1, <2>2
<1>5. TypeRegistry'
  BY <1>1, <1>2, <1>4 DEF TypeRegistry
<1>6. ASSUME NEW o \in Objects \ {p}
      PROVE  /\ svc'[o].key = svc[o].key /\ svc'[o].state = svc[o].state
             /\ Len(svc'[o].uses) >= Len(svc[o].uses)
             /\ InHand(o) /\ ~Has(list, o) => ~Has(list', o)
  <2>0. svc[o].uses \in Seq(Objects) /\ Len(svc[o].uses) \in Nat
    <3>1. svc[o] \in Service
      BY <1>2, <1>6
    <3>2. svc[o].uses \in Seq(Objects)
      BY <3>1, ServiceFacts
    <3> QED BY <3>2
  <2>1. Len(svc'[o].uses) >= Len(svc[o].uses)
    <3>1. Len(Append(svc[o].uses, s)) = Len(svc[o].uses) + 1
      BY <2>0, AppendProperties
    <3>2. svc'[o].uses = svc[o].uses \/ svc'[o].uses = Append(svc[o].uses, s)
      BY <1>1
    <3> QED BY <2>0, <3>1, <3>2
  <2>2. ~Has(list, o) => ~Has(list', o)
    <3>1. CASE list' = list
      BY <3>1
    <3>2. CASE list' = <<p>> \o list
      BY <3>2, <1>2, <1>4
    <3> QED BY <3>1, <3>2
  <2> QED BY <1>1, <2>1, <2>2
<1>7. /\ (Frames /\ Apart)'
      /\ \A o \in Objects : InHand(o) /\ o # p => InHand(o)'
  BY <1>1, <1>6, FramesLeft
<1>8. Placed'
  <2>1. ASSUME NEW o \in Objects, svc'[o] # NoService PROVE Has(list', o) \/ InHand(o)'
    <3>1. CASE o = p
      BY <1>1, <1>4, <2>1, <3>1
    <3>2. CASE o # p
      <4>1. svc[o] # NoService
        <5>1. CASE svc'[o] = svc[o]
          BY <2>1, <5>1
        <5>2. CASE Len(stack[t]) # 1 /\ o = stack[t][2].obj
          <6>1. svc[o].state = "constructing"
            BY <5>2, TopFacts DEF OwnObject, Owns
          <6> QED BY <6>1, ServiceFacts
        <5> QED BY <1>1, <3>2, <5>1, <5>2
      <4>2. Has(list, o) \/ InHand(o)
        BY <4>1 DEF RegistryInv, Placed
      <4> QED BY <4>2, <3>2, <1>3, <1>7
    <3> QED BY <3>1, <3>2
  <2>2. ASSUME NEW o \in Objects, NEW i \in 1 .. Len(svc'[o].uses) PROVE Has(list', svc'[o].uses[i])
    <3>1. CASE svc'[o] = svc[o]
      BY <2>2, <3>1, <1>3 DEF RegistryInv, Placed
    <3>2. CASE svc'[o] = NoService
      <4>1. Len(<<>>) = 0
        OBVIOUS
      <4> QED BY <2>2, <3>2, <4>1, ServiceFacts
    <3>3. CASE svc'[o].uses = Append(svc[o].uses, s)
      <4>1. svc[o] \in Service
        BY <1>2
      <4>2. svc[o].uses \in Seq(Objects)
        BY <4>1, ServiceFacts
      <4>3. \/ svc'[o].uses[i] = s
            \/ i \in 1 .. Len(svc[o].uses) /\ svc'[o].uses[i] = svc[o].uses[i]
        BY <2>2, <3>3, <4>2, AppendProperties
      <4> QED BY <4>3, <1>3, <1>4 DEF RegistryInv, Placed
    <3> QED BY <1>1, <3>1, <3>2, <3>3
  <2> QED BY <2>1, <2>2 DEF Placed
<1>9. Referenced'
  BY <1>1, <1>2, <1>3, <1>4 DEF Referenced, RegistryInv
<1>10. Walking'
  BY <1>2 DEF Walking
<1>11. Linked'
  <2>1. ASSUME NEW o \in Objects, Has(list', o)
        PROVE  Complete(svc'[o]) /\ svc'[o].state = "alive"
    <3>1. CASE Has(list, o)
      BY <1>2, <1>3, <3>1 DEF RegistryInv, Linked
    <3>2. CASE ~Has(list, o)
      <4>1. o = p /\ svc'[o] = svc[o] /\ Top(t).at = "insert"
        BY <1>1, <1>4, <2>1, <3>2
      <4>2. Complete(svc[p]) /\ svc[p].state = "alive"
        BY <4>1, TopFacts DEF OwnObject, Owns
      <4> QED BY <4>1, <4>2
    <3> QED BY <3>1, <3>2
  <2> QED BY <2>1 DEF Linked
<1>12. \A i \in 1 .. Len(list) : svc'[list[i]] = svc[list[i]] /\ list[i] \in Objects
  BY <1>3, Members DEF RegistryInv
<1>13. CASE list' = list
  <2>1. OnePerKey' /\ InFront'
    BY <1>12, <1>13, ListKept DEF RegistryInv
  <2> QED BY <2>1, <1>5, <1>7, <1>8, <1>9, <1>10, <1>11 DEF RegistryInv
<1>14. CASE list' = <<p>> \o list /\ s = p /\ objects = svc /\ Top(t).at = "insert"
             /\ Registered(Top(t).key) = {}
  <2>1. p \in Objects /\ svc'[p] = svc[p] /\ svc[p].key = Top(t).key
    BY <1>14, <1>1, TopFacts DEF OwnObject, Owns
  <2>2. /\ Len(list') = Len(list) + 1 /\ list'[1] = p /\ Len(list) \in Nat
        /\ \A i \in 2 .. Len(list') : list'[i] = list[i - 1] /\ i - 1 \in 1 .. Len(list)
        /\ \A i \in 1 .. Len(list) : list'[i + 1] = list[i]
    BY <1>14, <2>1, <1>2, PushFacts
  <2>3. \A i \in 1 .. Len(list) : svc[list[i]].key # Top(t).key
    BY <1>14, Members DEF RegistryInv
  <2>4. \A i \in 1 .. Len(list') : i = 1 \/ i \in 2 .. Len(list')
    BY <2>2
  <2>5. \A i \in 2 .. Len(list') : svc'[list'[i]] = svc[list[i - 1]]
    BY <2>2, <1>12
  <2>6. OnePerKey'
    <3>1. \A i, j \in 1 .. Len(list') : svc'[list'[i]].key = svc'[list'[j]].key => i = j
      <4> TAKE i, j \in 1 .. Len(list')
      <4> HAVE svc'[list'[i]].key = svc'[list'[j]].key
      <4>1. \A k \in 2 .. Len(list') : svc'[list'[k]].key # svc'[list'[1]].key
        <5> TAKE k \in 2 .. Len(list')
        <5>1. svc'[list'[k]] = svc[list[k - 1]] /\ k - 1 \in 1 .. Len(list)
          BY <2>2, <2>5
        <5>2. svc[list[k - 1]].key # Top(t).key /\ svc'[list'[1]].key = Top(t).key
          BY <2>1, <2>2, <2>3, <5>1
        <5> QED BY <5>1, <5>2
      <4>2. CASE i \in 2 .. Len(list') /\ j \in 2 .. Len(list')
        <5>1. svc[list[i - 1]].key = svc[list[j - 1]].key /\ i - 1 \in 1 .. Len(list)
              /\ j - 1 \in 1 .. Len(list)
          BY <2>2, <2>5, <4>2
        <5>2. i - 1 = j - 1
          BY <5>1 DEF RegistryInv, OnePerKey
        <5> QED BY <5>2
      <4> QED BY <2>4, <4>1, <4>2
    <3> QED BY <3>1 DEF OnePerKey
  <2>7. InFront'
    <3>1. \A i \in 1 .. Len(list') : \A n \in 1 .. Len(svc'[list'[i]].uses) :
             \E j \in i + 1 .. Len(list') : list'[j] = svc'[list'[i]].uses[n]
      <4> TAKE i \in 1 .. Len(list')
      <4> TAKE n \in 1 .. Len(svc'[list'[i]].uses)
      <4>1. CASE i = 1
        <5>1. svc'[list'[i]] = svc[p]
          BY <2>1, <2>2, <4>1
        <5>2. Has(list, svc[p].uses[n])
          BY <2>1, <5>1 DEF RegistryInv, Placed
        <5>3. PICK j \in 1 .. Len(list) : list[j] = svc[p].uses[n]
          BY <5>2 DEF Has
        <5>4. j + 1 \in i + 1 .. Len(list') /\ list'[j + 1] = list[j]
          BY <2>2, <4>1
        <5> QED BY <5>1, <5>3, <5>4
      <4>2. CASE i \in 2 .. Len(list')
        <5>1. svc'[list'[i]] = svc[list[i - 1]] /\ i - 1 \in 1 .. Len(list)
          BY <2>2, <2>5, <4>2
        <5>2. Behind(i - 1, svc[list[i - 1]].uses[n])
          BY <5>1 DEF RegistryInv, InFront
        <5>3. PICK j \in (i - 1) + 1 .. Len(list) : list[j] = svc[list[i - 1]].uses[n]
          BY <5>2 DEF Behind
        <5>4. j + 1 \in i + 1 .. Len(list') /\ list'[j + 1] = list[j]
          BY <2>2, <4>2, <5>1
        <5> QED BY <5>1, <5>3, <5>4
      <4> QED BY <2>4, <4>1, <4>2
    <3> QED BY <3>1 DEF InFront, Behind
  <2> QED BY <2>6, <2>7, <1>5, <1>7, <1>8, <1>9, <1>10, <1>11 DEF RegistryInv
<1> QED BY <1>13, <1>14

-----------------------------------------------------------------------------
(* Calls that go on.                                                       *)

\* The calls of t become q: p is the object that is made or changed, NoObject if none.
LEMMA CallKeeps ==
  ASSUME RegistryInv, phase = "open", NEW t \in Threads, NEW q \in Seq(Frame), NEW p,
         stack' = [stack EXCEPT ![t] = q], UNCHANGED <<list, found, walk>>,
         svc' \in [Objects -> Service], \A o \in Objects \ {p} : svc'[o] = svc[o],
         p \in Objects => /\ ~Has(list, p) /\ svc'[p].uses = svc[p].uses
                          /\ svc[p] = NoService \/ \E i \in 1 .. Len(stack[t]) : stack[t][i].obj = p
                          /\ \E j \in 1 .. Len(q) : q[j].obj = p,
         Shape(q), \A j \in 1 .. Len(q) : Owns(q[j], list, svc'),
         \A i, j \in 1 .. Len(q) : q[i].obj = q[j].obj /\ q[i].obj # NoObject => i = j,
         \A j \in 1 .. Len(q) : \/ q[j].obj = NoObject \/ q[j].obj = p
                                \/ \E i \in 1 .. Len(stack[t]) : q[j].obj = stack[t][i].obj,
         \A i \in 1 .. Len(stack[t]) : \/ stack[t][i].obj = NoObject
                                       \/ \E j \in 1 .. Len(q) : q[j].obj = stack[t][i].obj
  PROVE  RegistryInv'
<1>1. stack'[t] = q /\ \A u \in Threads \ {t} : stack'[u] = stack[u]
  BY DEF RegistryInv, TypeRegistry
<1>2. list' = list /\ found' = found /\ phase' = phase /\ todo' = todo /\ forks' = forks
  BY DEF walk
<1>3. TypeRegistry'
  <2>1. stack' \in [Threads -> Seq(Frame)]
    BY DEF RegistryInv, TypeRegistry
  <2> QED BY <1>2, <2>1 DEF RegistryInv, TypeRegistry
<1>4. ASSUME NEW u \in Threads \ {t}, NEW i \in 1 .. Len(stack[u]), stack[u][i].obj \in Objects
      PROVE  /\ stack[u][i].obj # p
             /\ \A j \in 1 .. Len(q) : q[j].obj # stack[u][i].obj
  <2>1. stack[u][i].obj # NoObject /\ svc[stack[u][i].obj] # NoService
    <3>1. stack[u][i].obj # NoObject /\ OwnObject(stack[u][i])
      BY <1>4, ServiceFacts DEF RegistryInv, Frames
    <3>2. svc[stack[u][i].obj].state # "none"
      BY <3>1 DEF OwnObject, Owns
    <3> QED BY <3>1, <3>2, ServiceFacts
  <2>2. \A j \in 1 .. Len(stack[t]) : stack[t][j].obj # stack[u][i].obj
    BY <1>4, <2>1 DEF RegistryInv, Apart
  <2>3. stack[u][i].obj # p
    BY <1>4, <2>1, <2>2
  <2> QED BY <2>1, <2>2, <2>3
<1>5. Frames'
  <2>1. ASSUME NEW u \in Threads, NEW i \in 1 .. Len(stack'[u]) PROVE OwnObject(stack[u][i])'
    <3>1. PICK f : f = stack'[u][i]
      OBVIOUS
    <3>2. CASE u = t
      BY <1>1, <1>2, <2>1, <3>1, <3>2 DEF OwnObject, Owns
    <3>3. CASE u # t
      <4>1. Owns(f, list, svc) /\ f = stack[u][i]
        BY <1>1, <2>1, <3>1, <3>3 DEF RegistryInv, Frames, OwnObject
      <4>2. f.obj \in Objects => svc'[f.obj] = svc[f.obj]
        BY <1>1, <1>4, <2>1, <3>3, <4>1
      <4>3. Owns(f, list', svc')
        BY <1>2, <4>1, <4>2 DEF Owns
      <4> QED BY <3>1, <4>3 DEF OwnObject
    <3> QED BY <3>2, <3>3
  <2>2. ASSUME NEW u \in Threads PROVE Shape(stack'[u])
    BY <1>1 DEF RegistryInv, Frames
  <2> QED BY <2>1, <2>2 DEF Frames
<1>6. Apart'
  <2>1. \A u, w \in Threads : \A i \in 1 .. Len(stack'[u]), j \in 1 .. Len(stack'[w]) :
           stack'[u][i].obj = stack'[w][j].obj /\ stack'[u][i].obj # NoObject => u = w /\ i = j
    <3> TAKE u, w \in Threads
    <3> TAKE i \in 1 .. Len(stack'[u]), j \in 1 .. Len(stack'[w])
    <3> HAVE stack'[u][i].obj = stack'[w][j].obj /\ stack'[u][i].obj # NoObject
    <3>0. stack'[u][i].obj \in Objects
      <4>1. stack'[u] \in Seq(Frame)
        BY <1>3 DEF TypeRegistry
      <4>2. stack'[u][i] \in Frame
        BY <4>1
      <4> QED BY <4>2 DEF Frame
    <3>1. CASE u = t /\ w = t
      BY <1>1, <3>1
    <3>2. CASE u = t /\ w # t
      BY <1>1, <1>4, <3>0, <3>2
    <3>3. CASE u # t /\ w = t
      BY <1>1, <1>4, <3>0, <3>3
    <3>4. CASE u # t /\ w # t
      BY <1>1, <3>4 DEF RegistryInv, Apart
    <3> QED BY <3>1, <3>2, <3>3, <3>4
  <2> QED BY <2>1 DEF Apart
<1>7. Placed'
  <2>1. ASSUME NEW o \in Objects, o # p, InHand(o) PROVE InHand(o)'
    <3>0. PICK u \in Threads : \E i \in 1 .. Len(stack[u]) : stack[u][i].obj = o
      BY <2>1 DEF InHand
    <3>1. CASE u # t
      BY <1>1, <3>0, <3>1 DEF InHand
    <3>2. CASE u = t
      <4>1. \E j \in 1 .. Len(q) : q[j].obj = o
        <5>1. PICK i \in 1 .. Len(stack[t]) : stack[t][i].obj = o
          BY <3>0, <3>2
        <5>2. stack[t][i].obj # NoObject
          BY <5>1, ServiceFacts
        <5> QED BY <5>1, <5>2
      <4> QED BY <1>1, <4>1 DEF InHand
    <3> QED BY <3>1, <3>2
  <2>2. ASSUME NEW o \in Objects, o = p PROVE InHand(o)'
    BY <1>1, <2>2 DEF InHand
  <2>3. ASSUME NEW o \in Objects PROVE svc'[o].uses = svc[o].uses
    OBVIOUS
  <2>4. ASSUME NEW o \in Objects, svc'[o] # NoService PROVE Has(list', o) \/ InHand(o)'
    BY <1>2, <2>1, <2>2, <2>4 DEF RegistryInv, Placed
  <2>5. \A o \in Objects : \A i \in 1 .. Len(svc'[o].uses) : Has(list', svc'[o].uses[i])
    BY <1>2, <2>3 DEF RegistryInv, Placed
  <2> QED BY <2>4, <2>5 DEF Placed
<1>8. \A o : Has(list, o) => o \in Objects /\ svc'[o] = svc[o]
  BY Members DEF RegistryInv
<1>9. Linked'
  BY <1>2, <1>8 DEF RegistryInv, Linked
<1>10. OnePerKey' /\ InFront'
  <2>1. \A i \in 1 .. Len(list) : svc'[list[i]] = svc[list[i]]
    BY <1>8, Members DEF RegistryInv
  <2> QED BY <1>2, <2>1, ListKept DEF RegistryInv
<1>11. Referenced' /\ Walking'
  BY <1>2 DEF RegistryInv, Referenced, Walking
<1> QED BY <1>3, <1>5, <1>6, <1>7, <1>9, <1>10, <1>11 DEF RegistryInv

Asking(k) == [call |-> "use", key |-> k, obj |-> NoObject, at |-> "find"]

\* Two assignments to one member of a function.
LEMMA SetTwice ==
  ASSUME NEW f, f = [y \in DOMAIN f |-> f[y]], NEW x \in DOMAIN f, NEW a
  PROVE  /\ [f EXCEPT ![x] = a][x] = a
         /\ \A b : [[f EXCEPT ![x] = a] EXCEPT ![x] = b] = [f EXCEPT ![x] = b]
OBVIOUS

LEMMA FrameFacts ==
  /\ \A k \in Keys : /\ Asking(k) \in Frame /\ Asking(k).obj = NoObject /\ Asking(k).at = "find"
                     /\ Asking(k).call = "use"
  /\ \A f \in Frame : /\ f.call \in {"use", "make"} /\ f.key \in Keys
                      /\ f.obj \in Objects \cup {NoObject} /\ f.at \in {"find", "construct", "insert"}
BY DEF Asking, Frame

\* A call is put on top of the others, or replaces the one on top.
LEMMA TopSet ==
  ASSUME NEW q \in Seq(Frame), q # <<>>, NEW f \in Frame
  PROVE  /\ [q EXCEPT ![1] = f] \in Seq(Frame) /\ Len([q EXCEPT ![1] = f]) = Len(q)
         /\ [q EXCEPT ![1] = f][1] = f /\ 1 \in 1 .. Len(q) /\ q[1] = Head(q)
         /\ \A i \in 1 .. Len(q) : i # 1 => [q EXCEPT ![1] = f][i] = q[i]
OBVIOUS

\* A constructor, or the program, asks for a service.
LEMMA AskKeeps ==
  ASSUME RegistryInv, phase = "open", NEW t \in Threads, NEW k \in Keys,
         stack[t] # <<>> => Top(t).at = "construct",
         stack' = [stack EXCEPT ![t] = <<Asking(k)>> \o @], UNCHANGED <<list, svc, found, walk>>
  PROVE  RegistryInv'
<1> DEFINE q == <<Asking(k)>> \o stack[t]
<1>1. /\ stack[t] \in Seq(Frame) /\ q \in Seq(Frame) /\ Len(q) = Len(stack[t]) + 1 /\ q[1] = Asking(k)
      /\ \A i \in 2 .. Len(q) : q[i] = stack[t][i - 1] /\ i - 1 \in 1 .. Len(stack[t])
      /\ \A i \in 1 .. Len(stack[t]) : q[i + 1] = stack[t][i] /\ i + 1 \in 1 .. Len(q)
      /\ Len(stack[t]) \in Nat /\ \A i \in 1 .. Len(q) : i = 1 \/ i \in 2 .. Len(q)
  <2>1. stack[t] \in Seq(Frame) /\ Len(stack[t]) \in Nat
    BY DEF RegistryInv, TypeRegistry
  <2>2. Asking(k) \in Frame
    BY FrameFacts
  <2>3. /\ q \in Seq(Frame) /\ Len(q) = Len(stack[t]) + 1 /\ q[1] = Asking(k)
        /\ \A i \in 2 .. Len(q) : q[i] = stack[t][i - 1] /\ i - 1 \in 1 .. Len(stack[t])
        /\ \A i \in 1 .. Len(stack[t]) : q[i + 1] = stack[t][i]
    BY <2>1, <2>2, PushFacts
  <2> HIDE DEF q
  <2>4. /\ \A i \in 1 .. Len(stack[t]) : i + 1 \in 1 .. Len(q)
        /\ \A i \in 1 .. Len(q) : i = 1 \/ i \in 2 .. Len(q)
    BY <2>1, <2>3
  <2> QED BY <2>1, <2>3, <2>4
<1>2. stack' = [stack EXCEPT ![t] = q]
  OBVIOUS
<1> HIDE DEF q
<1>3. Shape(stack[t]) /\ \A i \in 1 .. Len(stack[t]) : OwnObject(stack[t][i])
  BY DEF RegistryInv, Frames
<1>4. Shape(q)
  <2>1. ASSUME NEW i \in 1 .. Len(q), i > 1 PROVE q[i].at = "construct"
    <3>1. q[i] = stack[t][i - 1] /\ i - 1 \in 1 .. Len(stack[t])
      BY <1>1, <2>1
    <3>2. CASE i - 1 = 1
      <4>1. stack[t] # <<>>
        BY <1>1, <3>1
      <4> QED BY <3>1, <3>2, <4>1, TopFacts
    <3>3. CASE i - 1 # 1
      BY <1>3, <3>1, <3>3 DEF Shape
    <3> QED BY <3>2, <3>3
  <2>2. ASSUME NEW i \in 1 .. Len(q), i < Len(q) PROVE q[i].call = "use"
    <3>1. CASE i = 1
      BY <1>1, <3>1, FrameFacts
    <3>2. CASE i # 1
      <4>1. i \in 2 .. Len(q)
        BY <1>1, <3>2
      <4>2. q[i] = stack[t][i - 1] /\ i - 1 \in 1 .. Len(stack[t]) /\ i - 1 < Len(stack[t])
        BY <1>1, <2>2, <4>1
      <4> QED BY <1>3, <4>2 DEF Shape
    <3> QED BY <3>1, <3>2
  <2> QED BY <2>1, <2>2 DEF Shape
<1>5. ASSUME NEW j \in 1 .. Len(q)
      PROVE  /\ Owns(q[j], list, svc')
             /\ q[j].obj = NoObject \/ \E i \in 1 .. Len(stack[t]) : q[j].obj = stack[t][i].obj
  <2>1. CASE j = 1
    BY <1>1, <2>1, FrameFacts DEF Owns
  <2>2. CASE j \in 2 .. Len(q)
    BY <1>1, <1>3, <2>2 DEF OwnObject
  <2> QED BY <1>1, <2>1, <2>2
<1>6. \A i, j \in 1 .. Len(q) : q[i].obj = q[j].obj /\ q[i].obj # NoObject => i = j
  <2> TAKE i, j \in 1 .. Len(q)
  <2> HAVE q[i].obj = q[j].obj /\ q[i].obj # NoObject
  <2>1. i \in 2 .. Len(q) /\ j \in 2 .. Len(q)
    BY <1>1, FrameFacts
  <2>2. PICK m \in 1 .. Len(stack[t]) : m = i - 1 /\ q[i] = stack[t][m]
    BY <1>1, <2>1
  <2>3. PICK n \in 1 .. Len(stack[t]) : n = j - 1 /\ q[j] = stack[t][n]
    BY <1>1, <2>1
  <2>4. Apart
    BY DEF RegistryInv
  <2>5. m = n
    BY <2>2, <2>3, <2>4 DEF Apart
  <2> QED BY <2>1, <2>2, <2>3, <2>5
<1>7. \A i \in 1 .. Len(stack[t]) : \E j \in 1 .. Len(q) : q[j].obj = stack[t][i].obj
  BY <1>1
<1>8. svc' \in [Objects -> Service] /\ NoObject \notin Objects
  BY ServiceFacts DEF RegistryInv, TypeRegistry
<1>9. PICK p : p = NoObject
  OBVIOUS
<1> QED BY <1>1, <1>2, <1>4, <1>5, <1>6, <1>7, <1>8, <1>9, CallKeeps

\* The call that runs gets an object, or has constructed it.
LEMMA TopKeeps ==
  ASSUME RegistryInv, NEW t \in Threads, stack[t] # <<>>, NEW f \in Frame, NEW x \in Service,
         f.call = Top(t).call, f.obj \in Objects, ~Has(list, f.obj),
         \/ svc[f.obj] = NoService /\ Top(t).obj = NoObject
         \/ Top(t).obj = f.obj,
         x.uses = svc[f.obj].uses, Owns(f, list, [svc EXCEPT ![f.obj] = x]),
         stack' = [stack EXCEPT ![t] = [@ EXCEPT ![1] = f]], svc' = [svc EXCEPT ![f.obj] = x],
         UNCHANGED <<list, found, walk>>
  PROVE  RegistryInv'
<1> DEFINE q == [stack[t] EXCEPT ![1] = f]
<1>1. /\ stack[t] \in Seq(Frame) /\ q \in Seq(Frame) /\ Len(q) = Len(stack[t]) /\ q[1] = f
      /\ 1 \in 1 .. Len(stack[t]) /\ stack[t][1] = Top(t)
      /\ \A i \in 1 .. Len(stack[t]) : i # 1 => q[i] = stack[t][i]
  <2>1. stack[t] \in Seq(Frame)
    BY DEF RegistryInv, TypeRegistry
  <2> QED BY <2>1, TopSet DEF Top
<1>2. stack' = [stack EXCEPT ![t] = q]
  OBVIOUS
<1> HIDE DEF q
<1>3. Shape(stack[t]) /\ \A i \in 1 .. Len(stack[t]) : OwnObject(stack[t][i])
  BY DEF RegistryInv, Frames
<1>4. Shape(q)
  <2>1. ASSUME NEW i \in 1 .. Len(q), i > 1 PROVE q[i].at = "construct"
    <3>1. i # 1
      BY <2>1
    <3> QED BY <1>1, <1>3, <2>1, <3>1 DEF Shape
  <2>2. ASSUME NEW i \in 1 .. Len(q), i < Len(q) PROVE q[i].call = "use"
    BY <1>1, <1>3, <2>2 DEF Shape
  <2> QED BY <2>1, <2>2 DEF Shape
<1>5. ASSUME NEW i \in 1 .. Len(stack[t]), i # 1
      PROVE  stack[t][i].obj # f.obj /\ Owns(q[i], list, svc')
  <2>1. stack[t][i].obj # f.obj
    <3>1. CASE svc[f.obj] = NoService
      BY <1>3, <3>1, ServiceFacts DEF OwnObject, Owns
    <3>2. CASE Top(t).obj = f.obj
      <4>1. f.obj # NoObject
        BY ServiceFacts
      <4>2. \A j \in 1 .. Len(stack[t]) : stack[t][j].obj = stack[t][i].obj /\ stack[t][j].obj # NoObject => j = i
        BY DEF RegistryInv, Apart
      <4> QED BY <1>1, <1>5, <3>2, <4>1, <4>2
    <3> QED BY <3>1, <3>2
  <2>2. Owns(stack[t][i], list, svc)
    BY <1>3 DEF OwnObject
  <2>3. stack[t][i].obj \in Objects => svc'[stack[t][i].obj] = svc[stack[t][i].obj]
    BY <2>1 DEF RegistryInv, TypeRegistry
  <2>4. Owns(stack[t][i], list, svc')
    BY <2>2, <2>3 DEF Owns
  <2> QED BY <1>1, <1>5, <2>1, <2>4
<1>6. \A j \in 1 .. Len(q) : Owns(q[j], list, svc')
  BY <1>1, <1>5
<1>7. \A i, j \in 1 .. Len(q) : q[i].obj = q[j].obj /\ q[i].obj # NoObject => i = j
  <2> TAKE i, j \in 1 .. Len(q)
  <2> HAVE q[i].obj = q[j].obj /\ q[i].obj # NoObject
  <2>1. CASE i = 1 \/ j = 1
    BY <1>1, <1>5, <2>1
  <2>2. CASE i # 1 /\ j # 1
    <3>1. /\ q[i] = stack[t][i] /\ q[j] = stack[t][j]
          /\ i \in 1 .. Len(stack[t]) /\ j \in 1 .. Len(stack[t])
      BY <1>1, <2>2
    <3> QED BY <3>1 DEF RegistryInv, Apart
  <2> QED BY <2>1, <2>2
<1>8. \A j \in 1 .. Len(q) : q[j].obj = f.obj \/ \E i \in 1 .. Len(stack[t]) : q[j].obj = stack[t][i].obj
  BY <1>1
<1>9. ASSUME NEW i \in 1 .. Len(stack[t])
      PROVE  stack[t][i].obj = NoObject \/ \E j \in 1 .. Len(q) : q[j].obj = stack[t][i].obj
  BY <1>1
<1>10. svc' \in [Objects -> Service] /\ \A o \in Objects \ {f.obj} : svc'[o] = svc[o]
  BY DEF RegistryInv, TypeRegistry
<1>11. /\ ~Has(list, f.obj) /\ svc'[f.obj].uses = svc[f.obj].uses
       /\ svc[f.obj] = NoService \/ \E i \in 1 .. Len(stack[t]) : stack[t][i].obj = f.obj
       /\ \E j \in 1 .. Len(q) : q[j].obj = f.obj
  BY <1>1 DEF RegistryInv, TypeRegistry
<1>12. phase = "open"
  BY TopFacts
<1>13. PICK p : p = f.obj
  OBVIOUS
<1>14. /\ \A o \in Objects \ {p} : svc'[o] = svc[o]
       /\ p \in Objects => /\ ~Has(list, p) /\ svc'[p].uses = svc[p].uses
                           /\ svc[p] = NoService \/ \E i \in 1 .. Len(stack[t]) : stack[t][i].obj = p
                           /\ \E j \in 1 .. Len(q) : q[j].obj = p
  BY <1>10, <1>11, <1>13
<1>15. \A j \in 1 .. Len(q) : \/ q[j].obj = NoObject \/ q[j].obj = p
                              \/ \E i \in 1 .. Len(stack[t]) : q[j].obj = stack[t][i].obj
  BY <1>8, <1>13
<1>16. \A i \in 1 .. Len(stack[t]) : \/ stack[t][i].obj = NoObject
                                     \/ \E j \in 1 .. Len(q) : q[j].obj = stack[t][i].obj
  BY <1>9
<1> QED BY <1>1, <1>2, <1>4, <1>6, <1>7, <1>10, <1>12, <1>14, <1>15, <1>16, CallKeeps

\* A thread is given up with all the objects its calls were constructing.
LEMMA DropKeeps ==
  ASSUME RegistryInv, NEW t \in Threads, stack[t] # <<>>,
         stack' = [stack EXCEPT ![t] = <<>>],
         svc' = [s \in Objects |-> IF \E i \in 1 .. Len(stack[t]) : stack[t][i].obj = s
                                   THEN NoService ELSE svc[s]],
         UNCHANGED <<list, found, walk>>
  PROVE  RegistryInv'
<1>1. stack'[t] = <<>> /\ \A u \in Threads \ {t} : stack'[u] = stack[u]
  BY DEF RegistryInv, TypeRegistry
<1>2. list' = list /\ found' = found /\ phase' = phase /\ todo' = todo /\ forks' = forks
  BY DEF walk
<1>3. \A o : Has(list, o) => o \in Objects /\ svc'[o] = svc[o]
  <2> SUFFICES ASSUME NEW o, Has(list, o) PROVE o \in Objects /\ svc'[o] = svc[o]
    OBVIOUS
  <2>1. o \in Objects /\ o # NoObject
    BY Members, ServiceFacts DEF RegistryInv
  <2>2. \A i \in 1 .. Len(stack[t]) : stack[t][i].obj # o
    BY <2>1 DEF RegistryInv, Frames, OwnObject, Owns
  <2> QED BY <2>1, <2>2
<1>4. TypeRegistry'
  <2>1. stack' \in [Threads -> Seq(Frame)] /\ svc' \in [Objects -> Service]
    BY ServiceFacts DEF RegistryInv, TypeRegistry
  <2> QED BY <1>2, <2>1 DEF RegistryInv, TypeRegistry
<1>5. \A o \in Objects : svc'[o] = svc[o] \/ (svc'[o] = NoService /\ NoService.uses = <<>>)
  BY ServiceFacts
<1>6. ASSUME NEW u \in Threads \ {t}, NEW i \in 1 .. Len(stack[u]), stack[u][i].obj \in Objects
      PROVE  svc'[stack[u][i].obj] = svc[stack[u][i].obj]
  <2>1. stack[u][i].obj # NoObject
    BY <1>6, ServiceFacts
  <2>2. \A j \in 1 .. Len(stack[t]) : stack[t][j].obj # stack[u][i].obj
    BY <2>1, <1>6 DEF RegistryInv, Apart
  <2> QED BY <1>6, <2>2
<1>7. Frames'
  <2>0. Len(<<>>) = 0
    OBVIOUS
  <2>1. ASSUME NEW u \in Threads, NEW i \in 1 .. Len(stack'[u]) PROVE OwnObject(stack[u][i])'
    <3>1. u # t
      BY <1>1, <2>0, <2>1
    <3>2. PICK f : f = stack'[u][i]
      OBVIOUS
    <3>3. Owns(f, list, svc) /\ f = stack[u][i]
      BY <1>1, <2>1, <3>1, <3>2 DEF RegistryInv, Frames, OwnObject
    <3>4. f.obj \in Objects => svc'[f.obj] = svc[f.obj]
      BY <1>1, <1>6, <2>1, <3>1, <3>3
    <3>5. Owns(f, list', svc')
      BY <1>2, <3>3, <3>4 DEF Owns
    <3> QED BY <3>2, <3>5 DEF OwnObject
  <2>2. ASSUME NEW u \in Threads PROVE Shape(stack'[u])
    <3>1. CASE u = t
      BY <1>1, <2>0, <3>1 DEF Shape
    <3>2. CASE u # t
      BY <1>1, <3>2 DEF RegistryInv, Frames
    <3> QED BY <3>1, <3>2
  <2> QED BY <2>1, <2>2 DEF Frames
<1>8. Apart'
  <2>1. \A u, w \in Threads : \A i \in 1 .. Len(stack'[u]), j \in 1 .. Len(stack'[w]) :
           stack'[u][i].obj = stack'[w][j].obj /\ stack'[u][i].obj # NoObject => u = w /\ i = j
    <3> TAKE u, w \in Threads
    <3> TAKE i \in 1 .. Len(stack'[u]), j \in 1 .. Len(stack'[w])
    <3> HAVE stack'[u][i].obj = stack'[w][j].obj /\ stack'[u][i].obj # NoObject
    <3>1. u # t /\ w # t
      BY <1>1
    <3> QED BY <1>1, <3>1 DEF RegistryInv, Apart
  <2> QED BY <2>1 DEF Apart
<1>9. Placed'
  <2>1. ASSUME NEW o \in Objects, svc'[o] # NoService PROVE Has(list', o) \/ InHand(o)'
    <3>1. \A i \in 1 .. Len(stack[t]) : stack[t][i].obj # o
      BY <2>1
    <3>2. svc[o] # NoService
      BY <2>1, <3>1
    <3>3. CASE Has(list, o)
      BY <1>2, <3>3
    <3>4. CASE InHand(o)
      <4>1. PICK u \in Threads : \E i \in 1 .. Len(stack[u]) : stack[u][i].obj = o
        BY <3>4 DEF InHand
      <4>2. u # t
        BY <3>1, <4>1
      <4> QED BY <1>1, <4>1, <4>2 DEF InHand
    <3> QED BY <3>2, <3>3, <3>4 DEF RegistryInv, Placed
  <2>2. ASSUME NEW o \in Objects, NEW i \in 1 .. Len(svc'[o].uses) PROVE Has(list', svc'[o].uses[i])
    <3>1. svc'[o] = svc[o]
      <4>1. Len(<<>>) = 0
        OBVIOUS
      <4> QED BY <1>5, <2>2, <4>1
    <3> QED BY <1>2, <2>2, <3>1 DEF RegistryInv, Placed
  <2> QED BY <2>1, <2>2 DEF Placed
<1>10. Linked'
  BY <1>2, <1>3 DEF RegistryInv, Linked
<1>11. OnePerKey' /\ InFront'
  <2>1. \A i \in 1 .. Len(list) : svc'[list[i]] = svc[list[i]]
    BY <1>3, Members DEF RegistryInv
  <2> QED BY <1>2, <2>1, ListKept DEF RegistryInv
<1>12. Referenced' /\ Walking'
  <2>1. phase = "open" /\ todo = <<>>
    BY TopFacts
  <2> QED BY <1>2, <2>1 DEF RegistryInv, Referenced, Walking
<1> QED BY <1>4, <1>7, <1>8, <1>9, <1>10, <1>11, <1>12 DEF RegistryInv

-----------------------------------------------------------------------------
(* The registry's steps.                                                   *)

LEMMA UseServiceKeeps ==
  ASSUME RegistryInv, NEW t \in Threads, NEW k \in Keys, UseService(t, k)
  PROVE  RegistryInv'
<1>1. stack[t] = <<>> /\ phase = "open"
  BY DEF UseService, Asks, Open
<1>2. stack' = [stack EXCEPT ![t] = <<Asking(k)>> \o @]
  <2>1. <<Asking(k)>> \o <<>> = <<Asking(k)>>
    OBVIOUS
  <2> QED BY <1>1, <2>1 DEF UseService, Asking
<1>3. UNCHANGED <<list, svc, found, walk>>
  BY DEF UseService
<1> QED BY <1>1, <1>2, <1>3, AskKeeps

LEMMA ConstructorUsesKeeps ==
  ASSUME RegistryInv, NEW t \in Threads, ConstructorUses(t)
  PROVE  RegistryInv'
<1>1. stack[t] # <<>> /\ Top(t).at = "construct" /\ Missing(Top(t).obj)
  BY DEF ConstructorUses, At
<1> DEFINE s == Top(t).obj
           k == Needs[svc[s].key][Len(svc[s].uses) + 1]
<1>2. phase = "open" /\ s \in Objects /\ svc[s].key \in Keys
  BY <1>1, TopFacts, FrameFacts DEF OwnObject, Owns
<1>3. k \in Keys
  <2>1. svc[s] \in Service
    BY <1>2 DEF RegistryInv, TypeRegistry
  <2>2. Needs[svc[s].key] \in Seq(Keys) /\ svc[s].uses \in Seq(Objects)
    BY <1>2, <2>1, ServiceFacts, RegistryAssumption
  <2>3. Len(svc[s].uses) + 1 \in 1 .. Len(Needs[svc[s].key])
    <3>1. \A n, m \in Nat : n < m => n + 1 \in 1 .. m
      OBVIOUS
    <3> QED BY <1>1, <2>2, <3>1, LenProperties DEF Missing
  <2> QED BY <2>2, <2>3, ElementOfSeq
<1>4. stack' = [stack EXCEPT ![t] = <<Asking(k)>> \o @]
  BY DEF ConstructorUses, Asking
<1>5. UNCHANGED <<list, svc, found, walk>>
  BY DEF ConstructorUses
<1> QED BY <1>1, <1>2, <1>3, <1>4, <1>5, AskKeeps

LEMMA FindKeeps ==
  ASSUME RegistryInv, NEW t \in Threads, Find(t)
  PROVE  RegistryInv'
<1>1. stack[t] # <<>> /\ Top(t).at = "find" /\ UNCHANGED <<list, walk>>
  BY DEF Find, At
<1>2. Top(t) \in Frame /\ Top(t).obj = NoObject /\ Top(t).key \in Keys /\ Top(t).call = "use"
  BY <1>1, TopFacts, FrameFacts DEF OwnObject, Owns
<1>3. ASSUME NEW s \in Registered(Top(t).key), Return(t, s), svc' = Given(t, s, svc)
      PROVE  RegistryInv'
  <2>1. s \in Objects /\ Has(list, s)
    BY Members DEF RegistryInv
  <2>2. svc \in [Objects -> Service] /\ NoObject \notin Objects
    BY ServiceFacts DEF RegistryInv, TypeRegistry
  <2> QED BY <1>1, <1>2, <1>3, <2>1, <2>2, ReturnKeeps
<1>4. ASSUME NEW s \in Objects, FreeAddress(s), svc' = [svc EXCEPT ![s] = New(Top(t).key)],
             stack' = [stack EXCEPT ![t][1].obj = s, ![t][1].at = "construct"], UNCHANGED found
      PROVE  RegistryInv'
  <2> DEFINE f == [Top(t) EXCEPT !.obj = s, !.at = "construct"]
  <2>1. /\ f \in Frame /\ f.obj = s /\ f.at = "construct" /\ f.call = Top(t).call
        /\ f.key = Top(t).key
    BY <1>2 DEF Frame
  <2>2. svc[s] = NoService /\ New(Top(t).key) \in Service /\ New(Top(t).key).uses = svc[s].uses
     /\ New(Top(t).key).key = Top(t).key /\ New(Top(t).key).state = "constructing"
    BY <1>2, <1>4, ServiceFacts DEF FreeAddress
  <2>3. ~Has(list, s)
    <3>1. svc[s].key = "none" /\ svc[s].uses = <<>>
      BY <2>2, ServiceFacts
    <3>2. Has(list, s) => svc[s].state # "none" \/ phase \in {"shutdown", "destroy"}
      BY <1>4 DEF RegistryInv, Linked
    <3>3. phase = "open" /\ svc[s].state = "none"
      BY <1>1, <2>2, TopFacts, ServiceFacts
    <3> QED BY <3>2, <3>3
  <2>4. stack' = [stack EXCEPT ![t] = [@ EXCEPT ![1] = f]]
    <3> DEFINE g == [stack[t][1] EXCEPT !.obj = s]
               a == [stack[t] EXCEPT ![1] = g]
               b == [stack EXCEPT ![t] = a]
    <3>1. f = [g EXCEPT !.at = "construct"]
      BY <1>1, TopFacts
    <3>2. stack' = [b EXCEPT ![t] = [b[t] EXCEPT ![1] = [b[t][1] EXCEPT !.at = "construct"]]]
      BY <1>4
    <3>3. /\ b[t] = a /\ a[1] = g
          /\ \A h : [b EXCEPT ![t] = h] = [stack EXCEPT ![t] = h]
          /\ \A h : [a EXCEPT ![1] = h] = [stack[t] EXCEPT ![1] = h]
      <4>1. stack = [u \in DOMAIN stack |-> stack[u]] /\ t \in DOMAIN stack
        BY DEF RegistryInv, TypeRegistry
      <4>2. stack[t] = [i \in DOMAIN stack[t] |-> stack[t][i]] /\ 1 \in DOMAIN stack[t]
        BY <1>1, TopFacts
      <4> QED BY <4>1, <4>2, SetTwice
    <3> HIDE DEF f, g, a, b
    <3>4. stack' = [stack EXCEPT ![t] = [a EXCEPT ![1] = f]]
      BY <3>1, <3>2, <3>3
    <3> QED BY <3>3, <3>4
  <2>5. Owns(f, list, [svc EXCEPT ![f.obj] = New(Top(t).key)])
    BY <2>1, <2>2, <2>3 DEF Owns, RegistryInv, TypeRegistry
  <2> HIDE DEF f
  <2>6. f.obj \in Objects /\ ~Has(list, f.obj) /\ svc[f.obj] = NoService
     /\ New(Top(t).key).uses = svc[f.obj].uses
     /\ svc' = [svc EXCEPT ![f.obj] = New(Top(t).key)]
    BY <1>4, <2>1, <2>2, <2>3
  <2> QED BY <1>1, <1>2, <1>4, <2>1, <2>2, <2>4, <2>5, <2>6, TopKeeps
<1> QED BY <1>1, <1>3, <1>4 DEF Find

\* An address that is free is no service's.
LEMMA FreeFacts ==
  ASSUME RegistryInv, phase = "open", NEW s \in Objects, FreeAddress(s), NEW k \in Keys
  PROVE  /\ svc[s] = NoService /\ ~Has(list, s)
         /\ New(k) \in Service /\ New(k).uses = svc[s].uses
         /\ New(k).key = k /\ New(k).state = "constructing"
<1>1. svc[s] = NoService /\ svc[s].state = "none"
  BY ServiceFacts DEF FreeAddress
<1>2. ~Has(list, s)
  BY <1>1 DEF RegistryInv, Linked
<1> QED BY <1>1, <1>2, ServiceFacts

LEMMA MakeServiceKeeps ==
  ASSUME RegistryInv, NEW t \in Threads, NEW k \in Keys, MakeService(t, k)
  PROVE  RegistryInv'
<1>1. stack[t] = <<>> /\ phase = "open" /\ UNCHANGED <<list, found, walk>>
  BY DEF MakeService, Asks, Open
<1>2. PICK s \in Objects :
        /\ FreeAddress(s) /\ svc' = [svc EXCEPT ![s] = New(k)]
        /\ stack' = [stack EXCEPT ![t] = <<[call |-> "make", key |-> k, obj |-> s, at |-> "construct"]>>]
  BY DEF MakeService
<1>3. PICK f : f = [call |-> "make", key |-> k, obj |-> s, at |-> "construct"]
  OBVIOUS
<1>4. f \in Frame /\ f.obj = s /\ f.at = "construct" /\ f.key = k
  BY <1>3 DEF Frame
<1>5. /\ <<f>> \in Seq(Frame) /\ Len(<<f>>) = 1 /\ <<f>>[1] = f
      /\ stack' = [stack EXCEPT ![t] = <<f>>] /\ Len(stack[t]) = 0
  BY <1>1, <1>2, <1>3, <1>4
<1>6. /\ svc[s] = NoService /\ ~Has(list, s) /\ New(k) \in Service /\ New(k).uses = svc[s].uses
      /\ New(k).key = k /\ New(k).state = "constructing"
  BY <1>1, <1>2, FreeFacts
<1> DEFINE q == <<f>>
<1> HIDE DEF q
<1>7. q \in Seq(Frame) /\ Len(q) = 1 /\ q[1] = f /\ stack' = [stack EXCEPT ![t] = q]
  BY <1>5 DEF q
<1>8. /\ svc' \in [Objects -> Service] /\ svc'[s] = New(k) /\ \A o \in Objects \ {s} : svc'[o] = svc[o]
  BY <1>2, <1>6 DEF RegistryInv, TypeRegistry
<1>9. \A i \in 1 .. Len(q) : i = 1 /\ q[i] = f
  BY <1>7
<1>10. Shape(q) /\ \A j \in 1 .. Len(q) : Owns(q[j], list, svc')
  <2>1. Shape(q)
    BY <1>7, <1>9 DEF Shape
  <2>2. Owns(f, list, svc')
    BY <1>4, <1>6, <1>8 DEF Owns
  <2> QED BY <1>9, <2>1, <2>2
<1>11. s \in Objects => /\ ~Has(list, s) /\ svc'[s].uses = svc[s].uses
                        /\ svc[s] = NoService \/ \E i \in 1 .. Len(stack[t]) : stack[t][i].obj = s
                        /\ \E j \in 1 .. Len(q) : q[j].obj = s
  BY <1>4, <1>6, <1>7, <1>8
<1>12. \A i, j \in 1 .. Len(q) : q[i].obj = q[j].obj /\ q[i].obj # NoObject => i = j
  BY <1>9
<1>13. \A j \in 1 .. Len(q) : \/ q[j].obj = NoObject \/ q[j].obj = s
                              \/ \E i \in 1 .. Len(stack[t]) : q[j].obj = stack[t][i].obj
  BY <1>4, <1>9
<1>14. \A i \in 1 .. Len(stack[t]) : \/ stack[t][i].obj = NoObject
                                     \/ \E j \in 1 .. Len(q) : q[j].obj = stack[t][i].obj
  BY <1>5
<1> QED BY <1>1, <1>7, <1>8, <1>10, <1>11, <1>12, <1>13, <1>14, CallKeeps

LEMMA ConstructorEndsKeeps ==
  ASSUME RegistryInv, NEW t \in Threads, ConstructorEnds(t)
  PROVE  RegistryInv'
<1>1. /\ stack[t] # <<>> /\ Top(t).at = "construct" /\ ~Missing(Top(t).obj)
      /\ svc' = [svc EXCEPT ![Top(t).obj].state = "alive"]
      /\ stack' = [stack EXCEPT ![t][1].at = "insert"] /\ UNCHANGED <<list, found, walk>>
  BY DEF ConstructorEnds, At
<1>2. PICK s : s = Top(t).obj
  OBVIOUS
<1>3. /\ s \in Objects /\ ~Has(list, s) /\ svc[s].key = Top(t).key /\ Top(t) \in Frame
      /\ Top(t) = stack[t][1] /\ Top(t).key \in Keys /\ svc[s] \in Service
  BY <1>1, <1>2, TopFacts, FrameFacts DEF OwnObject, Owns, RegistryInv, TypeRegistry
<1>4. PICK x : x = [svc[s] EXCEPT !.state = "alive"]
  OBVIOUS
<1>5. x \in Service /\ x.uses = svc[s].uses /\ x.key = svc[s].key /\ x.state = "alive"
  BY <1>3, <1>4 DEF Service
<1>6. PICK f : f = [Top(t) EXCEPT !.at = "insert"]
  OBVIOUS
<1>7. /\ f \in Frame /\ f.obj = s /\ f.at = "insert" /\ f.key = Top(t).key /\ f.call = Top(t).call
  BY <1>2, <1>3, <1>6 DEF Frame
<1>8. stack' = [stack EXCEPT ![t] = [@ EXCEPT ![1] = f]] /\ svc' = [svc EXCEPT ![f.obj] = x]
  BY <1>1, <1>2, <1>3, <1>4, <1>6, <1>7
<1>9. Owns(f, list, [svc EXCEPT ![f.obj] = x])
  <2>1. Complete(x)
    BY <1>1, <1>2, <1>3, <1>5 DEF Complete, Missing
  <2> QED BY <1>3, <1>5, <1>7, <2>1 DEF Owns, RegistryInv, TypeRegistry
<1>10. f.obj \in Objects /\ ~Has(list, f.obj) /\ Top(t).obj = f.obj /\ x.uses = svc[f.obj].uses
  BY <1>2, <1>3, <1>5, <1>7
<1>11. UNCHANGED <<list, found, walk>> /\ stack[t] # <<>>
  BY <1>1
<1> QED BY <1>5, <1>7, <1>8, <1>9, <1>10, <1>11, TopKeeps

LEMMA ConstructorThrowsKeeps ==
  ASSUME RegistryInv, NEW t \in Threads, ConstructorThrows(t)
  PROVE  RegistryInv'
<1>1. stack[t] # <<>>
  BY DEF ConstructorThrows, At
<1>2. svc' = [s \in Objects |-> IF \E i \in 1 .. Len(stack[t]) : stack[t][i].obj = s
                                THEN NoService ELSE svc[s]]
  <2>1. \A s : s \in {stack[t][i].obj : i \in 1 .. Len(stack[t])}
                 <=> \E i \in 1 .. Len(stack[t]) : stack[t][i].obj = s
    OBVIOUS
  <2> QED BY <2>1 DEF ConstructorThrows
<1> QED BY <1>1, <1>2, DropKeeps DEF ConstructorThrows

LEMMA InsertKeeps ==
  ASSUME RegistryInv, NEW t \in Threads, Insert(t)
  PROVE  RegistryInv'
<1>1. /\ stack[t] # <<>> /\ Top(t).at = "insert" /\ Registered(Top(t).key) = {}
      /\ list' = <<Top(t).obj>> \o list /\ Return(t, Top(t).obj) /\ svc' = Given(t, Top(t).obj, svc)
      /\ UNCHANGED walk
  BY DEF Insert, At, LinkedFirst
<1>2. Top(t).obj \in Objects /\ svc \in [Objects -> Service]
  BY <1>1, TopFacts DEF OwnObject, Owns, RegistryInv, TypeRegistry
<1> QED BY <1>1, <1>2, ReturnKeeps

LEMMA DiscardKeeps ==
  ASSUME RegistryInv, NEW t \in Threads, Discard(t)
  PROVE  RegistryInv'
<1>1. stack[t] # <<>> /\ Top(t).at = "insert" /\ UNCHANGED <<list, walk>>
  BY DEF Discard, At
<1>2. PICK s \in Registered(Top(t).key) :
         IF Top(t).call = "use"
         THEN Return(t, s) /\ svc' = Given(t, s, Delete(Top(t).obj, svc))
         ELSE /\ svc' = Delete(Top(t).obj, svc)
              /\ stack' = [stack EXCEPT ![t] = <<>>] /\ UNCHANGED found
  BY DEF Discard
<1>3. Top(t).obj \in Objects /\ svc \in [Objects -> Service]
  BY <1>1, TopFacts DEF OwnObject, Owns, RegistryInv, TypeRegistry
<1>4. PICK objects : objects = Delete(Top(t).obj, svc)
  OBVIOUS
<1>5. /\ objects \in [Objects -> Service] /\ objects[Top(t).obj] = NoService
      /\ \A o \in Objects \ {Top(t).obj} : objects[o] = svc[o]
  BY <1>3, <1>4, ServiceFacts DEF Delete
<1>6. CASE Top(t).call = "use"
  <2>1. s \in Objects /\ Has(list, s)
    BY Members DEF RegistryInv
  <2>2. Return(t, s) /\ svc' = Given(t, s, objects) /\ list' = list /\ UNCHANGED walk
    BY <1>1, <1>2, <1>4, <1>6
  <2> QED BY <1>1, <1>5, <2>1, <2>2, ReturnKeeps
<1>7. CASE Top(t).call # "use"
  <2>1. Len(stack[t]) = 1 /\ Top(t) = stack[t][1]
    BY <1>1, <1>7, TopFacts
  <2>2. svc' = [o \in Objects |-> IF \E i \in 1 .. Len(stack[t]) : stack[t][i].obj = o
                                  THEN NoService ELSE svc[o]]
    BY <1>2, <1>3, <1>4, <1>5, <1>7, <2>1
  <2> QED BY <1>1, <1>2, <1>7, <2>2, DropKeeps
<1> QED BY <1>6, <1>7

-----------------------------------------------------------------------------
(* The walks over the list.                                                *)

\* While the list is walked nobody is in a call.
LEMMA QuietFrames ==
  ASSUME stack' = stack, Quiet
  PROVE  (Frames /\ Apart)' /\ \A s : ~InHand(s)
<1>1. Len(<<>>) = 0 /\ \A t \in Threads : stack'[t] = <<>> /\ stack[t] = <<>>
  BY DEF Quiet
<1> QED BY <1>1 DEF Frames, Apart, Shape, InHand

LEMMA ReverseFacts ==
  ASSUME NEW S, NEW q \in Seq(S)
  PROVE  Reverse(q) \in Seq(S) /\ \A i \in 1 .. Len(Reverse(q)) : Has(q, Reverse(q)[i])
<1>1. Len(q) \in Nat /\ Reverse(q) = [i \in 1 .. Len(q) |-> q[(Len(q) - i) + 1]]
  BY DEF Reverse
<1>2. \A i \in 1 .. Len(q) : (Len(q) - i) + 1 \in 1 .. Len(q)
  BY <1>1
<1>3. Reverse(q) \in Seq(S) /\ Len(Reverse(q)) = Len(q)
  BY <1>1, <1>2
<1> QED BY <1>1, <1>2, <1>3 DEF Has

\* The program starts a fork or the destruction, or its next part begins.
LEMMA BeginKeeps ==
  ASSUME RegistryInv, NEW from, NEW to, NEW services, Begin(from, to, services),
         forks' \in 0 .. MaxForks,
         \/ from = "open" /\ to \in {"fork_prepare", "shutdown"} /\ services = list
         \/ from = "fork_prepare" /\ to = "forked" /\ services = Reverse(list)
         \/ from = "forked" /\ to = "open" /\ services = <<>>
         \/ from = "shutdown" /\ to = "destroy" /\ services = <<>>
  PROVE  RegistryInv'
<1>1. /\ phase = from /\ todo = <<>> /\ Quiet /\ phase' = to /\ todo' = services
      /\ list' = list /\ svc' = svc /\ stack' = stack /\ found' = found
  BY DEF Begin, registry
<1>2. list \in Seq(Objects) /\ Reverse(list) \in Seq(Objects)
      /\ (\A i \in 1 .. Len(Reverse(list)) : Has(list, Reverse(list)[i]))
  BY ReverseFacts DEF RegistryInv, TypeRegistry
<1>3. TypeRegistry'
  <2>1. todo' \in Seq(Objects)
    <3>1. <<>> \in Seq(Objects)
      OBVIOUS
    <3>2. services \in {list, Reverse(list), <<>>}
      OBVIOUS
    <3> QED BY <1>1, <1>2, <3>1, <3>2
  <2>2. phase' \in Phases
    BY <1>1 DEF Phases
  <2> QED BY <1>1, <2>1, <2>2 DEF RegistryInv, TypeRegistry
<1>4. (Frames /\ Apart)'
  BY <1>1, QuietFrames
<1>5. Placed' /\ OnePerKey' /\ InFront'
  BY <1>1 DEF RegistryInv, Placed, InHand, OnePerKey, InFront, Behind
<1>6. Linked'
  <2>1. CASE from # "shutdown"
    BY <1>1, <2>1 DEF RegistryInv, Linked
  <2>2. CASE from = "shutdown"
    <3>1. todo' = <<>> /\ phase' = "destroy" /\ \A s : ~Has(<<>>, s)
      BY <1>1, <2>2, NoneHas
    <3> QED BY <1>1, <3>1 DEF RegistryInv, Linked
  <2> QED BY <2>1, <2>2
<1>7. Referenced'
  BY <1>1 DEF RegistryInv, Referenced
<1>8. Walking'
  <2>1. Quiet'
    BY <1>1 DEF Quiet
  <2>2. CASE to \in {"fork_prepare", "shutdown"}
    <3>1. todo' = list /\ Len(list) \in Nat
      BY <1>1, <1>2, <2>2
    <3>2. \A i \in 1 .. Len(list) : (Len(list) - Len(list)) + i = i
      BY <3>1
    <3>3. \A i \in 1 .. Len(todo') : todo'[i] = list'[(Len(list') - Len(todo')) + i]
      BY <1>1, <3>1, <3>2
    <3>4. phase' \in {"fork_prepare", "shutdown"} /\ Len(todo') <= Len(list')
      BY <1>1, <2>2, <3>1
    <3> QED BY <2>1, <3>3, <3>4 DEF Walking
  <2>3. CASE to = "forked"
    <3>1. todo' = Reverse(list)
      BY <1>1, <2>3
    <3> QED BY <1>1, <1>2, <2>1, <2>3, <3>1 DEF Walking
  <2>4. CASE to \in {"open", "destroy"}
    BY <1>1, <2>1, <2>4 DEF Walking
  <2> QED BY <2>2, <2>3, <2>4
<1> QED BY <1>3, <1>4, <1>5, <1>6, <1>7, <1>8 DEF RegistryInv

\* The service that is being visited, and those that come after it.
LEMMA TodoFacts ==
  ASSUME RegistryInv, todo # <<>>
  PROVE  /\ Quiet /\ phase \in {"fork_prepare", "forked", "shutdown"} /\ todo \in Seq(Objects)
         /\ Head(todo) \in Objects /\ Has(list, Head(todo)) /\ Has(todo, Head(todo))
         /\ Tail(todo) \in Seq(Objects)
         /\ \A s : Has(Tail(todo), s) => Has(todo, s)
         /\ \A s : Has(todo, s) => Has(list, s) /\ (Has(Tail(todo), s) \/ s = Head(todo))
         /\ phase # "forked" => ~Has(Tail(todo), Head(todo))
<1>1. Quiet /\ phase \in {"fork_prepare", "forked", "shutdown"} /\ todo \in Seq(Objects) /\ list \in Seq(Objects)
  BY DEF RegistryInv, Walking, TypeRegistry, Phases
<1>2. /\ Tail(todo) \in Seq(Objects) /\ Len(Tail(todo)) = Len(todo) - 1 /\ Len(todo) \in Nat \ {0}
      /\ Head(todo) = todo[1] /\ Head(todo) \in Objects
      /\ \A i \in 1 .. Len(Tail(todo)) : Tail(todo)[i] = todo[i + 1] /\ i + 1 \in 1 .. Len(todo)
  BY <1>1, TailFacts
<1>3. \A s : /\ Has(Tail(todo), s) => Has(todo, s)
             /\ Has(todo, s) => Has(Tail(todo), s) \/ s = Head(todo)
  BY <1>1, TailHas
<1>4. 1 \in 1 .. Len(todo) /\ Has(todo, Head(todo))
  <2>1. 1 \in 1 .. Len(todo)
    BY <1>2
  <2> QED BY <1>2, <2>1 DEF Has
<1>5. ASSUME NEW i \in 1 .. Len(todo), phase # "forked"
      PROVE  /\ (Len(list) - Len(todo)) + i \in 1 .. Len(list)
             /\ todo[i] = list[(Len(list) - Len(todo)) + i]
  <2>1. Len(todo) <= Len(list) /\ todo[i] = list[(Len(list) - Len(todo)) + i]
    BY <1>1, <1>5 DEF RegistryInv, Walking
  <2>2. Len(list) \in Nat
    BY <1>1
  <2> QED BY <1>2, <2>1, <2>2
<1>6. ASSUME NEW s, Has(todo, s) PROVE Has(list, s)
  <2>1. PICK i \in 1 .. Len(todo) : todo[i] = s
    BY <1>6 DEF Has
  <2>2. CASE phase # "forked"
    BY <1>5, <2>1, <2>2 DEF Has
  <2>3. CASE phase = "forked"
    BY <2>1, <2>3 DEF RegistryInv, Walking
  <2> QED BY <2>2, <2>3
<1>7. ASSUME phase # "forked", Has(Tail(todo), Head(todo)) PROVE FALSE
  <2>1. PICK i \in 1 .. Len(Tail(todo)) : Tail(todo)[i] = Head(todo)
    BY <1>7 DEF Has
  <2>2. i + 1 \in 1 .. Len(todo) /\ todo[i + 1] = todo[1] /\ i + 1 # 1
    BY <1>2, <2>1
  <2>3. PICK m \in 1 .. Len(list) : m = (Len(list) - Len(todo)) + (i + 1) /\ list[m] = todo[1]
    BY <1>5, <1>7, <2>2
  <2>4. PICK n \in 1 .. Len(list) : n = (Len(list) - Len(todo)) + 1 /\ list[n] = todo[1]
    BY <1>4, <1>5, <1>7
  <2>5. m = n
    BY <2>3, <2>4 DEF RegistryInv, OnePerKey
  <2> QED BY <1>1, <1>2, <2>2, <2>3, <2>4, <2>5
<1> QED BY <1>1, <1>2, <1>3, <1>4, <1>6, <1>7

\* The call into a service returns.
LEMMA VisitedKeeps ==
  ASSUME RegistryInv, todo # <<>>, Visited
  PROVE  /\ RegistryInv'
         /\ list' = list /\ phase' = phase /\ todo' = Tail(todo)
         /\ \A s \in Objects : /\ svc'[s].key = svc[s].key /\ svc'[s].uses = svc[s].uses
                               /\ svc'[s].state = "alive" =>
                                    svc[s].state = "alive" /\ (phase = "shutdown" => s # Head(todo))
<1> DEFINE h == Head(todo)
<1>1. /\ todo' = Tail(todo) /\ list' = list /\ stack' = stack /\ found' = found /\ phase' = phase
      /\ forks' = forks
      /\ svc' = IF phase = "shutdown" THEN [svc EXCEPT ![h].state = "shutdown"] ELSE svc
  BY DEF Visited
<1>2. /\ Quiet /\ phase \in {"fork_prepare", "forked", "shutdown"} /\ h \in Objects /\ Has(list, h)
      /\ todo' \in Seq(Objects) /\ \A s : Has(Tail(todo), s) => Has(todo, s)
      /\ phase # "forked" => ~Has(Tail(todo), h)
  BY <1>1, TodoFacts
<1>3. svc \in [Objects -> Service] /\ list \in Seq(Objects) /\ todo \in Seq(Objects)
  BY DEF RegistryInv, TypeRegistry
<1>4. /\ svc' \in [Objects -> Service]
      /\ \A s \in Objects : /\ svc'[s].key = svc[s].key /\ svc'[s].uses = svc[s].uses
                            /\ s # h \/ phase # "shutdown" => svc'[s] = svc[s]
                            /\ phase = "shutdown" => svc'[h].state = "shutdown"
  <2>1. CASE phase # "shutdown"
    BY <1>1, <1>3, <2>1
  <2>2. CASE phase = "shutdown"
    <3>1. PICK x : x = [svc[h] EXCEPT !.state = "shutdown"]
      OBVIOUS
    <3>2. svc[h] \in Service
      BY <1>2, <1>3
    <3>3. x \in Service /\ x.key = svc[h].key /\ x.uses = svc[h].uses
      BY <3>1, <3>2 DEF Service
    <3>4. svc' = [svc EXCEPT ![h] = x]
      BY <1>1, <2>2, <3>1
    <3>5. svc' \in [Objects -> Service] /\ svc'[h] = x /\ \A s \in Objects \ {h} : svc'[s] = svc[s]
      BY <1>2, <1>3, <3>3, <3>4
    <3>6. x.state = "shutdown"
      BY <3>1, <3>2 DEF Service
    <3> QED BY <2>2, <3>3, <3>5, <3>6
  <2> QED BY <2>1, <2>2
<1>5. TypeRegistry'
  BY <1>1, <1>2, <1>4 DEF RegistryInv, TypeRegistry
<1>6. (Frames /\ Apart)' /\ \A s : ~InHand(s)
  BY <1>1, <1>2, QuietFrames
<1>7. Placed'
  <2>1. ASSUME NEW s \in Objects, svc'[s] # NoService PROVE Has(list', s)
    <3>1. CASE s = h
      BY <1>1, <1>2, <3>1
    <3>2. CASE s # h
      BY <1>1, <1>4, <1>6, <2>1, <3>2 DEF RegistryInv, Placed
    <3> QED BY <3>1, <3>2
  <2>2. \A s \in Objects : \A i \in 1 .. Len(svc'[s].uses) : Has(list', svc'[s].uses[i])
    BY <1>1, <1>4 DEF RegistryInv, Placed
  <2> QED BY <2>1, <2>2 DEF Placed
<1>8. Linked'
  <2>1. ASSUME NEW s \in Objects, Has(list', s)
        PROVE  Complete(svc'[s]) /\ (phase' \notin {"shutdown", "destroy"} \/ Has(todo', s)
                                        => svc'[s].state = "alive")
    <3>1. Complete(svc'[s])
      BY <1>1, <1>4, <2>1 DEF RegistryInv, Linked, Complete
    <3>2. ASSUME phase' \notin {"shutdown", "destroy"} \/ Has(todo', s)
          PROVE  svc'[s].state = "alive"
      <4>1. svc[s].state = "alive"
        BY <1>1, <1>2, <2>1, <3>2 DEF RegistryInv, Linked
      <4>2. s # h \/ phase # "shutdown"
        BY <1>1, <1>2, <3>2
      <4> QED BY <1>4, <4>1, <4>2
    <3> QED BY <3>1, <3>2
  <2> QED BY <2>1 DEF Linked
<1>9. OnePerKey' /\ InFront'
  <2>1. \A i \in 1 .. Len(list) : svc'[list[i]].key = svc[list[i]].key /\ svc'[list[i]].uses = svc[list[i]].uses
    BY <1>3, <1>4
  <2> QED BY <1>1, <2>1, ListKept DEF RegistryInv
<1>10. Referenced'
  BY <1>1 DEF RegistryInv, Referenced
<1>11. Walking'
  <2>0. Quiet'
    BY <1>1, <1>2 DEF Quiet
  <2>1. /\ Len(todo') = Len(todo) - 1 /\ Len(todo) \in Nat \ {0} /\ Len(list) \in Nat
        /\ \A i \in 1 .. Len(todo') : todo'[i] = todo[i + 1] /\ i + 1 \in 1 .. Len(todo)
    BY <1>1, <1>3, TailFacts
  <2>2. CASE phase = "forked"
    BY <1>1, <2>0, <2>1, <2>2 DEF RegistryInv, Walking
  <2>3. CASE phase # "forked"
    <3>1. /\ Len(todo) <= Len(list)
          /\ \A i \in 1 .. Len(todo) : todo[i] = list[(Len(list) - Len(todo)) + i]
      BY <1>2, <2>3 DEF RegistryInv, Walking
    <3>2. ASSUME NEW i \in 1 .. Len(todo')
          PROVE  todo'[i] = list'[(Len(list') - Len(todo')) + i]
      <4>1. todo'[i] = list[(Len(list) - Len(todo)) + (i + 1)]
        BY <2>1, <3>1
      <4>2. (Len(list) - Len(todo)) + (i + 1) = (Len(list) - (Len(todo) - 1)) + i
        BY <2>1
      <4> QED BY <1>1, <2>1, <4>1, <4>2
    <3>3. Len(todo') <= Len(list')
      BY <1>1, <2>1, <3>1
    <3> QED BY <1>1, <1>2, <2>0, <2>3, <3>2, <3>3 DEF Walking
  <2> QED BY <2>2, <2>3
<1>12. ASSUME NEW s \in Objects, svc'[s].state = "alive"
       PROVE  svc[s].state = "alive" /\ (phase = "shutdown" => s # h)
  <2>1. s # h \/ phase # "shutdown"
    BY <1>4, <1>12
  <2> QED BY <1>4, <1>12, <2>1
<1>13. RegistryInv'
  BY <1>5, <1>6, <1>7, <1>8, <1>9, <1>10, <1>11 DEF RegistryInv
<1> QED BY <1>1, <1>4, <1>12, <1>13

\* The first service is deleted: nobody in the list uses it.
LEMMA DestroyNextKeeps ==
  ASSUME RegistryInv, NEW s, DestroyNext(s)
  PROVE  /\ RegistryInv' /\ phase = "destroy" /\ phase' = "destroy" /\ todo = <<>> /\ todo' = <<>>
         /\ \A o : Has(list', o) => Has(list, o)
<1>1. /\ phase = "destroy" /\ list # <<>> /\ s = Head(list) /\ list' = Tail(list)
      /\ svc' = Delete(s, svc) /\ stack' = stack /\ found' = found /\ phase' = phase
      /\ todo' = todo /\ forks' = forks
  BY DEF DestroyNext, walk
<1>2. svc \in [Objects -> Service] /\ list \in Seq(Objects) /\ Quiet /\ todo = <<>>
  BY <1>1 DEF RegistryInv, TypeRegistry, Walking
<1>3. /\ list' \in Seq(Objects) /\ Len(list') = Len(list) - 1 /\ Len(list) \in Nat \ {0}
      /\ s = list[1] /\ s \in Objects /\ 1 \in 1 .. Len(list)
      /\ \A i \in 1 .. Len(list') : list'[i] = list[i + 1] /\ i + 1 \in 1 .. Len(list)
  BY <1>1, <1>2, TailFacts
<1>4. \A o : Has(list', o) => Has(list, o)
  BY <1>1, <1>2, TailHas
<1>5. \A o : Has(list, o) /\ o # s => Has(list', o)
  BY <1>1, <1>2, TailHas
<1>6. ASSUME NEW i \in 1 .. Len(list), i # 1 PROVE list[i] # s
  BY <1>3, <1>6 DEF RegistryInv, OnePerKey
<1>7. /\ svc' \in [Objects -> Service] /\ svc'[s] = NoService
      /\ \A o \in Objects \ {s} : svc'[o] = svc[o]
  BY <1>1, <1>2, <1>3, ServiceFacts DEF Delete
<1>8. TypeRegistry'
  BY <1>1, <1>2, <1>3, <1>7 DEF RegistryInv, TypeRegistry
<1>9. (Frames /\ Apart)' /\ \A o : ~InHand(o)
  BY <1>1, <1>2, QuietFrames
<1>10. \A o : Has(list', o) => o \in Objects \ {s} /\ svc'[o] = svc[o]
  <2> SUFFICES ASSUME NEW o, Has(list', o) PROVE o \in Objects \ {s} /\ svc'[o] = svc[o]
    OBVIOUS
  <2>1. PICK i \in 1 .. Len(list') : list'[i] = o
    BY DEF Has
  <2>2. o = list[i + 1] /\ i + 1 \in 1 .. Len(list) /\ i + 1 # 1
    BY <1>3, <2>1
  <2>3. o \in Objects /\ o # s
    BY <1>2, <1>6, <2>2
  <2> QED BY <1>7, <2>3
<1>11. \A i \in 1 .. Len(list') : svc'[list'[i]] = svc[list[i + 1]]
  BY <1>3, <1>10 DEF Has
<1>12. Placed'
  <2>1. ASSUME NEW o \in Objects, svc'[o] # NoService PROVE Has(list', o)
    <3>1. o # s /\ svc[o] # NoService
      BY <1>7, <2>1
    <3> QED BY <1>5, <1>9, <3>1 DEF RegistryInv, Placed
  <2>2. ASSUME NEW o \in Objects, NEW n \in 1 .. Len(svc'[o].uses) PROVE Has(list', svc'[o].uses[n])
    <3>1. o # s
      <4>1. Len(<<>>) = 0
        OBVIOUS
      <4> QED BY <1>7, <2>2, <4>1, ServiceFacts
    <3>2. svc'[o] = svc[o] /\ svc[o] # NoService
      <4>1. Len(<<>>) = 0
        OBVIOUS
      <4> QED BY <1>7, <2>2, <3>1, <4>1, ServiceFacts
    <3>3. Has(list, o)
      BY <1>9, <3>2 DEF RegistryInv, Placed
    <3>4. PICK i \in 1 .. Len(list) : list[i] = o
      BY <3>3 DEF Has
    <3>5. Behind(i, svc[o].uses[n])
      BY <2>2, <3>2, <3>4 DEF RegistryInv, InFront
    <3>6. PICK j \in i + 1 .. Len(list) : list[j] = svc[o].uses[n]
      BY <3>5 DEF Behind
    <3>7. j \in 1 .. Len(list) /\ j # 1
      BY <3>6, <1>3
    <3>8. Has(list, list[j]) /\ list[j] # s
      BY <1>6, <3>7 DEF Has
    <3> QED BY <1>5, <3>2, <3>6, <3>8
  <2> QED BY <2>1, <2>2 DEF Placed
<1>13. Linked'
  <2>1. todo' = <<>> /\ phase' = "destroy" /\ \A o : ~Has(<<>>, o)
    BY <1>1, <1>2, NoneHas
  <2> QED BY <1>4, <1>10, <2>1 DEF RegistryInv, Linked
<1>14. OnePerKey'
  <2>1. \A i, j \in 1 .. Len(list') : svc'[list'[i]].key = svc'[list'[j]].key => i = j
    <3> TAKE i, j \in 1 .. Len(list')
    <3> HAVE svc'[list'[i]].key = svc'[list'[j]].key
    <3>1. PICK m \in 1 .. Len(list) : m = i + 1 /\ svc'[list'[i]] = svc[list[m]]
      BY <1>3, <1>11
    <3>2. PICK n \in 1 .. Len(list) : n = j + 1 /\ svc'[list'[j]] = svc[list[n]]
      BY <1>3, <1>11
    <3>3. m = n
      BY <3>1, <3>2 DEF RegistryInv, OnePerKey
    <3> QED BY <3>1, <3>2, <3>3
  <2> QED BY <2>1 DEF OnePerKey
<1>15. InFront'
  <2>1. \A i \in 1 .. Len(list') : \A n \in 1 .. Len(svc'[list'[i]].uses) :
           \E j \in i + 1 .. Len(list') : list'[j] = svc'[list'[i]].uses[n]
    <3> TAKE i \in 1 .. Len(list')
    <3> TAKE n \in 1 .. Len(svc'[list'[i]].uses)
    <3>1. svc'[list'[i]] = svc[list[i + 1]] /\ i + 1 \in 1 .. Len(list)
      BY <1>3, <1>11
    <3>2. Behind(i + 1, svc[list[i + 1]].uses[n])
      BY <3>1 DEF RegistryInv, InFront
    <3>3. PICK j \in (i + 1) + 1 .. Len(list) : list[j] = svc[list[i + 1]].uses[n]
      BY <3>2 DEF Behind
    <3>4. j - 1 \in i + 1 .. Len(list') /\ j - 1 \in 1 .. Len(list') /\ (j - 1) + 1 = j
      BY <1>3, <3>3
    <3>5. list'[j - 1] = list[j]
      BY <1>3, <3>4
    <3> QED BY <3>1, <3>3, <3>4, <3>5
  <2> QED BY <2>1 DEF InFront, Behind
<1>16. Referenced'
  BY <1>1 DEF Referenced
<1>17. Walking'
  BY <1>1, <1>2 DEF Walking, Quiet
<1> QED BY <1>1, <1>2, <1>4, <1>8, <1>9, <1>12, <1>13, <1>14, <1>15, <1>16, <1>17 DEF RegistryInv

-----------------------------------------------------------------------------
(* Tokens.                                                                 *)

LEMMA LeastNumber ==
  ASSUME NEW S \in SUBSET Nat, S # {}
  PROVE  \E i \in S : \A j \in S : i <= j
<1> SUFFICES ASSUME \A i \in S : \E j \in S : j < i PROVE FALSE
  OBVIOUS
<1> DEFINE T == {n \in Nat : \A m \in S : n < m}
<1>1. 0 \in T
  <2>1. 0 \notin S
    OBVIOUS
  <2> QED BY <2>1
<1>2. ASSUME NEW n \in Nat, n \in T PROVE n + 1 \in T
  <2>1. ASSUME NEW m \in S, ~(n + 1 < m) PROVE FALSE
    <3>1. m = n + 1
      BY <1>2, <2>1
    <3>2. PICK j \in S : j < m
      OBVIOUS
    <3> QED BY <1>2, <3>1, <3>2
  <2> QED BY <2>1
<1> HIDE DEF T
<1>3. Nat \subseteq T
  BY <1>1, <1>2, SetInduction
<1>4. PICK m \in S : m \in Nat
  OBVIOUS
<1>5. \A k \in S : m < k
  BY <1>3, <1>4 DEF T
<1> QED BY <1>4, <1>5

\* There are never too many.
LEMMA FreshTokenFacts ==
  ASSUME TypeResolver, NEW r \in Resolvers
  PROVE  FreshToken(r) \in Tokens /\ IsFresh(FreshToken(r), r)
<1>1. IsFiniteSet(Resolvers) /\ MaxOps \in Nat
  BY ResolverAssumption
<1> DEFINE Others == Resolvers \ {r}
           A == {impl[q].token : q \in Others}
           B == {op[o].token : o \in Ops}
<1>2. /\ IsFiniteSet(Others) /\ Cardinality(Others) = Cardinality(Resolvers) - 1
      /\ Cardinality(Resolvers) \in Nat
  BY <1>1, FS_RemoveElement, FS_CardinalityType
<1>3. IsFiniteSet(Ops) /\ Cardinality(Ops) = MaxOps
  BY <1>1, FS_Interval DEF Ops
<1>4. IsFiniteSet(A) /\ Cardinality(A) <= Cardinality(Others) /\ Cardinality(A) \in Nat
  <2>1. [q \in Others |-> impl[q].token] \in Surjection(Others, A)
    BY DEF Surjection
  <2> HIDE DEF A
  <2> QED BY <1>2, <2>1, FS_Surjection, FS_CardinalityType
<1>5. IsFiniteSet(B) /\ Cardinality(B) <= Cardinality(Ops) /\ Cardinality(B) \in Nat
  <2>1. [o \in Ops |-> op[o].token] \in Surjection(Ops, B)
    BY DEF Surjection
  <2> HIDE DEF B
  <2> QED BY <1>3, <2>1, FS_Surjection, FS_CardinalityType
<1>6. IsFiniteSet(A \cup B) /\ Cardinality(A \cup B) <= Cardinality(A) + Cardinality(B)
  <2> HIDE DEF A, B
  <2>1. /\ IsFiniteSet(A \cup B) /\ Cardinality(A \cup B) = Cardinality(A) + Cardinality(B) - Cardinality(A \cap B)
    BY <1>4, <1>5, FS_Union
  <2>2. A \cap B \in SUBSET A
    OBVIOUS
  <2>3. Cardinality(A \cap B) \in Nat
    BY <1>4, <2>2, FS_Subset, FS_CardinalityType
  <2> QED BY <1>4, <1>5, <2>1, <2>3
<1>7. \E n \in Tokens : n \notin A \cup B
  <2>1. IsFiniteSet(Tokens) /\ Cardinality(Tokens) = MaxOps + Cardinality(Resolvers)
    <3>1. PICK c \in Nat : c = MaxOps + Cardinality(Resolvers)
      BY <1>1, <1>2
    <3>2. IsFiniteSet(1 .. c) /\ Cardinality(1 .. c) = c
      BY FS_Interval
    <3> QED BY <3>1, <3>2 DEF Tokens
  <2> HIDE DEF A, B
  <2>4. Cardinality(A \cup B) \in Nat
    BY <1>6, FS_CardinalityType
  <2>2. Cardinality(A \cup B) \in Nat /\ Cardinality(A \cup B) < Cardinality(Tokens)
    <3>1. \A a, b, c, n, m \in Nat : a <= n - 1 /\ b <= m /\ c <= a + b => c < m + n
      OBVIOUS
    <3>2. Cardinality(A) <= Cardinality(Resolvers) - 1 /\ Cardinality(B) <= MaxOps
      BY <1>2, <1>3, <1>4, <1>5
    <3> QED BY <1>1, <1>2, <1>4, <1>5, <1>6, <2>1, <2>4, <3>1, <3>2
  <2>3. ~(Tokens \in SUBSET (A \cup B))
    <3> SUFFICES ASSUME Tokens \in SUBSET (A \cup B) PROVE FALSE
      OBVIOUS
    <3>1. Cardinality(Tokens) <= Cardinality(A \cup B)
      BY <1>6, FS_Subset
    <3> QED BY <1>1, <1>2, <2>1, <2>2, <3>1
  <2> QED BY <2>3
<1>8. \A n : n \notin A \cup B => IsFresh(n, r)
  BY DEF IsFresh
<1> DEFINE Fresh == {n \in Tokens : IsFresh(n, r)}
<1>9. Fresh \in SUBSET Nat /\ Fresh # {}
  BY <1>7, <1>8 DEF Tokens
<1> HIDE DEF Fresh, A, B
<1>10. PICK n \in Fresh : \A m \in Fresh : n <= m
  BY <1>9, LeastNumber
<1>12. n \in Tokens /\ IsFresh(n, r) /\ \A m \in 1 .. n - 1 : ~IsFresh(m, r)
  <2>1. n \in Tokens /\ IsFresh(n, r)
    <3>1. n \in Fresh
      OBVIOUS
    <3> QED BY <3>1 DEF Fresh
  <2>2. ASSUME NEW m \in 1 .. n - 1, IsFresh(m, r) PROVE FALSE
    <3>1. MaxOps + Cardinality(Resolvers) \in Nat
      BY <1>1, <1>2
    <3>2. m \in Tokens /\ n \in Nat
      BY <2>1, <3>1 DEF Tokens
    <3>3. m \in Fresh
      BY <2>2, <3>2 DEF Fresh
    <3> QED BY <1>10, <3>2, <3>3
  <2> QED BY <2>1, <2>2
<1> QED BY <1>12 DEF FreshToken

-----------------------------------------------------------------------------
(* What a step of the registry leaves alone.                               *)

\* What is in the list stays there, and nothing comes alive by itself.
Settled ==
    /\ phase = "open" /\ phase' = phase /\ todo' = todo
    /\ \A s \in Objects : Has(list, s) => Has(list', s) /\ svc'[s].key = svc[s].key

\* A call that is not at its end leaves what is in the list alone.
LEMMA CallSettles ==
  ASSUME RegistryInv, NEW t \in Threads,
         \/ \E k \in Keys : UseService(t, k) \/ MakeService(t, k)
         \/ ConstructorThrows(t)
         \/ Find(t)
         \/ ConstructorUses(t)
         \/ Insert(t)
  PROVE  /\ Settled
         /\ \A s \in Objects : svc'[s].state = "alive" => svc[s].state = "alive" /\ svc'[s].key = svc[s].key
<1>0. svc \in [Objects -> Service] /\ list \in Seq(Objects)
  BY DEF RegistryInv, TypeRegistry
<1>1. CASE \E k \in Keys : UseService(t, k)
  BY <1>1 DEF UseService, Asks, Open, walk, Settled
<1>2. CASE \E k \in Keys : MakeService(t, k)
  <2>1. PICK k \in Keys : MakeService(t, k)
    BY <1>2
  <2>2. PICK s \in Objects : FreeAddress(s) /\ svc' = [svc EXCEPT ![s] = New(k)]
    BY <2>1 DEF MakeService
  <2>3. phase = "open" /\ phase' = phase /\ todo' = todo /\ list' = list
    BY <2>1 DEF MakeService, Asks, Open, walk
  <2>4. ~Has(list, s) /\ New(k).state = "constructing"
    BY <2>2, <2>3, FreeFacts
  <2>5. svc'[s] = New(k) /\ \A o \in Objects \ {s} : svc'[o] = svc[o]
    BY <1>0, <2>2
  <2> QED BY <2>3, <2>4, <2>5 DEF Settled
<1>3. CASE ConstructorThrows(t)
  <2>1. /\ stack[t] # <<>> /\ phase' = phase /\ todo' = todo /\ list' = list
        /\ svc' = [s \in Objects |-> IF s \in {stack[t][i].obj : i \in 1 .. Len(stack[t])}
                                     THEN NoService ELSE svc[s]]
    BY <1>3 DEF ConstructorThrows, At, walk
  <2>2. phase = "open"
    BY <2>1, TopFacts
  <2>3. ASSUME NEW s \in Objects, Has(list, s) PROVE svc'[s] = svc[s]
    <3>1. ASSUME NEW i \in 1 .. Len(stack[t]) PROVE stack[t][i].obj # s
      BY <2>3, <3>1, ServiceFacts DEF RegistryInv, Frames, OwnObject, Owns
    <3> QED BY <2>1, <3>1
  <2>4. ASSUME NEW s \in Objects PROVE svc'[s] = svc[s] \/ svc'[s].state = "none"
    BY <2>1, ServiceFacts
  <2> QED BY <2>1, <2>2, <2>3, <2>4 DEF Settled
<1>4. CASE Find(t)
  <2>1. stack[t] # <<>> /\ Top(t).at = "find" /\ phase' = phase /\ todo' = todo /\ list' = list
    BY <1>4 DEF Find, At, walk
  <2>2. phase = "open" /\ Top(t).obj = NoObject /\ Top(t).key \in Keys
    BY <2>1, TopFacts DEF OwnObject, Owns, Frame
  <2>3. CASE \E s \in Registered(Top(t).key) : Return(t, s) /\ svc' = Given(t, s, svc)
    <3>1. PICK s \in Registered(Top(t).key) : Return(t, s) /\ svc' = Given(t, s, svc)
      BY <2>3
    <3>2. s \in Objects
      BY Members DEF RegistryInv
    <3>3. \A o \in Objects \ {Top(t).obj} : svc'[o].key = svc[o].key /\ svc'[o].state = svc[o].state
      BY <1>0, <2>1, <3>1, <3>2, Returned
    <3>4. \A o \in Objects : o # Top(t).obj
      BY <2>2, ServiceFacts
    <3> QED BY <2>1, <2>2, <3>3, <3>4 DEF Settled
  <2>4. CASE \E s \in Objects : FreeAddress(s) /\ svc' = [svc EXCEPT ![s] = New(Top(t).key)]
    <3>1. PICK s \in Objects : FreeAddress(s) /\ svc' = [svc EXCEPT ![s] = New(Top(t).key)]
      BY <2>4
    <3>2. ~Has(list, s) /\ New(Top(t).key).state = "constructing"
      BY <2>2, <3>1, FreeFacts
    <3>3. svc'[s] = New(Top(t).key) /\ \A o \in Objects \ {s} : svc'[o] = svc[o]
      BY <1>0, <3>1
    <3> QED BY <2>1, <2>2, <3>2, <3>3 DEF Settled
  <2> QED BY <1>4, <2>3, <2>4 DEF Find
<1>5. CASE ConstructorUses(t)
  <2>1. stack[t] # <<>> /\ phase' = phase /\ todo' = todo /\ list' = list /\ svc' = svc
    BY <1>5 DEF ConstructorUses, At, walk
  <2> QED BY <2>1, TopFacts DEF Settled
<1>6. CASE Insert(t)
  <2>1. /\ stack[t] # <<>> /\ Top(t).at = "insert" /\ phase' = phase /\ todo' = todo
        /\ list' = <<Top(t).obj>> \o list /\ Return(t, Top(t).obj) /\ svc' = Given(t, Top(t).obj, svc)
    BY <1>6 DEF Insert, At, walk, LinkedFirst
  <2>2. phase = "open" /\ Top(t).obj \in Objects
    BY <2>1, TopFacts DEF OwnObject, Owns
  <2>3. /\ svc'[Top(t).obj] = svc[Top(t).obj]
        /\ \A o \in Objects \ {Top(t).obj} : svc'[o].key = svc[o].key /\ svc'[o].state = svc[o].state
    BY <1>0, <2>1, <2>2, Returned
  <2>4. \A o : Has(list, o) => Has(list', o)
    BY <1>0, <2>1, <2>2, PushHas
  <2> QED BY <2>1, <2>2, <2>3, <2>4 DEF Settled
<1> QED BY <1>1, <1>2, <1>3, <1>4, <1>5, <1>6

\* A constructor that returns makes its object alive, which is not in the list yet.
LEMMA EndSettles ==
  ASSUME RegistryInv, NEW t \in Threads, ConstructorEnds(t)
  PROVE  /\ Settled /\ Top(t).obj \in Objects /\ ~Has(list, Top(t).obj)
         /\ svc'[Top(t).obj].key = Top(t).key
         /\ \A s \in Objects \ {Top(t).obj} : svc'[s] = svc[s]
<1>1. /\ stack[t] # <<>> /\ Top(t).at = "construct" /\ phase' = phase /\ todo' = todo /\ list' = list
      /\ svc' = [svc EXCEPT ![Top(t).obj].state = "alive"]
  BY DEF ConstructorEnds, At, walk
<1>2. /\ phase = "open" /\ Top(t).obj \in Objects /\ ~Has(list, Top(t).obj)
      /\ svc[Top(t).obj].key = Top(t).key
  BY <1>1, TopFacts DEF OwnObject, Owns
<1>3. svc \in [Objects -> Service]
  BY DEF RegistryInv, TypeRegistry
<1>4. svc[Top(t).obj] \in Service
  BY <1>2, <1>3
<1>5. /\ svc'[Top(t).obj] = [svc[Top(t).obj] EXCEPT !.state = "alive"]
      /\ \A s \in Objects \ {Top(t).obj} : svc'[s] = svc[s]
  BY <1>1, <1>2, <1>3
<1>6. svc'[Top(t).obj].key = svc[Top(t).obj].key
  BY <1>4, <1>5 DEF Service
<1> QED BY <1>1, <1>2, <1>5, <1>6 DEF Settled

\* The loser of a race is not in the list either.
LEMMA DiscardSettles ==
  ASSUME RegistryInv, NEW t \in Threads, Discard(t)
  PROVE  /\ Settled /\ Top(t).obj \in Objects /\ ~Has(list, Top(t).obj)
         /\ svc'[Top(t).obj] = NoService /\ ~Has(list', Top(t).obj)
         /\ \A s \in Objects \ {Top(t).obj} : svc'[s].key = svc[s].key /\ svc'[s].state = svc[s].state
<1>1. stack[t] # <<>> /\ Top(t).at = "insert" /\ phase' = phase /\ todo' = todo /\ list' = list
  BY DEF Discard, At, walk
<1>2. phase = "open" /\ Top(t).obj \in Objects /\ ~Has(list, Top(t).obj)
  BY <1>1, TopFacts DEF OwnObject, Owns
<1>3. svc \in [Objects -> Service]
  BY DEF RegistryInv, TypeRegistry
<1> DEFINE rest == Delete(Top(t).obj, svc)
<1>4. /\ rest \in [Objects -> Service] /\ rest[Top(t).obj] = NoService
      /\ \A o \in Objects \ {Top(t).obj} : rest[o] = svc[o]
  BY <1>2, <1>3, ServiceFacts DEF Delete
<1>5. PICK s \in Registered(Top(t).key) :
         \/ Return(t, s) /\ svc' = Given(t, s, rest)
         \/ svc' = rest
  BY DEF Discard
<1> HIDE DEF rest
<1>6. s \in Objects
  BY Members DEF RegistryInv
<1>7. /\ svc'[Top(t).obj] = NoService
      /\ \A o \in Objects \ {Top(t).obj} : svc'[o].key = svc[o].key /\ svc'[o].state = svc[o].state
  <2>1. CASE Return(t, s) /\ svc' = Given(t, s, rest)
    BY <1>1, <1>2, <1>4, <1>6, <2>1, Returned
  <2>2. CASE svc' = rest
    BY <1>4, <2>2
  <2> QED BY <1>5, <2>1, <2>2
<1> QED BY <1>1, <1>2, <1>7 DEF Settled

-----------------------------------------------------------------------------
(* What the invariant says of the services that may be called.             *)

\* The scheduler a resolver service obtained is called after it is: not yet shut down.
LEMMA SchedulerFacts ==
  ASSUME RegistryInv, NEW s \in Objects, svc[s].key = "resolver", Standing(s), phase # "destroy"
  PROVE  /\ SchedulerOf(s) \in Objects /\ Standing(SchedulerOf(s))
         /\ svc[SchedulerOf(s)].state = "alive"
<1> DEFINE u == SchedulerOf(s)
<1>1. svc[s].uses \in Seq(Objects) /\ list \in Seq(Objects) /\ todo \in Seq(Objects) /\ phase \in Phases
  BY ServiceFacts DEF RegistryInv, TypeRegistry
<1>2. 1 \in 1 .. Len(svc[s].uses)
  <2>1. Complete(svc[s])
    BY DEF RegistryInv, Linked, Standing
  <2>2. Needs["resolver"] = <<"scheduler">>
    BY ResolverAssumption
  <2>3. ~(Len(svc[s].uses) < 1)
    BY <2>1, <2>2 DEF Complete
  <2>4. Len(svc[s].uses) \in Nat
    BY <1>1
  <2> QED BY <2>3, <2>4
<1>3. u \in Objects /\ Has(list, u)
  BY <1>1, <1>2 DEF SchedulerOf, RegistryInv, Placed
<1>4. CASE phase # "shutdown"
  BY <1>3, <1>4 DEF RegistryInv, Linked, Standing
<1>5. CASE phase = "shutdown"
  <2>1. PICK i \in 1 .. Len(todo) : todo[i] = s
    BY <1>5 DEF Standing, Has
  <2>2. /\ Len(todo) <= Len(list) /\ Len(todo) \in Nat /\ Len(list) \in Nat
        /\ \A k \in 1 .. Len(todo) : todo[k] = list[(Len(list) - Len(todo)) + k]
    BY <1>1, <1>5 DEF RegistryInv, Walking
  <2>3. PICK m \in 1 .. Len(list) : m = (Len(list) - Len(todo)) + i /\ list[m] = s
    BY <2>1, <2>2
  <2>4. Behind(m, u)
    BY <1>2, <2>3 DEF RegistryInv, InFront, SchedulerOf
  <2>5. PICK j \in m + 1 .. Len(list) : list[j] = u
    BY <2>4 DEF Behind
  <2>6. PICK k \in 1 .. Len(todo) : (Len(list) - Len(todo)) + k = j
    <3>1. j - (Len(list) - Len(todo)) \in 1 .. Len(todo)
      BY <2>1, <2>2, <2>3, <2>5
    <3>2. (Len(list) - Len(todo)) + (j - (Len(list) - Len(todo))) = j
      BY <2>2, <2>5
    <3> QED BY <3>1, <3>2
  <2>7. todo[k] = u
    BY <2>2, <2>5, <2>6
  <2>8. Has(todo, u)
    BY <2>7 DEF Has
  <2> QED BY <1>3, <2>8 DEF RegistryInv, Linked, Standing
<1> QED BY <1>4, <1>5

\* A service with operations or a thread may be called.
LEMMA BusyFacts ==
  ASSUME ServiceInv, NEW s \in Objects, ~Empty(s)
  PROVE  Standing(s) /\ phase # "destroy" /\ (HasThread(s) => svc[s].key = "resolver")
<1>1. Standing(s)
  BY DEF ServiceInv, Working
<1>2. phase # "destroy"
  <2>1. ~Has(<<>>, s)
    BY NoneHas
  <2> QED BY <1>1, <2>1 DEF ServiceInv, RegistryInv, Walking, Standing
<1> QED BY <1>1, <1>2 DEF ServiceInv, Working

\* The invariant is strong enough.
LEMMA InvImpliesOutlives ==
  ASSUME ServiceInv
  PROVE  NothingOutlives
<1>1. TypeOK
  BY DEF ServiceInv, RegistryInv, TypeRegistry, TypeResolver, TypeOK, Service, Phases, Work,
     Impl
<1>2. svc \in [Objects -> Service] /\ list \in Seq(Objects)
  BY DEF ServiceInv, RegistryInv, TypeRegistry
<1>3. \A s \in Objects : svc[s].uses \in Seq(Objects)
  BY <1>2, ServiceFacts
<1>4. Ordered
  <2>1. DOMAIN list = 1 .. Len(list)
    BY <1>2
  <2>2. ASSUME NEW i \in 1 .. Len(list), NEW j \in 1 .. Len(list), i # j
        PROVE  svc[list[i]].key # svc[list[j]].key
    BY <2>2 DEF ServiceInv, RegistryInv, OnePerKey
  <2>3. ASSUME NEW i \in 1 .. Len(list), NEW u \in ToSet(svc[list[i]].uses)
        PROVE  \E j \in i + 1 .. Len(list) : list[j] = u
    <3>1. list[i] \in Objects /\ svc[list[i]].uses \in Seq(Objects)
      BY <1>2, <1>3
    <3>2. Has(svc[list[i]].uses, u)
      BY <3>1, InSet
    <3>3. PICK n \in 1 .. Len(svc[list[i]].uses) : svc[list[i]].uses[n] = u
      BY <3>2 DEF Has
    <3> QED BY <3>3 DEF ServiceInv, RegistryInv, InFront, Behind
  <2> QED BY <2>1, <2>2, <2>3 DEF Ordered
<1>5. ASSUME NEW s \in Objects, NEW u \in ToSet(svc[s].uses) PROVE Has(list, u)
  <2>1. Has(svc[s].uses, u)
    BY <1>3, InSet
  <2> QED BY <2>1 DEF ServiceInv, RegistryInv, Placed, Has
<1>6. \A t \in Threads : \A s \in found[t] : Has(list, s) \/ phase = "destroy"
  BY DEF ServiceInv, RegistryInv, Referenced
<1>7. \A r \in Resolvers : Exists(r) => Has(list, impl[r].svc)
  BY DEF ServiceInv, Owned
<1>8. ASSUME NEW s \in Objects, HasThread(s)
      PROVE  phase # "forked" /\ svc[SchedulerOf(s)].state = "alive"
  <2>1. ~Empty(s)
    BY <1>8 DEF Empty, HasThread
  <2>2. Standing(s) /\ phase # "destroy" /\ svc[s].key = "resolver"
    BY <1>8, <2>1, BusyFacts
  <2>3. svc[SchedulerOf(s)].state = "alive"
    BY <2>2, SchedulerFacts DEF ServiceInv
  <2>4. phase # "forked"
    BY <1>8 DEF ServiceInv, Working
  <2> QED BY <2>3, <2>4
<1> QED BY <1>1, <1>4, <1>5, <1>6, <1>7, <1>8 DEF NothingOutlives

\* A context starts with its scheduler.
LEMMA InitEstablishes ==
  ASSUME Init
  PROVE  ServiceInv
<1>1. 1 \in Objects /\ "scheduler" \in Keys /\ "resolver" \in Keys
  BY RegistryAssumption, ResolverAssumption DEF Objects
<1>2. /\ list = <<1>> /\ phase = "open" /\ todo = <<>> /\ forks = 0
      /\ stack = [t \in Threads |-> <<>>] /\ found = [t \in Threads |-> {}]
  BY DEF Init, RegistryInit
<1>3. PICK x : x = [New("scheduler") EXCEPT !.state = "alive"]
  OBVIOUS
<1>4. x \in Service /\ x.key = "scheduler" /\ x.uses = <<>> /\ x.state = "alive"
  BY <1>1, <1>3, ServiceFacts DEF Service, New
<1>5. svc = [s \in Objects |-> IF s = 1 THEN x ELSE NoService]
  BY <1>3 DEF Init, RegistryInit
<1>6. svc \in [Objects -> Service] /\ svc[1] = x /\ \A s \in Objects \ {1} : svc[s] = NoService
  BY <1>1, <1>4, <1>5, ServiceFacts
<1>7. /\ \A s \in Objects : svc[s].uses = <<>> /\ svc[s].key # "resolver"
      /\ \A s : Has(list, s) <=> s = 1
      /\ Len(list) = 1 /\ list[1] = 1 /\ Len(<<>>) = 0
  <2>1. "resolver" # "scheduler" /\ "resolver" # "none"
    OBVIOUS
  <2> QED BY <1>2, <1>4, <1>6, <2>1, OneHas, ServiceFacts
<1>8. TypeRegistry
  <2>1. forks \in 0 .. MaxForks
    BY <1>2, RegistryAssumption
  <2> QED BY <1>1, <1>2, <1>6, <2>1 DEF TypeRegistry, Phases
<1>9. Frames /\ Apart /\ Quiet
  BY <1>2 DEF Frames, Apart, Shape, Quiet
<1>10. Placed
  BY <1>6, <1>7 DEF Placed
<1>11. Linked
  <2>1. Needs["scheduler"] = <<>>
    BY ResolverAssumption
  <2>2. Complete(svc[1])
    BY <1>1, <1>4, <1>6, <1>7, <2>1 DEF Complete
  <2> QED BY <1>4, <1>6, <1>7, <2>2 DEF Linked
<1>12. OnePerKey /\ InFront
  BY <1>1, <1>7 DEF OnePerKey, InFront
<1>13. Referenced /\ Walking
  BY <1>2, <1>9 DEF Referenced, Walking
<1>14. RegistryInv
  BY <1>8, <1>9, <1>10, <1>11, <1>12, <1>13 DEF RegistryInv
<1>15. /\ work = [s \in Objects |-> Idle] /\ op_queue_ = [s \in Objects |-> <<>>]
       /\ outstanding_work_ = 0 /\ impl = [r \in Resolvers |-> Gone]
       /\ op = [o \in Ops |-> Blank]
       /\ issued = 0 /\ done = {} /\ destroyed = {} /\ cancelled = {}
  BY DEF Init
<1>16. Idle \in Work /\ Gone \in Impl
  BY DEF Idle, Work, Gone, Impl, Program
<1>17. TypeResolver
  <2>1. 0 \in 0 .. MaxOps
    BY ResolverAssumption
  <2>2. Blank \in OpRecord
    BY DEF Blank, OpRecord, Answers
  <2> QED BY <1>15, <1>16, <2>1, <2>2 DEF TypeResolver
<1>18. \A s \in Objects : work[s] = Idle /\ Empty(s) /\ ~HasThread(s)
  BY <1>15 DEF Idle, Empty, HasThread
<1>19. Working
  BY <1>7, <1>18 DEF Working, Idle
<1>20. Owned
  BY <1>15 DEF Owned, Exists, Gone
<1> QED BY <1>14, <1>17, <1>19, <1>20 DEF ServiceInv

-----------------------------------------------------------------------------
(* Steps of the program and of the threads, while the registry rests.      *)

\* Work is only given to a service that may be called, and only by the program to one without.
LEMMA WorkingKept ==
  ASSUME ServiceInv, UNCHANGED registryVars,
         \A s \in Objects :
            /\ Standing(s) \/ (work'[s] = work[s] /\ op_queue_'[s] = op_queue_[s])
            /\ work'[s].open = work[s].open
            /\ work'[s].thread # "none" =>
                 work[s].thread # "none" \/ (phase = "open" /\ work[s].open /\ svc[s].key = "resolver")
            /\ work'[s].cur # NoOp => work'[s].thread = "running"
  PROVE  Working'
<1>1. list' = list /\ svc' = svc /\ phase' = phase /\ todo' = todo
  BY DEF registryVars, registry, walk
<1> SUFFICES ASSUME NEW s \in Objects
             PROVE  /\ Standing(s)' \/ Empty(s)'
                    /\ HasThread(s)' => work'[s].open /\ svc'[s].key = "resolver" /\ phase' # "forked"
                    /\ phase' = "fork_prepare" /\ HasThread(s)' => Has(todo', s)
                    /\ work'[s].cur # NoOp => work'[s].thread = "running"
                    /\ svc'[s].key = "resolver" /\ svc'[s].state = "alive" => work'[s].open
  BY DEF Working
<1>2. /\ Standing(s) \/ Empty(s)
      /\ HasThread(s) => work[s].open /\ svc[s].key = "resolver" /\ phase # "forked"
      /\ phase = "fork_prepare" /\ HasThread(s) => Has(todo, s)
      /\ svc[s].key = "resolver" /\ svc[s].state = "alive" => work[s].open
  BY DEF ServiceInv, Working
<1>3. Standing(s)' \/ Empty(s)'
  BY <1>1, <1>2 DEF Standing, Empty
<1>4. HasThread(s)' => HasThread(s) \/ (phase = "open" /\ work[s].open /\ svc[s].key = "resolver")
  BY DEF HasThread
<1> QED BY <1>1, <1>2, <1>3, <1>4

\* A resolver is gone, or it is where it was and so is its owner.
LEMMA OwnedKept ==
  ASSUME ServiceInv, phase' = phase,
         \A s \in Objects : Has(list, s) => Has(list', s) /\ svc'[s].key = svc[s].key,
         \A r \in Resolvers :
            \/ impl'[r].svc = NoObject
            \/ /\ impl'[r].svc = impl[r].svc /\ impl'[r].owner = impl[r].owner
               /\ impl[r].owner # Program => Within(impl[r].owner, work', op_queue_')
  PROVE  Owned'
<1> SUFFICES ASSUME NEW r \in Resolvers, impl'[r].svc # NoObject
             PROVE  /\ Has(list', impl'[r].svc) /\ svc'[impl'[r].svc].key = "resolver"
                    /\ impl'[r].owner # Program => InPlace(impl[r].owner)'
                    /\ impl'[r].owner = impl[r].owner
                    /\ phase' \in {"shutdown", "destroy"} => impl'[r].owner # Program
  BY DEF Owned, Exists, InPlace
<1>1. /\ impl'[r].svc = impl[r].svc /\ impl'[r].owner = impl[r].owner
      /\ impl[r].owner # Program => Within(impl[r].owner, work', op_queue_')
  OBVIOUS
<1>2. /\ Has(list, impl[r].svc) /\ svc[impl[r].svc].key = "resolver"
      /\ phase \in {"shutdown", "destroy"} => impl[r].owner # Program
  BY <1>1 DEF ServiceInv, Owned, Exists
<1>3. impl[r].svc \in Objects
  BY <1>2, Members DEF ServiceInv, RegistryInv
<1> QED BY <1>1, <1>2, <1>3 DEF InPlace

\* When the registry rests.
LEMMA RestKeeps ==
  ASSUME RegistryInv, UNCHANGED registryVars
  PROVE  RegistryInv' /\ list' = list /\ svc' = svc /\ phase' = phase /\ todo' = todo /\ found' = found
BY DEF registryVars, registry, walk, RegistryInv, TypeRegistry, Frames, Shape, OwnObject, Apart, Placed, InHand,
       Linked, OnePerKey, InFront, Behind, Referenced, Walking, Quiet

\* A resolver in the program's hands.
LEMMA HeldFacts ==
  ASSUME ServiceInv, phase = "open", NEW r \in Resolvers, Held(r)
  PROVE  /\ impl[r] \in Impl /\ impl[r].svc \in Objects /\ Standing(impl[r].svc)
         /\ svc[impl[r].svc].key = "resolver" /\ work[impl[r].svc].open /\ impl[r].owner = Program
<1>1. Has(list, impl[r].svc) /\ svc[impl[r].svc].key = "resolver"
  BY DEF ServiceInv, Owned, Held
<1>2. impl[r].svc \in Objects
  BY <1>1, Members DEF ServiceInv, RegistryInv
<1>3. svc[impl[r].svc].state = "alive"
  BY <1>1, <1>2 DEF ServiceInv, RegistryInv, Linked
<1> QED BY <1>1, <1>2, <1>3 DEF ServiceInv, Working, TypeResolver, Standing, Held

LEMMA QuietWork ==
  ASSUME ServiceInv, UNCHANGED <<registryVars, work, op_queue_>>
  PROVE  RegistryInv' /\ Working'
<1>1. RegistryInv'
  BY RestKeeps DEF ServiceInv
<1>2. Working'
  <2>1. \A s \in Objects : work[s].cur # NoOp => work[s].thread = "running"
    BY DEF ServiceInv, Working
  <2> QED BY <2>1, WorkingKept
<1> QED BY <1>1, <1>2

\* A resolver is constructed on a service that use_service() returned.
LEMMA CreateKeeps ==
  ASSUME ServiceInv, NEW t \in Threads, NEW r \in Resolvers, Create(t, r)
  PROVE  ServiceInv'
<1>1. PICK s \in found[t] : /\ svc[s].key = "resolver"
                            /\ impl' = [impl EXCEPT ![r] = [svc |-> s, token |-> FreshToken(r), owner |-> Program]]
  BY DEF Create
<1>2. /\ phase = "open" /\ UNCHANGED <<registryVars, work, op_queue_>>
      /\ UNCHANGED <<outstanding_work_, op, issued, done, destroyed, cancelled>>
  BY DEF Create, Open, ops
<1>3. /\ list' = list /\ svc' = svc /\ phase' = phase
  BY <1>2, RestKeeps DEF ServiceInv
<1>4. Has(list, s)
  BY <1>1, <1>2 DEF ServiceInv, RegistryInv, Referenced
<1>5. s \in Objects
  BY <1>4, Members DEF ServiceInv, RegistryInv
<1>6. PICK m : m = [svc |-> s, token |-> FreshToken(r), owner |-> Program]
  OBVIOUS
<1>7. m \in Impl /\ m.svc = s /\ m.owner = Program
  <2>1. FreshToken(r) \in Tokens
    BY FreshTokenFacts DEF ServiceInv
  <2> QED BY <1>5, <1>6, <2>1 DEF Impl
<1>8. impl \in [Resolvers -> Impl] /\ impl' = [impl EXCEPT ![r] = m]
  BY <1>1, <1>6 DEF ServiceInv, TypeResolver
<1>9. impl' \in [Resolvers -> Impl] /\ impl'[r] = m /\ \A q \in Resolvers \ {r} : impl'[q] = impl[q]
  BY <1>7, <1>8
<1>10. TypeResolver'
  BY <1>2, <1>9 DEF ServiceInv, TypeResolver
<1>11. Owned'
  <2> SUFFICES ASSUME NEW q \in Resolvers, Exists(q)'
               PROVE  /\ Has(list', impl'[q].svc) /\ svc'[impl'[q].svc].key = "resolver"
                      /\ impl'[q].owner # Program => InPlace(impl[q].owner)' /\ impl'[q].owner = impl[q].owner
                      /\ phase' \in {"shutdown", "destroy"} => impl'[q].owner # Program
    BY DEF Owned, InPlace
  <2>1. CASE q = r
    BY <1>1, <1>2, <1>3, <1>4, <1>7, <1>9, <2>1
  <2>2. CASE q # r
    <3>1. impl'[q] = impl[q] /\ Exists(q)
      BY <1>9, <2>2 DEF Exists
    <3> QED BY <1>2, <1>3, <3>1 DEF ServiceInv, Owned, InPlace
  <2> QED BY <2>1, <2>2
<1>12. RegistryInv' /\ Working'
  BY <1>2, QuietWork
<1> QED BY <1>10, <1>11, <1>12 DEF ServiceInv

LEMMA CancelKeeps ==
  ASSUME ServiceInv, NEW r \in Resolvers, Cancel(r) \/ DestroyResolver(r)
  PROVE  ServiceInv'
<1>1. /\ phase = "open" /\ Held(r) /\ UNCHANGED <<registryVars, work, op_queue_>>
      /\ UNCHANGED <<outstanding_work_, op, issued, done, destroyed>>
      /\ cancelled' = cancelled \cup OpsOf(r)
  BY DEF Cancel, DestroyResolver, Open
<1>2. PICK m : impl' = [impl EXCEPT ![r] = m] /\ m \in {[impl[r] EXCEPT !.token = FreshToken(r)], Gone}
  BY DEF Cancel, DestroyResolver
<1>3. m \in Impl /\ m.svc \in {impl[r].svc, NoObject} /\ m.owner = impl[r].owner
  <2>1. FreshToken(r) \in Tokens
    BY FreshTokenFacts DEF ServiceInv
  <2>2. impl[r] \in Impl /\ impl[r].owner = Program
    BY <1>1, HeldFacts
  <2>3. Gone \in Impl /\ Gone.svc = NoObject /\ Gone.owner = Program
    BY DEF Gone, Impl, Program
  <2>4. CASE m = Gone
    BY <2>2, <2>3, <2>4
  <2>5. CASE m = [impl[r] EXCEPT !.token = FreshToken(r)]
    BY <2>1, <2>2, <2>5 DEF Impl
  <2> QED BY <1>2, <2>4, <2>5
<1>4. impl \in [Resolvers -> Impl]
  BY DEF ServiceInv, TypeResolver
<1>5. impl' \in [Resolvers -> Impl] /\ impl'[r] = m /\ \A q \in Resolvers \ {r} : impl'[q] = impl[q]
  BY <1>2, <1>3, <1>4
<1>6. TypeResolver'
  <2>1. OpsOf(r) \subseteq Ops
    BY DEF OpsOf
  <2> QED BY <1>1, <1>5, <2>1 DEF ServiceInv, TypeResolver
<1>7. list' = list /\ svc' = svc /\ phase' = phase
  BY <1>1, RestKeeps DEF ServiceInv
<1>8. ASSUME NEW q \in Resolvers
      PROVE  \/ impl'[q].svc = NoObject
             \/ /\ impl'[q].svc = impl[q].svc /\ impl'[q].owner = impl[q].owner
                /\ impl[q].owner # Program => Within(impl[q].owner, work', op_queue_')
  <2>1. CASE q = r
    BY <1>1, <1>3, <1>5, <2>1 DEF Held
  <2>2. CASE impl[q].svc = NoObject
    BY <1>3, <1>5, <2>2
  <2>3. CASE q # r /\ impl[q].svc # NoObject
    BY <1>1, <1>5, <2>3 DEF ServiceInv, Owned, Exists, InPlace
  <2> QED BY <2>1, <2>2, <2>3
<1>9. Owned'
  BY <1>7, <1>8, OwnedKept
<1>10. RegistryInv' /\ Working'
  BY <1>1, QuietWork
<1> QED BY <1>6, <1>9, <1>10 DEF ServiceInv

LEMMA MoveKeeps ==
  ASSUME ServiceInv, NEW r \in Resolvers, NEW to \in Resolvers, Move(r, to)
  PROVE  ServiceInv'
<1>1. /\ phase = "open" /\ Held(r) /\ r # to /\ (Held(to) \/ ~Exists(to))
      /\ UNCHANGED <<registryVars, work, op_queue_>>
      /\ UNCHANGED <<outstanding_work_, issued, done, destroyed>>
      /\ cancelled' = cancelled \cup OpsOf(to)
      /\ op' = [o \in Ops |-> IF o \in OpsOf(r) THEN [op[o] EXCEPT !.res = to] ELSE op[o]]
  BY DEF Move, Open
<1>2. PICK m : m = [impl[r] EXCEPT !.token = NoToken]
  OBVIOUS
<1>3. impl[r] \in Impl /\ m \in Impl /\ m.svc = impl[r].svc /\ m.owner = Program /\ impl[r].owner = Program
  <2>1. impl[r] \in Impl /\ impl[r].owner = Program
    BY <1>1, HeldFacts
  <2> QED BY <1>2, <2>1 DEF Impl
<1>4. impl \in [Resolvers -> Impl]
  BY DEF ServiceInv, TypeResolver
<1>5. /\ impl' \in [Resolvers -> Impl] /\ impl'[r] = m /\ impl'[to] = impl[r]
      /\ \A q \in Resolvers \ {r, to} : impl'[q] = impl[q]
  <2>1. impl' = [impl EXCEPT ![to] = impl[r], ![r].token = NoToken]
    BY DEF Move
  <2>2. impl' = [impl EXCEPT ![to] = impl[r], ![r] = m]
    BY <1>1, <1>2, <1>4, <2>1
  <2> QED BY <1>1, <1>3, <1>4, <2>2
<1>6. TypeResolver'
  <2>1. OpsOf(to) \subseteq Ops
    BY DEF OpsOf
  <2>2. op' \in [Ops -> OpRecord]
    <3>1. ASSUME NEW o \in Ops
          PROVE  [op[o] EXCEPT !.res = to] \in OpRecord
      <4>1. op[o] \in OpRecord
        BY DEF ServiceInv, TypeResolver
      <4> QED BY <4>1 DEF OpRecord
    <3>2. \A o \in Ops : op[o] \in OpRecord
      BY DEF ServiceInv, TypeResolver
    <3> QED BY <1>1, <3>1, <3>2
  <2> QED BY <1>1, <1>5, <2>1, <2>2 DEF ServiceInv, TypeResolver
<1>7. list' = list /\ svc' = svc /\ phase' = phase
  BY <1>1, RestKeeps DEF ServiceInv
<1>8. Owned'
  <2> SUFFICES ASSUME NEW q \in Resolvers, Exists(q)'
               PROVE  /\ Has(list', impl'[q].svc) /\ svc'[impl'[q].svc].key = "resolver"
                      /\ impl'[q].owner # Program => Within(impl'[q].owner, work', op_queue_')
                      /\ phase' \in {"shutdown", "destroy"} => impl'[q].owner # Program
    BY DEF Owned, InPlace
  <2>1. CASE q \in {r, to}
    <3>1. impl'[q].svc = impl[r].svc /\ impl'[q].owner = Program
      BY <1>1, <1>3, <1>5, <2>1
    <3>2. Has(list, impl[r].svc) /\ svc[impl[r].svc].key = "resolver"
      BY <1>1 DEF ServiceInv, Owned, Held
    <3> QED BY <1>1, <1>7, <3>1, <3>2
  <2>2. CASE q \notin {r, to}
    <3>1. impl'[q] = impl[q] /\ Exists(q)
      BY <1>5, <2>2 DEF Exists
    <3> QED BY <1>1, <1>7, <3>1 DEF ServiceInv, Owned, InPlace
  <2> QED BY <2>1, <2>2
<1>9. RegistryInv' /\ Working'
  BY <1>1, QuietWork
<1> QED BY <1>6, <1>8, <1>9 DEF ServiceInv

LEMMA AsyncResolveKeeps ==
  ASSUME ServiceInv, NEW r \in Resolvers, NEW owned \in BOOLEAN, AsyncResolve(r, owned)
  PROVE  ServiceInv'
<1> DEFINE s == impl[r].svc
           o == issued + 1
<1>1. /\ phase = "open" /\ Held(r) /\ issued < MaxOps /\ issued' = o
      /\ UNCHANGED <<registryVars, op_queue_>> /\ UNCHANGED <<done, destroyed, cancelled>>
      /\ op' = [op EXCEPT ![o].token = impl[r].token, ![o].res = r]
      /\ outstanding_work_' = outstanding_work_ + 1
  BY DEF AsyncResolve, Open
<1>2. o \in Ops /\ o \in 0 .. MaxOps /\ o # NoOp /\ o # Program
  <2>1. issued \in 0 .. MaxOps /\ MaxOps \in Nat
    BY ResolverAssumption DEF ServiceInv, TypeResolver
  <2> QED BY <1>1, <2>1 DEF Ops, NoOp, Program
<1>3. /\ impl[r] \in Impl /\ s \in Objects /\ Standing(s) /\ svc[s].key = "resolver"
      /\ work[s].open /\ impl[r].owner = Program
  BY <1>1, HeldFacts
<1>4. /\ work \in [Objects -> Work] /\ impl \in [Resolvers -> Impl] /\ work[s] \in Work
      /\ op_queue_ \in [Objects -> Seq(Ops)]
  BY <1>3 DEF ServiceInv, TypeResolver
<1>5. PICK x : x = [work[s] EXCEPT !.queue = Append(@, o), !.thread = IF @ = "none" THEN "running" ELSE @]
  OBVIOUS
<1>6. /\ x \in Work /\ x.queue = Append(work[s].queue, o) /\ x.open = work[s].open /\ x.cur = work[s].cur
      /\ x.thread = IF work[s].thread = "none" THEN "running" ELSE work[s].thread
  <2>1. work[s].queue \in Seq(Ops)
    BY <1>4 DEF Work
  <2>2. Append(work[s].queue, o) \in Seq(Ops)
    BY <1>2, <2>1, AppendProperties
  <2> HIDE DEF o, s
  <2> QED BY <1>4, <1>5, <2>2 DEF Work
<1>7. work' \in [Objects -> Work] /\ work'[s] = x /\ \A u \in Objects \ {s} : work'[u] = work[u]
  <2>1. work' = [work EXCEPT ![s].queue = Append(@, o), ![s].thread = IF @ = "none" THEN "running" ELSE @]
    BY DEF AsyncResolve
  <2> HIDE DEF o, s
  <2>2. work' = [work EXCEPT ![s] = x]
    BY <1>3, <1>4, <1>5, <2>1
  <2> QED BY <1>3, <1>4, <1>6, <2>2
<1>8. PICK m : m = [impl[r] EXCEPT !.owner = IF owned THEN o ELSE Program]
  OBVIOUS
<1>9. m \in Impl /\ m.svc = s /\ m.owner \in {o, Program}
  BY <1>2, <1>3, <1>8 DEF Impl
<1>10. impl' \in [Resolvers -> Impl] /\ impl'[r] = m /\ \A q \in Resolvers \ {r} : impl'[q] = impl[q]
  <2>1. impl' = [impl EXCEPT ![r] = m]
    BY <1>8 DEF AsyncResolve
  <2> QED BY <1>4, <1>9, <2>1
<1>11. op' \in [Ops -> OpRecord]
  <2>1. op \in [Ops -> OpRecord]
    BY DEF ServiceInv, TypeResolver
  <2>2. impl[r].token \in Tokens \cup {NoToken}
    BY <1>3 DEF Impl
  <2> HIDE DEF o
  <2>0. op[o] \in OpRecord
    BY <1>2, <2>1
  <2>3. PICK z : z = [op[o] EXCEPT !.token = impl[r].token, !.res = r]
    OBVIOUS
  <2>4. z \in OpRecord
    BY <2>0, <2>2, <2>3 DEF OpRecord
  <2>5. op' = [op EXCEPT ![o] = z]
    BY <1>1, <1>2, <2>1, <2>3
  <2> QED BY <2>1, <2>4, <2>5
<1>12. TypeResolver'
  BY <1>1, <1>2, <1>7, <1>10, <1>11 DEF ServiceInv, TypeResolver
<1>13. RegistryInv' /\ list' = list /\ svc' = svc /\ phase' = phase
  BY <1>1, RestKeeps DEF ServiceInv
<1>14. Working'
  <2>1. ASSUME NEW u \in Objects
        PROVE  /\ Standing(u) \/ (work'[u] = work[u] /\ op_queue_'[u] = op_queue_[u])
               /\ work'[u].open = work[u].open
               /\ work'[u].thread # "none" =>
                    work[u].thread # "none" \/ (phase = "open" /\ work[u].open /\ svc[u].key = "resolver")
               /\ work'[u].cur # NoOp => work'[u].thread = "running"
    <3>1. work[u].cur # NoOp => work[u].thread = "running"
      BY DEF ServiceInv, Working
    <3>2. CASE u = s
      BY <1>1, <1>3, <1>6, <1>7, <3>1, <3>2
    <3>3. CASE u # s
      BY <1>1, <1>7, <3>1, <3>3
    <3> QED BY <3>2, <3>3
  <2> QED BY <1>1, <2>1, WorkingKept
<1>15. ASSUME NEW p, p = o \/ InPlace(p) PROVE Within(p, work', op_queue_')
  <2>1. Has(x.queue, o) /\ \A y : Has(work[s].queue, y) => Has(x.queue, y)
    <3>1. work[s].queue \in Seq(Ops)
      BY <1>4 DEF Work
    <3> QED BY <1>2, <1>6, <3>1, AppendHas
  <2>2. CASE p = o
    BY <1>3, <1>7, <2>1, <2>2 DEF Within
  <2>3. CASE InPlace(p)
    <3>1. PICK u \in Objects : Has(work[u].queue, p) \/ work[u].cur = p \/ Has(op_queue_[u], p)
      BY <2>3 DEF InPlace, Within
    <3>2. Has(work'[u].queue, p) \/ work'[u].cur = p \/ Has(op_queue_'[u], p)
      <4>1. CASE u = s
        BY <1>1, <1>6, <1>7, <2>1, <3>1, <4>1
      <4>2. CASE u # s
        BY <1>1, <1>7, <3>1, <4>2
      <4> QED BY <4>1, <4>2
    <3> QED BY <3>2 DEF Within
  <2> QED BY <1>15, <2>2, <2>3
<1>16. Owned'
  <2> SUFFICES ASSUME NEW q \in Resolvers, Exists(q)'
               PROVE  /\ Has(list', impl'[q].svc) /\ svc'[impl'[q].svc].key = "resolver"
                      /\ impl'[q].owner # Program => Within(impl'[q].owner, work', op_queue_')
                      /\ phase' \in {"shutdown", "destroy"} => impl'[q].owner # Program
    BY DEF Owned, InPlace
  <2>1. CASE q = r
    BY <1>1, <1>3, <1>9, <1>10, <1>13, <1>15, <2>1 DEF Standing
  <2>2. CASE q # r
    <3>1. impl'[q] = impl[q] /\ Exists(q)
      BY <1>10, <2>2 DEF Exists
    <3> QED BY <1>1, <1>13, <1>15, <3>1 DEF ServiceInv, Owned
  <2> QED BY <2>1, <2>2
<1> QED BY <1>12, <1>13, <1>14, <1>16 DEF ServiceInv

\* An operation goes from one place to another, or the thread of a service changes its state.
LEMMA OnePlaceKeeps ==
  ASSUME ServiceInv, UNCHANGED <<registryVars, impl>>, NEW s \in Objects, Standing(s), NEW x \in Work,
         work' = [work EXCEPT ![s] = x], x.open = work[s].open,
         x.thread # "none" => work[s].thread # "none", x.cur # NoOp => x.thread = "running",
         \A u \in Objects : Standing(u) \/ op_queue_'[u] = op_queue_[u],
         \A o \in Ops : InPlace(o) => Within(o, work', op_queue_')
  PROVE  RegistryInv' /\ Working' /\ Owned' /\ work' \in [Objects -> Work]
<1>1. work' \in [Objects -> Work] /\ work'[s] = x /\ \A u \in Objects \ {s} : work'[u] = work[u]
  BY DEF ServiceInv, TypeResolver
<1>2. RegistryInv' /\ list' = list /\ svc' = svc /\ phase' = phase
  BY RestKeeps DEF ServiceInv
<1>3. Working'
  <2>1. ASSUME NEW u \in Objects
        PROVE  /\ Standing(u) \/ (work'[u] = work[u] /\ op_queue_'[u] = op_queue_[u])
               /\ work'[u].open = work[u].open
               /\ work'[u].thread # "none" =>
                    work[u].thread # "none" \/ (phase = "open" /\ work[u].open /\ svc[u].key = "resolver")
               /\ work'[u].cur # NoOp => work'[u].thread = "running"
    <3>1. work[u].cur # NoOp => work[u].thread = "running"
      BY DEF ServiceInv, Working
    <3>2. CASE u = s
      BY <1>1, <3>2
    <3>3. CASE u # s
      BY <1>1, <3>1, <3>3
    <3> QED BY <3>2, <3>3
  <2> QED BY <2>1, WorkingKept
<1>4. Owned'
  <2>1. ASSUME NEW q \in Resolvers
        PROVE  \/ impl'[q].svc = NoObject
               \/ /\ impl'[q].svc = impl[q].svc /\ impl'[q].owner = impl[q].owner
                  /\ impl[q].owner # Program => Within(impl[q].owner, work', op_queue_')
    <3>1. impl[q] \in Impl
      BY DEF ServiceInv, TypeResolver
    <3>2. impl[q].owner # Program => impl[q].owner \in Ops
      BY <3>1 DEF Impl
    <3>3. impl[q].svc # NoObject /\ impl[q].owner # Program => InPlace(impl[q].owner)
      BY DEF ServiceInv, Owned, Exists
    <3> QED BY <3>2, <3>3
  <2> QED BY <1>2, <2>1, OwnedKept
<1> QED BY <1>1, <1>2, <1>3, <1>4

LEMMA TakeKeeps ==
  ASSUME ServiceInv, NEW s \in Objects, Take(s)
  PROVE  ServiceInv'
<1> DEFINE o == Head(work[s].queue)
<1>1. /\ work[s].thread = "running" /\ work[s].cur = NoOp /\ work[s].queue # <<>>
      /\ UNCHANGED <<registryVars, impl>>
      /\ UNCHANGED <<op_queue_, outstanding_work_, issued, done, destroyed>>
      /\ cancelled' = cancelled \ {o}
      /\ op' = [op EXCEPT ![o] =
                  [Blank EXCEPT !.answer = IF Expired(op[o].token) THEN "aborted" ELSE "result"]]
  BY DEF Take
<1>2. /\ work \in [Objects -> Work] /\ work[s] \in Work /\ work[s].queue \in Seq(Ops)
      /\ op \in [Ops -> OpRecord]
  BY DEF ServiceInv, TypeResolver, Work
<1>3. o \in Ops /\ o # NoOp /\ Tail(work[s].queue) \in Seq(Ops)
  <2>1. o \in Ops /\ Tail(work[s].queue) \in Seq(Ops)
    BY <1>1, <1>2, TailFacts
  <2> QED BY <2>1 DEF Ops, NoOp
<1>4. PICK x : x = [work[s] EXCEPT !.queue = Tail(@), !.cur = o]
  OBVIOUS
<1>5. /\ x \in Work /\ x.queue = Tail(work[s].queue) /\ x.cur = o
      /\ x.open = work[s].open /\ x.thread = "running"
  <2> HIDE DEF o
  <2> QED BY <1>1, <1>2, <1>3, <1>4 DEF Work
<1>6. work' = [work EXCEPT ![s] = x]
  <2>1. work' = [work EXCEPT ![s].queue = Tail(@), ![s].cur = o]
    BY DEF Take
  <2> HIDE DEF o
  <2> QED BY <1>2, <1>4, <2>1
<1>7. work'[s] = x /\ \A u \in Objects \ {s} : work'[u] = work[u]
  BY <1>2, <1>6
<1>8. Standing(s)
  <2>1. ~Empty(s)
    BY <1>1 DEF Empty
  <2> QED BY <2>1, BusyFacts
<1>9. ASSUME NEW p \in Ops, InPlace(p) PROVE Within(p, work', op_queue_')
  <2>1. PICK u \in Objects : Has(work[u].queue, p) \/ work[u].cur = p \/ Has(op_queue_[u], p)
    BY <1>9 DEF InPlace, Within
  <2>2. \A y : Has(work[s].queue, y) => y = o \/ Has(Tail(work[s].queue), y)
    BY <1>1, <1>2, TailHas
  <2>3. p # NoOp
    BY DEF Ops, NoOp
  <2>4. Has(work'[u].queue, p) \/ work'[u].cur = p \/ Has(op_queue_'[u], p)
    <3> HIDE DEF o
    <3>1. CASE u = s
      BY <1>1, <1>5, <1>7, <2>1, <2>2, <2>3, <3>1
    <3>2. CASE u # s
      BY <1>1, <1>7, <2>1, <3>2
    <3> QED BY <3>1, <3>2
  <2> QED BY <2>4 DEF Within
<1>10. RegistryInv' /\ Working' /\ Owned' /\ work' \in [Objects -> Work]
  <2>1. \A u \in Objects : Standing(u) \/ op_queue_'[u] = op_queue_[u]
    BY <1>1
  <2>2. x.thread # "none" => work[s].thread # "none"
    BY <1>1
  <2> QED BY <1>1, <1>5, <1>6, <1>8, <1>9, <2>1, <2>2, OnePlaceKeeps
<1>11. op' \in [Ops -> OpRecord]
  <2>1. Blank \in OpRecord
    BY DEF Blank, OpRecord, Answers
  <2>2. PICK z : z = [Blank EXCEPT !.answer = IF Expired(op[o].token) THEN "aborted" ELSE "result"]
    OBVIOUS
  <2>3. z \in OpRecord
    BY <2>1, <2>2 DEF Answers, OpRecord
  <2>4. op' = [op EXCEPT ![o] = z]
    BY <1>1, <2>2
  <2> HIDE DEF o
  <2> QED BY <1>2, <1>3, <2>3, <2>4
<1>12. TypeResolver'
  BY <1>1, <1>10, <1>11 DEF ServiceInv, TypeResolver
<1> QED BY <1>10, <1>12 DEF ServiceInv

\* The scheduler that gets the operation may still be called.
LEMMA PassBackKeeps ==
  ASSUME ServiceInv, NEW s \in Objects, PassBack(s)
  PROVE  ServiceInv'
<1> DEFINE h == SchedulerOf(s)
           o == work[s].cur
<1>1. /\ o # NoOp /\ UNCHANGED <<registryVars, impl>> /\ UNCHANGED <<outstanding_work_, ops>>
      /\ op_queue_' = [op_queue_ EXCEPT ![h] = Append(@, o)]
      /\ work' = [work EXCEPT ![s].cur = NoOp]
  BY DEF PassBack
<1>2. /\ work \in [Objects -> Work] /\ work[s] \in Work /\ o \in Ops
      /\ op_queue_ \in [Objects -> Seq(Ops)]
  <2>1. work \in [Objects -> Work] /\ op_queue_ \in [Objects -> Seq(Ops)]
    BY DEF ServiceInv, TypeResolver
  <2> QED BY <1>1, <2>1 DEF Work
<1>3. work[s].thread = "running" /\ HasThread(s) /\ ~Empty(s)
  BY <1>1 DEF ServiceInv, Working, HasThread, Empty
<1>4. Standing(s) /\ phase # "destroy" /\ svc[s].key = "resolver"
  BY <1>3, BusyFacts
<1>5. h \in Objects /\ Standing(h)
  BY <1>4, SchedulerFacts DEF ServiceInv
<1> HIDE DEF h
<1>6. PICK x : x = [work[s] EXCEPT !.cur = NoOp]
  OBVIOUS
<1>7. x \in Work /\ x.queue = work[s].queue /\ x.cur = NoOp /\ x.open = work[s].open /\ x.thread = "running"
  BY <1>2, <1>3, <1>6 DEF Work
<1>8. work' = [work EXCEPT ![s] = x]
  BY <1>1, <1>2, <1>6
<1>9. /\ work'[s] = x /\ \A u \in Objects \ {s} : work'[u] = work[u]
      /\ op_queue_' \in [Objects -> Seq(Ops)] /\ op_queue_'[h] = Append(op_queue_[h], o)
      /\ \A u \in Objects \ {h} : op_queue_'[u] = op_queue_[u]
  <2>1. Append(op_queue_[h], o) \in Seq(Ops)
    BY <1>2, <1>5, AppendProperties
  <2> HIDE DEF o
  <2> QED BY <1>1, <1>2, <1>5, <1>8, <2>1
<1>10. Has(op_queue_'[h], o) /\ \A y : Has(op_queue_[h], y) => Has(op_queue_'[h], y)
  BY <1>2, <1>5, <1>9, AppendHas
<1>11. ASSUME NEW p \in Ops, InPlace(p) PROVE Within(p, work', op_queue_')
  <2>1. PICK u \in Objects : Has(work[u].queue, p) \/ work[u].cur = p \/ Has(op_queue_[u], p)
    BY <1>11 DEF InPlace, Within
  <2>2. CASE u = s /\ work[u].cur = p
    BY <1>5, <1>10, <2>2 DEF Within
  <2>3. CASE ~(u = s /\ work[u].cur = p)
    <3>1. Has(op_queue_[u], p) => Has(op_queue_'[u], p)
      BY <1>9, <1>10
    <3>2. Has(work[u].queue, p) => Has(work'[u].queue, p)
      BY <1>7, <1>9
    <3>3. work[u].cur = p => work'[u].cur = p
      BY <1>9, <2>3
    <3> QED BY <2>1, <3>1, <3>2, <3>3 DEF Within
  <2> QED BY <2>2, <2>3
<1>12. RegistryInv' /\ Working' /\ Owned' /\ work' \in [Objects -> Work]
  <2>1. \A u \in Objects : Standing(u) \/ op_queue_'[u] = op_queue_[u]
    BY <1>5, <1>9
  <2>2. (x.thread # "none" => work[s].thread # "none") /\ (x.cur # NoOp => x.thread = "running")
    BY <1>3, <1>7
  <2> QED BY <1>1, <1>4, <1>7, <1>8, <1>11, <2>1, <2>2, OnePlaceKeeps
<1>13. TypeResolver'
  BY <1>1, <1>9, <1>12 DEF ServiceInv, TypeResolver, ops
<1> QED BY <1>12, <1>13 DEF ServiceInv

LEMMA ThreadKeeps ==
  ASSUME ServiceInv, NEW s \in Objects, ThreadEnds(s) \/ StopWork(s)
  PROVE  ServiceInv'
<1>1. UNCHANGED <<registryVars, impl>> /\ UNCHANGED <<op_queue_, outstanding_work_, ops>>
  BY DEF ThreadEnds, StopWork
<1>2. work \in [Objects -> Work] /\ work[s] \in Work
  BY DEF ServiceInv, TypeResolver
<1>3. PICK x : /\ work' = [work EXCEPT ![s] = x]
               /\ \/ work[s].thread = "running" /\ work[s].cur = NoOp /\ x = [work[s] EXCEPT !.thread = "ended"]
                  \/ x = [work[s] EXCEPT !.stopped = TRUE]
  BY DEF ThreadEnds, StopWork
<1>4. /\ x \in Work /\ x.queue = work[s].queue /\ x.cur = work[s].cur /\ x.open = work[s].open
      /\ x.thread # "none" => work[s].thread # "none"
      /\ x.cur # NoOp => x.thread = "running"
  <2>1. work[s].cur # NoOp => work[s].thread = "running"
    BY DEF ServiceInv, Working
  <2>2. CASE work[s].cur = NoOp /\ work[s].thread = "running" /\ x = [work[s] EXCEPT !.thread = "ended"]
    BY <1>2, <2>2 DEF Work
  <2>3. CASE x = [work[s] EXCEPT !.stopped = TRUE]
    BY <1>2, <2>1, <2>3 DEF Work
  <2> QED BY <1>3, <2>2, <2>3
<1>5. work'[s] = x /\ \A u \in Objects \ {s} : work'[u] = work[u]
  BY <1>2, <1>3
<1>6. ASSUME NEW p \in Ops, InPlace(p) PROVE Within(p, work', op_queue_')
  <2>1. \A u \in Objects : work'[u].queue = work[u].queue /\ work'[u].cur = work[u].cur
    BY <1>4, <1>5
  <2> QED BY <1>1, <1>6, <2>1 DEF InPlace, Within
<1>7. Standing(s)
  <2>1. CASE ThreadEnds(s)
    <3>1. ~Empty(s)
      BY <2>1 DEF ThreadEnds, Empty
    <3> QED BY <3>1, BusyFacts
  <2>2. CASE StopWork(s)
    <3>1. todo # <<>> /\ s = Head(todo)
      BY <2>2 DEF StopWork, Visiting
    <3>2. Has(list, s) /\ Has(todo, s)
      BY <3>1, TodoFacts DEF ServiceInv
    <3> QED BY <3>2 DEF Standing
  <2> QED BY <2>1, <2>2
<1>8. RegistryInv' /\ Working' /\ Owned' /\ work' \in [Objects -> Work]
  <2>1. \A u \in Objects : Standing(u) \/ op_queue_'[u] = op_queue_[u]
    BY <1>1
  <2> QED BY <1>1, <1>3, <1>4, <1>6, <1>7, <2>1, OnePlaceKeeps
<1>9. TypeResolver'
  BY <1>1, <1>8 DEF ServiceInv, TypeResolver, ops
<1> QED BY <1>8, <1>9 DEF ServiceInv

-----------------------------------------------------------------------------
(* Handlers that run or are destroyed, and the resolvers they own.         *)

\* A resolver that is left has an owner that is.
LEMMA OrphanFacts ==
  ASSUME TypeResolver, NEW gone \in SUBSET Ops
  PROVE  /\ WithoutOwner(gone) \in [Resolvers -> Impl]
         /\ CancelledWith(gone) \subseteq Ops
         /\ Blank \in OpRecord /\ op \in [Ops -> OpRecord]
         /\ \A r \in Resolvers : \/ WithoutOwner(gone)[r].svc = NoObject
                                 \/ WithoutOwner(gone)[r] = impl[r] /\ impl[r].owner \notin gone
<1>1. impl \in [Resolvers -> Impl] /\ cancelled \subseteq Ops /\ op \in [Ops -> OpRecord]
  BY DEF TypeResolver
<1>2. Gone \in Impl /\ Gone.svc = NoObject
  BY DEF Gone, Impl, Program
<1>3. WithoutOwner(gone) \in [Resolvers -> Impl]
  BY <1>1, <1>2 DEF WithoutOwner
<1>4. CancelledWith(gone) \subseteq Ops
  BY <1>1 DEF CancelledWith, OpsOf
<1>5. ASSUME NEW r \in Resolvers
      PROVE  \/ WithoutOwner(gone)[r].svc = NoObject
             \/ WithoutOwner(gone)[r] = impl[r] /\ impl[r].owner \notin gone
  <2>1. CASE r \in Orphans(gone)
    BY <1>2, <2>1 DEF WithoutOwner
  <2>2. CASE r \notin Orphans(gone)
    <3>1. WithoutOwner(gone)[r] = impl[r]
      BY <2>2 DEF WithoutOwner
    <3> QED BY <2>2, <3>1 DEF Orphans, Exists
  <2> QED BY <2>1, <2>2
<1>6. Blank \in OpRecord
  BY DEF Blank, OpRecord, Answers
<1> QED BY <1>1, <1>3, <1>4, <1>5, <1>6

LEMMA RunHandlerKeeps ==
  ASSUME ServiceInv, RunHandler
  PROVE  ServiceInv'
<1>1. PICK s \in Registered("scheduler") :
         LET o == Head(op_queue_[s]) IN
         /\ op_queue_[s] # <<>>
         /\ op_queue_' = [op_queue_ EXCEPT ![s] = Tail(@)]
         /\ done' = done \cup {o}
         /\ op' = [op EXCEPT ![o] = Blank]
         /\ impl' = WithoutOwner({o}) /\ cancelled' = CancelledWith({o})
  BY DEF RunHandler
<1> DEFINE o == Head(op_queue_[s])
<1>2. /\ phase = "open" /\ UNCHANGED registryVars /\ UNCHANGED <<work, issued, destroyed>>
      /\ outstanding_work_' = outstanding_work_ - 1
  BY DEF RunHandler, Open
<1>3. s \in Objects /\ Has(list, s)
  BY Members DEF ServiceInv, RegistryInv
<1>4. op_queue_ \in [Objects -> Seq(Ops)] /\ op_queue_[s] \in Seq(Ops) /\ op_queue_[s] # <<>>
  BY <1>1, <1>3 DEF ServiceInv, TypeResolver
<1>5. /\ o \in Ops /\ Tail(op_queue_[s]) \in Seq(Ops)
      /\ \A y : Has(op_queue_[s], y) => y = o \/ Has(Tail(op_queue_[s]), y)
  BY <1>4, TailFacts, TailHas
<1>6. /\ op_queue_' = [op_queue_ EXCEPT ![s] = Tail(@)] /\ done' = done \cup {o}
      /\ op' = [op EXCEPT ![o] = Blank] /\ impl' = WithoutOwner({o}) /\ cancelled' = CancelledWith({o})
  BY <1>1
<1> HIDE DEF o
<1>7. /\ op_queue_' \in [Objects -> Seq(Ops)] /\ op_queue_'[s] = Tail(op_queue_[s])
      /\ \A u \in Objects \ {s} : op_queue_'[u] = op_queue_[u]
  BY <1>3, <1>4, <1>5, <1>6
<1>8. /\ impl' \in [Resolvers -> Impl] /\ cancelled' \subseteq Ops
      /\ Blank \in OpRecord /\ op \in [Ops -> OpRecord]
      /\ \A r \in Resolvers : impl'[r].svc = NoObject \/ (impl'[r] = impl[r] /\ impl[r].owner # o)
  BY <1>5, <1>6, OrphanFacts DEF ServiceInv
<1>9. op' \in [Ops -> OpRecord]
  BY <1>5, <1>6, <1>8
<1>10. TypeResolver'
  <2>1. work \in [Objects -> Work] /\ outstanding_work_ - 1 \in Int /\ issued \in 0 .. MaxOps
        /\ done \cup {o} \subseteq Ops /\ destroyed \subseteq Ops
    BY <1>5 DEF ServiceInv, TypeResolver
  <2> QED BY <1>2, <1>6, <1>7, <1>8, <1>9, <2>1 DEF TypeResolver
<1>11. RegistryInv' /\ list' = list /\ svc' = svc /\ phase' = phase
  BY <1>2, RestKeeps DEF ServiceInv
<1>12. Working'
  <2>1. \A u \in Objects : work[u].cur # NoOp => work[u].thread = "running"
    BY DEF ServiceInv, Working
  <2>2. \A u \in Objects : Standing(u) \/ op_queue_'[u] = op_queue_[u]
    BY <1>2, <1>3, <1>7 DEF Standing
  <2> QED BY <1>2, <2>1, <2>2, WorkingKept
<1>13. ASSUME NEW p, p # o, InPlace(p) PROVE Within(p, work', op_queue_')
  <2>1. PICK u \in Objects : Has(work[u].queue, p) \/ work[u].cur = p \/ Has(op_queue_[u], p)
    BY <1>13 DEF InPlace, Within
  <2>2. Has(op_queue_[u], p) => Has(op_queue_'[u], p)
    BY <1>5, <1>7, <1>13
  <2> QED BY <1>2, <2>1, <2>2 DEF Within
<1>14. Owned'
  <2>1. ASSUME NEW q \in Resolvers
        PROVE  \/ impl'[q].svc = NoObject
               \/ /\ impl'[q].svc = impl[q].svc /\ impl'[q].owner = impl[q].owner
                  /\ impl[q].owner # Program => Within(impl[q].owner, work', op_queue_')
    <3> SUFFICES ASSUME impl'[q].svc # NoObject
                 PROVE  /\ impl'[q].svc = impl[q].svc /\ impl'[q].owner = impl[q].owner
                        /\ impl[q].owner # Program => Within(impl[q].owner, work', op_queue_')
      OBVIOUS
    <3>1. impl'[q] = impl[q] /\ impl[q].owner # o /\ Exists(q)
      BY <1>8 DEF Exists
    <3>2. impl[q].owner # Program => InPlace(impl[q].owner)
      BY <3>1 DEF ServiceInv, Owned
    <3> QED BY <1>13, <3>1, <3>2
  <2> QED BY <1>11, <2>1, OwnedKept
<1> QED BY <1>10, <1>11, <1>12, <1>14 DEF ServiceInv

\* When shutdown() or a destructor has destroyed the operations in gone.
LEMMA DestroyOpsFacts ==
  ASSUME TypeResolver, NEW gone \in SUBSET Ops, DestroyOps(gone)
  PROVE  /\ op' \in [Ops -> OpRecord] /\ issued' \in 0 .. MaxOps
         /\ done' \subseteq Ops /\ destroyed' \subseteq Ops /\ cancelled' \subseteq Ops
         /\ impl' \in [Resolvers -> Impl]
         /\ \A r \in Resolvers : impl'[r].svc = NoObject \/ (impl'[r] = impl[r] /\ impl[r].owner \notin gone)
<1>1. /\ destroyed' = destroyed \cup gone /\ issued' = issued /\ done' = done
      /\ op' = [o \in Ops |-> IF o \in gone THEN Blank ELSE op[o]]
      /\ impl' = WithoutOwner(gone) /\ cancelled' = CancelledWith(gone) \ gone
  BY DEF DestroyOps
<1>2. op' \in [Ops -> OpRecord]
  BY <1>1, OrphanFacts
<1> QED BY <1>1, <1>2, OrphanFacts DEF TypeResolver

-----------------------------------------------------------------------------
(* Forks, shutdown and destruction.                                        *)

\* A visited service has no thread any more.
LEMMA VisitKeeps ==
  ASSUME ServiceInv, NEW s \in Objects, Visiting(s), Visited, work' \in [Objects -> Work],
         \A u \in Objects \ {s} : work'[u] = work[u] /\ op_queue_'[u] = op_queue_[u],
         work'[s].thread = "none" /\ work'[s].cur = NoOp,
         phase = "shutdown" => Empty(s)', phase # "shutdown" => work'[s].open = work[s].open
  PROVE  /\ RegistryInv' /\ Working' /\ phase' = phase
         /\ \A u \in Objects : Has(list, u) => Has(list', u) /\ svc'[u].key = svc[u].key
<1>1. todo # <<>> /\ s = Head(todo)
  BY DEF Visiting
<1>2. /\ RegistryInv' /\ list' = list /\ phase' = phase /\ todo' = Tail(todo)
      /\ \A u \in Objects : /\ svc'[u].key = svc[u].key /\ svc'[u].uses = svc[u].uses
                            /\ svc'[u].state = "alive" =>
                                 svc[u].state = "alive" /\ (phase = "shutdown" => u # s)
  BY <1>1, VisitedKeeps DEF ServiceInv
<1>3. /\ phase \in {"fork_prepare", "forked", "shutdown"} /\ Has(list, s)
      /\ \A u : Has(todo, u) => Has(Tail(todo), u) \/ u = s
  BY <1>1, TodoFacts DEF ServiceInv
<1>4. Working'
  <2> SUFFICES ASSUME NEW u \in Objects
               PROVE  /\ Standing(u)' \/ Empty(u)'
                      /\ HasThread(u)' => work'[u].open /\ svc'[u].key = "resolver" /\ phase' # "forked"
                      /\ phase' = "fork_prepare" /\ HasThread(u)' => Has(todo', u)
                      /\ work'[u].cur # NoOp => work'[u].thread = "running"
                      /\ svc'[u].key = "resolver" /\ svc'[u].state = "alive" => work'[u].open
    BY DEF Working
  <2>1. /\ Standing(u) \/ Empty(u)
        /\ HasThread(u) => work[u].open /\ svc[u].key = "resolver" /\ phase # "forked"
        /\ phase = "fork_prepare" /\ HasThread(u) => Has(todo, u)
        /\ work[u].cur # NoOp => work[u].thread = "running"
        /\ svc[u].key = "resolver" /\ svc[u].state = "alive" => work[u].open
    BY DEF ServiceInv, Working
  <2>2. CASE u = s
    <3>1. ~HasThread(u)'
      BY <2>2 DEF HasThread
    <3>2. Standing(u)' \/ Empty(u)'
      BY <1>2, <1>3, <2>2 DEF Standing
    <3>3. svc'[u].key = "resolver" /\ svc'[u].state = "alive" => work'[u].open
      BY <1>2, <2>1, <2>2
    <3> QED BY <2>2, <3>1, <3>2, <3>3
  <2>3. CASE u # s
    <3>1. work'[u] = work[u] /\ op_queue_'[u] = op_queue_[u]
      BY <2>3
    <3>2. HasThread(u)' <=> HasThread(u)
      BY <3>1 DEF HasThread
    <3>3. Standing(u) => Standing(u)'
      BY <1>2, <1>3, <2>3 DEF Standing
    <3>4. Empty(u) => Empty(u)'
      BY <3>1 DEF Empty
    <3>5. Has(todo, u) => Has(todo', u)
      BY <1>2, <1>3, <2>3
    <3> QED BY <1>2, <2>1, <3>1, <3>2, <3>3, <3>4, <3>5
  <2> QED BY <2>2, <2>3
<1> QED BY <1>2, <1>4

\* A service that has joined its thread has no operation in hand.
LEMMA JoinedFacts ==
  ASSUME ServiceInv, NEW s \in Objects, Visiting(s), MustStop(s) => Joined(s)
  PROVE  /\ work[s].cur = NoOp /\ Standing(s) /\ phase \in {"fork_prepare", "forked", "shutdown"}
         /\ phase = "forked" => work[s].thread = "none"
<1>1. /\ phase \in {"fork_prepare", "forked", "shutdown"} /\ Standing(s)
  BY TodoFacts DEF ServiceInv, Visiting, Standing
<1>2. /\ HasThread(s) => work[s].open /\ phase # "forked"
      /\ work[s].cur # NoOp => work[s].thread = "running"
  BY DEF ServiceInv, Working
<1> QED BY <1>1, <1>2 DEF MustStop, Joined, HasThread

LEMMA ForkKeeps ==
  ASSUME ServiceInv, NEW s \in Objects, ForkJoin(s) \/ ForkResume(s)
  PROVE  ServiceInv'
<1>1. /\ Visiting(s) /\ Visited /\ UNCHANGED <<op_queue_, outstanding_work_, impl, ops>>
      /\ phase \in {"fork_prepare", "forked"} /\ (MustStop(s) => Joined(s))
  BY DEF ForkJoin, ForkResume, MustStop
<1>2. /\ work[s].cur = NoOp /\ (phase = "forked" => work[s].thread = "none")
  BY <1>1, JoinedFacts
<1>3. work \in [Objects -> Work] /\ work[s] \in Work
  BY DEF ServiceInv, TypeResolver
<1>4. PICK x \in Work : /\ work' = [work EXCEPT ![s] = x]
                        /\ x.thread = "none" /\ x.cur = NoOp /\ x.open = work[s].open /\ x.queue = work[s].queue
  <2>1. CASE ForkJoin(s)
    <3>1. PICK x : x = [work[s] EXCEPT !.thread = "none"]
      OBVIOUS
    <3>2. work' = [work EXCEPT ![s] = x]
      BY <2>1, <3>1 DEF ForkJoin
    <3>3. x \in Work /\ x.thread = "none" /\ x.cur = NoOp /\ x.open = work[s].open /\ x.queue = work[s].queue
      BY <1>2, <1>3, <3>1 DEF Work
    <3> QED BY <3>2, <3>3
  <2>2. CASE ForkResume(s)
    <3>1. work[s].thread = "none"
      BY <1>2, <2>2 DEF ForkResume
    <3>2. PICK x : x = [work[s] EXCEPT !.stopped = FALSE]
      OBVIOUS
    <3>3. work' = [work EXCEPT ![s] = x]
      BY <2>2, <3>1, <3>2 DEF ForkResume, Restarted, HasThread
    <3>4. x \in Work /\ x.thread = "none" /\ x.cur = NoOp /\ x.open = work[s].open /\ x.queue = work[s].queue
      BY <1>2, <1>3, <3>1, <3>2 DEF Work
    <3> QED BY <3>3, <3>4
  <2> QED BY <2>1, <2>2
<1>5. work' \in [Objects -> Work] /\ work'[s] = x /\ \A u \in Objects \ {s} : work'[u] = work[u]
  BY <1>3, <1>4
<1>6. /\ RegistryInv' /\ Working' /\ phase' = phase
      /\ \A u \in Objects : Has(list, u) => Has(list', u) /\ svc'[u].key = svc[u].key
  BY <1>1, <1>4, <1>5, VisitKeeps
<1>7. TypeResolver'
  BY <1>1, <1>5 DEF ServiceInv, TypeResolver, ops
<1>8. ASSUME NEW p, InPlace(p) PROVE Within(p, work', op_queue_')
  <2>1. \A u \in Objects : work'[u].queue = work[u].queue /\ work'[u].cur = work[u].cur
    BY <1>2, <1>4, <1>5
  <2> QED BY <1>1, <1>8, <2>1 DEF InPlace, Within
<1>9. Owned'
  <2>1. ASSUME NEW q \in Resolvers
        PROVE  \/ impl'[q].svc = NoObject
               \/ /\ impl'[q].svc = impl[q].svc /\ impl'[q].owner = impl[q].owner
                  /\ impl[q].owner # Program => Within(impl[q].owner, work', op_queue_')
    BY <1>1, <1>8 DEF ServiceInv, Owned, Exists
  <2> QED BY <1>6, <2>1, OwnedKept
<1> QED BY <1>6, <1>7, <1>9 DEF ServiceInv

\* The handlers that are destroyed take the resolvers they own with them.
LEMMA ShutdownServiceKeeps ==
  ASSUME ServiceInv, NEW s \in Objects, ShutdownService(s)
  PROVE  ServiceInv'
<1> DEFINE gone == ToSet(work[s].queue) \cup ToSet(op_queue_[s])
<1>1. /\ Visiting(s) /\ Visited /\ phase = "shutdown" /\ (MustStop(s) => Joined(s)) /\ DestroyOps(gone)
      /\ work' = [work EXCEPT ![s] = Idle] /\ op_queue_' = [op_queue_ EXCEPT ![s] = <<>>]
      /\ outstanding_work_' = outstanding_work_
  BY DEF ShutdownService
<1>2. /\ work \in [Objects -> Work] /\ work[s].queue \in Seq(Ops)
      /\ op_queue_ \in [Objects -> Seq(Ops)] /\ op_queue_[s] \in Seq(Ops)
      /\ Idle \in Work /\ <<>> \in Seq(Ops)
  <2>1. Idle \in Work
    BY DEF Idle, Work
  <2> QED BY <2>1 DEF ServiceInv, TypeResolver, Work
<1>3. /\ gone \in SUBSET Ops /\ \A y : Has(work[s].queue, y) \/ Has(op_queue_[s], y) => y \in gone
  <2>1. ToSet(work[s].queue) \subseteq Ops /\ ToSet(op_queue_[s]) \subseteq Ops
    BY <1>2 DEF ToSet
  <2> QED BY <1>2, <2>1, InSet
<1>4. work[s].cur = NoOp
  BY <1>1, JoinedFacts
<1>5. /\ work' \in [Objects -> Work] /\ work'[s] = Idle /\ \A u \in Objects \ {s} : work'[u] = work[u]
      /\ op_queue_' \in [Objects -> Seq(Ops)] /\ op_queue_'[s] = <<>>
      /\ \A u \in Objects \ {s} : op_queue_'[u] = op_queue_[u]
  BY <1>1, <1>2
<1>6. Empty(s)' /\ Idle.thread = "none" /\ Idle.cur = NoOp
  BY <1>5 DEF Empty, Idle
<1> HIDE DEF gone
<1>7. /\ RegistryInv' /\ Working' /\ phase' = phase
      /\ \A u \in Objects : Has(list, u) => Has(list', u) /\ svc'[u].key = svc[u].key
  BY <1>1, <1>5, <1>6, VisitKeeps
<1>8. /\ op' \in [Ops -> OpRecord] /\ issued' \in 0 .. MaxOps
      /\ done' \subseteq Ops /\ destroyed' \subseteq Ops /\ cancelled' \subseteq Ops
      /\ impl' \in [Resolvers -> Impl]
      /\ \A r \in Resolvers : impl'[r].svc = NoObject \/ (impl'[r] = impl[r] /\ impl[r].owner \notin gone)
  BY <1>1, <1>3, DestroyOpsFacts DEF ServiceInv
<1>9. TypeResolver'
  <2>1. outstanding_work_' \in Int
    BY <1>1 DEF ServiceInv, TypeResolver
  <2> QED BY <1>5, <1>8, <2>1 DEF TypeResolver
<1>10. ASSUME NEW p \in Ops, p \notin gone, InPlace(p) PROVE Within(p, work', op_queue_')
  <2>1. PICK u \in Objects : Has(work[u].queue, p) \/ work[u].cur = p \/ Has(op_queue_[u], p)
    BY <1>10 DEF InPlace, Within
  <2>2. p # NoOp
    BY DEF Ops, NoOp
  <2>3. u # s
    BY <1>3, <1>4, <1>10, <2>1, <2>2
  <2> QED BY <1>5, <2>1, <2>3 DEF Within
<1>11. Owned'
  <2>1. ASSUME NEW q \in Resolvers
        PROVE  \/ impl'[q].svc = NoObject
               \/ /\ impl'[q].svc = impl[q].svc /\ impl'[q].owner = impl[q].owner
                  /\ impl[q].owner # Program => Within(impl[q].owner, work', op_queue_')
    <3> SUFFICES ASSUME impl'[q].svc # NoObject
                 PROVE  /\ impl'[q].svc = impl[q].svc /\ impl'[q].owner = impl[q].owner
                        /\ impl[q].owner # Program => Within(impl[q].owner, work', op_queue_')
      OBVIOUS
    <3>1. impl'[q] = impl[q] /\ impl[q].owner \notin gone /\ Exists(q) /\ impl[q] \in Impl
      BY <1>8 DEF Exists
    <3>2. impl[q].owner # Program => InPlace(impl[q].owner) /\ impl[q].owner \in Ops
      BY <3>1 DEF ServiceInv, Owned, Impl
    <3> QED BY <1>10, <3>1, <3>2
  <2> QED BY <1>7, <2>1, OwnedKept
<1> QED BY <1>7, <1>9, <1>11 DEF ServiceInv

\* When the services are deleted no resolver is left.
LEMMA DestroyServiceKeeps ==
  ASSUME ServiceInv, NEW s \in Objects, DestroyService(s)
  PROVE  ServiceInv'
<1> DEFINE gone == ToSet(op_queue_[s])
<1>1. /\ DestroyNext(s) /\ DestroyOps(gone) /\ op_queue_' = [op_queue_ EXCEPT ![s] = <<>>]
      /\ work' = work /\ outstanding_work_' = outstanding_work_
  BY DEF DestroyService
<1>2. /\ RegistryInv' /\ phase = "destroy" /\ phase' = "destroy" /\ todo' = <<>>
  BY <1>1, DestroyNextKeeps DEF ServiceInv
<1>3. /\ op_queue_ \in [Objects -> Seq(Ops)] /\ <<>> \in Seq(Ops) /\ svc \in [Objects -> Service]
      /\ gone \in SUBSET Ops
  <2>1. op_queue_ \in [Objects -> Seq(Ops)]
    BY DEF ServiceInv, TypeResolver
  <2>2. op_queue_[s] \in Seq(Ops)
    BY <2>1
  <2>3. gone \in SUBSET Ops
    BY <2>2 DEF ToSet
  <2> QED BY <2>1, <2>3 DEF ServiceInv, RegistryInv, TypeRegistry
<1> HIDE DEF gone
<1>4. \A u \in Objects : Empty(u)
  BY <1>2, BusyFacts
<1>5. /\ op_queue_' \in [Objects -> Seq(Ops)] /\ \A u \in Objects : op_queue_'[u] = <<>>
  BY <1>1, <1>3, <1>4 DEF Empty
<1>6. svc' = [svc EXCEPT ![s] = NoService]
  BY <1>1 DEF DestroyNext, Delete
<1>7. \A u \in Objects : svc'[u].state = "alive" => svc'[u] = svc[u]
  BY <1>3, <1>6, ServiceFacts
<1>8. Working'
  <2> SUFFICES ASSUME NEW u \in Objects
               PROVE  /\ Empty(u)' /\ ~HasThread(u)' /\ work'[u].cur = NoOp
                      /\ svc'[u].key = "resolver" /\ svc'[u].state = "alive" => work'[u].open
    BY DEF Working
  <2>1. Empty(u)' /\ ~HasThread(u)' /\ work'[u].cur = NoOp
    BY <1>1, <1>4, <1>5 DEF Empty, HasThread
  <2>2. svc'[u].key = "resolver" /\ svc'[u].state = "alive" => work'[u].open
    BY <1>1, <1>7 DEF ServiceInv, Working
  <2> QED BY <2>1, <2>2
<1>9. /\ op' \in [Ops -> OpRecord] /\ issued' \in 0 .. MaxOps
      /\ done' \subseteq Ops /\ destroyed' \subseteq Ops /\ cancelled' \subseteq Ops
      /\ impl' \in [Resolvers -> Impl]
      /\ \A r \in Resolvers : impl'[r].svc = NoObject \/ (impl'[r] = impl[r] /\ impl[r].owner \notin gone)
  BY <1>1, <1>3, DestroyOpsFacts DEF ServiceInv
<1>10. TypeResolver'
  <2>1. outstanding_work_' \in Int /\ work' \in [Objects -> Work]
    BY <1>1 DEF ServiceInv, TypeResolver
  <2> QED BY <1>5, <1>9, <2>1 DEF TypeResolver
<1>11. ASSUME NEW q \in Resolvers, Exists(q) PROVE FALSE
  <2>1. impl[q].owner \in Ops /\ InPlace(impl[q].owner)
    <3>1. impl[q] \in Impl
      BY DEF ServiceInv, TypeResolver
    <3>2. impl[q].owner \in Ops \cup {Program}
      BY <3>1 DEF Impl
    <3> QED BY <1>2, <1>11, <3>2 DEF ServiceInv, Owned
  <2>2. PICK u \in Objects : \/ Has(work[u].queue, impl[q].owner) \/ work[u].cur = impl[q].owner
                             \/ Has(op_queue_[u], impl[q].owner)
    BY <2>1 DEF InPlace, Within
  <2>3. work[u].queue = <<>> /\ op_queue_[u] = <<>> /\ work[u].cur = NoOp
    BY <1>4 DEF Empty
  <2>4. impl[q].owner # NoOp
    BY <2>1 DEF Ops, NoOp
  <2> QED BY <2>2, <2>3, <2>4, NoneHas
<1>12. Owned'
  BY <1>9, <1>11 DEF Owned, Exists
<1> QED BY <1>2, <1>8, <1>10, <1>12 DEF ServiceInv

LEMMA BeginWalkKeeps ==
  ASSUME ServiceInv, BeginWalk
  PROVE  ServiceInv'
<1>1. UNCHANGED <<work, op_queue_, outstanding_work_, impl>> /\ UNCHANGED <<op, issued, done, destroyed, cancelled>>
  BY DEF BeginWalk, resolverVars, ops
<1>2. PICK from, to, services :
         /\ Begin(from, to, services) /\ forks' \in 0 .. MaxForks
         /\ \/ from = "open" /\ to \in {"fork_prepare", "shutdown"} /\ services = list
            \/ from = "fork_prepare" /\ to = "forked" /\ services = Reverse(list)
            \/ from = "forked" /\ to = "open" /\ services = <<>>
            \/ from = "shutdown" /\ to = "destroy" /\ services = <<>>
         /\ to = "shutdown" => \A r \in Resolvers : ~Held(r)
  <2>1. forks \in 0 .. MaxForks /\ MaxForks \in Nat
    BY RegistryAssumption DEF ServiceInv, RegistryInv, TypeRegistry
  <2>2. CASE ForkPrepare
    <3>1. forks' \in 0 .. MaxForks /\ Begin("open", "fork_prepare", list)
      BY <2>1, <2>2 DEF ForkPrepare
    <3> QED BY <3>1
  <2>3. CASE Fork
    BY <2>1, <2>3 DEF Fork
  <2>4. CASE ForkEnds
    BY <2>1, <2>4 DEF ForkEnds
  <2>5. CASE Destroy
    BY <2>1, <2>5 DEF Destroy
  <2>6. CASE Shutdown /\ \A r \in Resolvers : ~Held(r)
    BY <2>1, <2>6 DEF Shutdown
  <2> QED BY <2>2, <2>3, <2>4, <2>5, <2>6 DEF BeginWalk
<1>3. RegistryInv'
  BY <1>2, BeginKeeps DEF ServiceInv
<1>4. /\ phase = from /\ todo = <<>> /\ phase' = to /\ todo' = services
      /\ list' = list /\ svc' = svc
  BY <1>2 DEF Begin, registry
<1>5. TypeResolver'
  BY <1>1 DEF ServiceInv, TypeResolver
<1>6. Working'
  <2> SUFFICES ASSUME NEW u \in Objects
               PROVE  /\ Standing(u)' \/ Empty(u)'
                      /\ HasThread(u)' => work'[u].open /\ svc'[u].key = "resolver" /\ phase' # "forked"
                      /\ phase' = "fork_prepare" /\ HasThread(u)' => Has(todo', u)
                      /\ work'[u].cur # NoOp => work'[u].thread = "running"
                      /\ svc'[u].key = "resolver" /\ svc'[u].state = "alive" => work'[u].open
    BY DEF Working
  <2>1. /\ Standing(u) \/ Empty(u)
        /\ HasThread(u) => work[u].open /\ svc[u].key = "resolver" /\ phase # "forked"
        /\ phase = "fork_prepare" /\ HasThread(u) => Has(todo, u)
        /\ work[u].cur # NoOp => work[u].thread = "running"
        /\ svc[u].key = "resolver" /\ svc[u].state = "alive" => work[u].open
    BY DEF ServiceInv, Working
  <2>2. ~Has(<<>>, u)
    BY NoneHas
  <2>3. (HasThread(u)' <=> HasThread(u)) /\ (Empty(u)' <=> Empty(u)) /\ (Empty(u) => ~HasThread(u))
    BY <1>1 DEF HasThread, Empty
  <2>4. Standing(u)' \/ Empty(u)'
    <3>1. CASE from = "shutdown"
      BY <1>4, <2>1, <2>2, <2>3, <3>1 DEF Standing
    <3>2. CASE from # "shutdown"
      <4>1. to \in {"fork_prepare", "forked", "open"} \/ (to = "shutdown" /\ services = list)
        BY <1>2, <3>2
      <4> QED BY <1>4, <2>1, <2>3, <4>1 DEF Standing
    <3> QED BY <3>1, <3>2
  <2>5. phase' = "fork_prepare" /\ HasThread(u)' => Has(todo', u)
    <3>1. HasThread(u) => Has(list, u)
      BY <2>1, <2>3 DEF Standing
    <3> QED BY <1>2, <1>4, <2>3, <3>1
  <2>6. HasThread(u)' => phase' # "forked"
    BY <1>2, <1>4, <2>1, <2>2, <2>3
  <2> QED BY <1>1, <1>4, <2>1, <2>3, <2>4, <2>5, <2>6
<1>7. Owned'
  <2> SUFFICES ASSUME NEW q \in Resolvers, Exists(q)'
               PROVE  /\ Has(list', impl'[q].svc) /\ svc'[impl'[q].svc].key = "resolver"
                      /\ impl'[q].owner # Program => Within(impl'[q].owner, work', op_queue_')
                      /\ phase' \in {"shutdown", "destroy"} => impl'[q].owner # Program
    BY DEF Owned, InPlace
  <2>1. Exists(q)
    BY <1>1 DEF Exists
  <2>2. /\ Has(list, impl[q].svc) /\ svc[impl[q].svc].key = "resolver"
        /\ impl[q].owner # Program => Within(impl[q].owner, work, op_queue_)
        /\ phase \in {"shutdown", "destroy"} => impl[q].owner # Program
    BY <2>1 DEF ServiceInv, Owned, InPlace
  <2>3. phase' \in {"shutdown", "destroy"} => impl[q].owner # Program
    BY <1>2, <1>4, <2>1, <2>2 DEF Held
  <2> QED BY <1>1, <1>4, <2>2, <2>3
<1> QED BY <1>3, <1>5, <1>6, <1>7 DEF ServiceInv

\* A step of the registry, with what it does to a private scheduler that is not in use.
LEMMA CallKeepsServices ==
  ASSUME ServiceInv, RegistryInv', Settled, UNCHANGED <<op_queue_, outstanding_work_, impl, ops>>,
         work' \in [Objects -> Work],
         \A u \in Objects : \/ work'[u] = work[u]
                            \/ /\ ~Has(list, u)
                               /\ work'[u].queue = <<>> /\ work'[u].cur = NoOp /\ work'[u].thread = "none",
         \A u \in Objects : svc'[u].key = "resolver" /\ svc'[u].state = "alive" => work'[u].open
  PROVE  ServiceInv'
<1>1. /\ phase = "open" /\ phase' = "open" /\ todo' = todo
      /\ \A s \in Objects : Has(list, s) => Has(list', s) /\ svc'[s].key = svc[s].key
  BY DEF Settled
<1>2. op_queue_' = op_queue_ /\ impl' = impl
  OBVIOUS
<1>3. TypeResolver'
  BY <1>2 DEF ServiceInv, TypeResolver, ops
<1>4. ASSUME NEW u \in Objects
      PROVE  /\ work'[u].queue = work[u].queue /\ work'[u].cur = work[u].cur
             /\ work'[u].thread = work[u].thread
             /\ Has(list, u) \/ Empty(u)
             /\ Has(list, u) => work'[u] = work[u]
  <2>1. Has(list, u) \/ Empty(u)
    BY DEF ServiceInv, Working, Standing
  <2>2. CASE Has(list, u)
    BY <2>1, <2>2
  <2>3. CASE ~Has(list, u)
    <3>1. Empty(u)
      BY <2>1, <2>3
    <3> QED BY <2>3, <3>1 DEF Empty
  <2> QED BY <2>2, <2>3
<1>5. Working'
  <2> SUFFICES ASSUME NEW u \in Objects
               PROVE  /\ Standing(u)' \/ Empty(u)'
                      /\ HasThread(u)' => work'[u].open /\ svc'[u].key = "resolver"
                      /\ work'[u].cur # NoOp => work'[u].thread = "running"
                      /\ svc'[u].key = "resolver" /\ svc'[u].state = "alive" => work'[u].open
    BY <1>1 DEF Working
  <2>1. /\ HasThread(u) => work[u].open /\ svc[u].key = "resolver"
        /\ work[u].cur # NoOp => work[u].thread = "running"
    BY DEF ServiceInv, Working
  <2>2. (HasThread(u)' <=> HasThread(u)) /\ (Empty(u)' <=> Empty(u)) /\ (HasThread(u) => Has(list, u))
    BY <1>2, <1>4 DEF HasThread, Empty
  <2>3. Standing(u)' \/ Empty(u)'
    BY <1>1, <1>4, <2>2 DEF Standing
  <2> QED BY <1>1, <1>4, <2>1, <2>2, <2>3
<1>6. ASSUME NEW p, InPlace(p) PROVE Within(p, work', op_queue_')
  BY <1>2, <1>4, <1>6 DEF InPlace, Within
<1>7. Owned'
  <2>1. ASSUME NEW q \in Resolvers
        PROVE  \/ impl'[q].svc = NoObject
               \/ /\ impl'[q].svc = impl[q].svc /\ impl'[q].owner = impl[q].owner
                  /\ impl[q].owner # Program => Within(impl[q].owner, work', op_queue_')
    BY <1>2, <1>6 DEF ServiceInv, Owned, Exists
  <2>2. phase' = phase
    BY <1>1
  <2> QED BY <1>1, <2>1, <2>2, OwnedKept
<1> QED BY <1>3, <1>5, <1>7 DEF ServiceInv

\* Steps of use_service() and make_service().
LEMMA CallsKeep ==
  ASSUME ServiceInv, NEW t \in Threads, UseServices(t) \/ Registering(t)
  PROVE  ServiceInv'
<1> DEFINE Plain == \/ \E k \in Keys : UseService(t, k) \/ MakeService(t, k)
                    \/ ConstructorThrows(t)
                    \/ Find(t)
                    \/ ConstructorUses(t)
                    \/ Insert(t)
           s == Top(t).obj
<1>0. /\ RegistryInv /\ work \in [Objects -> Work]
      /\ \A u \in Objects : svc[u].key = "resolver" /\ svc[u].state = "alive" => work[u].open
  BY DEF ServiceInv, TypeResolver, Working
<1>1. CASE Plain /\ UNCHANGED resolverVars
  <2>1. /\ Settled
        /\ \A u \in Objects : svc'[u].state = "alive" => svc[u].state = "alive" /\ svc'[u].key = svc[u].key
    BY <1>0, <1>1, CallSettles
  <2>2. RegistryInv'
    BY <1>0, <1>1, UseServiceKeeps, MakeServiceKeeps, ConstructorThrowsKeeps, FindKeeps, ConstructorUsesKeeps,
       InsertKeeps
  <2>3. work' = work /\ UNCHANGED <<op_queue_, outstanding_work_, impl, ops>>
    BY <1>1 DEF resolverVars
  <2>4. \A u \in Objects : svc'[u].key = "resolver" /\ svc'[u].state = "alive" => work'[u].open
    BY <1>0, <2>1, <2>3
  <2> QED BY <1>0, <2>1, <2>2, <2>3, <2>4, CallKeepsServices
<1>2. CASE Constructed(t)
  <2>1. /\ ConstructorEnds(t) /\ UNCHANGED <<op_queue_, outstanding_work_, impl, ops>>
        /\ work' = IF Top(t).key = "resolver" THEN [work EXCEPT ![s].open = TRUE] ELSE work
    BY <1>2 DEF Constructed
  <2>2. /\ Settled /\ s \in Objects /\ ~Has(list, s) /\ svc'[s].key = Top(t).key
        /\ \A u \in Objects \ {s} : svc'[u] = svc[u]
    BY <1>0, <2>1, EndSettles
  <2>3. RegistryInv'
    BY <1>0, <2>1, ConstructorEndsKeeps
  <2> HIDE DEF s
  <2>4. Empty(s) /\ work[s] \in Work
    BY <1>0, <2>2 DEF ServiceInv, Working, Standing
  <2>5. PICK x : x = [work[s] EXCEPT !.open = TRUE]
    OBVIOUS
  <2>6. x \in Work /\ x.open /\ x.queue = <<>> /\ x.cur = NoOp /\ x.thread = "none"
    BY <2>4, <2>5 DEF Work, Empty
  <2>7. CASE Top(t).key = "resolver"
    <3>1. work' \in [Objects -> Work] /\ work'[s] = x /\ \A u \in Objects \ {s} : work'[u] = work[u]
      <4>1. work' = [work EXCEPT ![s] = x]
        BY <2>1, <2>5, <2>7
      <4> QED BY <1>0, <2>2, <2>6, <4>1
    <3>2. \A u \in Objects : svc'[u].key = "resolver" /\ svc'[u].state = "alive" => work'[u].open
      BY <1>0, <2>2, <2>6, <3>1
    <3>3. \A u \in Objects : \/ work'[u] = work[u]
                             \/ /\ ~Has(list, u)
                                /\ work'[u].queue = <<>> /\ work'[u].cur = NoOp /\ work'[u].thread = "none"
      BY <2>2, <2>6, <3>1
    <3> QED BY <2>1, <2>2, <2>3, <3>1, <3>2, <3>3, CallKeepsServices
  <2>8. CASE Top(t).key # "resolver"
    <3>1. work' = work
      BY <2>1, <2>8
    <3>2. \A u \in Objects : svc'[u].key = "resolver" /\ svc'[u].state = "alive" => work'[u].open
      BY <1>0, <2>2, <2>8, <3>1
    <3> QED BY <1>0, <2>1, <2>2, <2>3, <3>1, <3>2, CallKeepsServices
  <2> QED BY <2>7, <2>8
<1>3. CASE Discarded(t)
  <2>1. /\ Discard(t) /\ UNCHANGED <<op_queue_, outstanding_work_, impl, ops>>
        /\ work' = [work EXCEPT ![s] = Idle]
    BY <1>3 DEF Discarded
  <2>2. /\ Settled /\ s \in Objects /\ ~Has(list, s) /\ svc'[s] = NoService
        /\ \A u \in Objects \ {s} : svc'[u].key = svc[u].key /\ svc'[u].state = svc[u].state
    BY <1>0, <2>1, DiscardSettles
  <2>3. RegistryInv'
    BY <1>0, <2>1, DiscardKeeps
  <2> HIDE DEF s
  <2>4. Idle \in Work /\ Idle.queue = <<>> /\ Idle.cur = NoOp /\ Idle.thread = "none"
    BY DEF Idle, Work
  <2>5. work' \in [Objects -> Work] /\ work'[s] = Idle /\ \A u \in Objects \ {s} : work'[u] = work[u]
    BY <1>0, <2>1, <2>2, <2>4
  <2>6. \A u \in Objects : svc'[u].key = "resolver" /\ svc'[u].state = "alive" => work'[u].open
    BY <1>0, <2>2, <2>5, ServiceFacts
  <2>7. \A u \in Objects : \/ work'[u] = work[u]
                           \/ /\ ~Has(list, u)
                              /\ work'[u].queue = <<>> /\ work'[u].cur = NoOp /\ work'[u].thread = "none"
    BY <2>2, <2>4, <2>5
  <2> QED BY <2>1, <2>2, <2>3, <2>5, <2>6, <2>7, CallKeepsServices
<1>4. (Plain /\ UNCHANGED resolverVars) \/ Constructed(t) \/ Discarded(t)
  <2>1. Made \subseteq Keys
    BY ResolverAssumption
  <2> QED BY <2>1 DEF UseServices, Registering
<1> QED BY <1>1, <1>2, <1>3, <1>4

\* The invariant is inductive.
LEMMA NextKeeps ==
  ASSUME ServiceInv, [Next]_vars
  PROVE  ServiceInv'
<1>1. ASSUME NEW t \in Threads, UseServices(t) \/ Registering(t) PROVE ServiceInv'
  BY <1>1, CallsKeep
<1>2. ASSUME NEW t \in Threads, NEW r \in Resolvers, Create(t, r) PROVE ServiceInv'
  BY <1>2, CreateKeeps
<1>3. ASSUME NEW r \in Resolvers, Cancel(r) \/ DestroyResolver(r) PROVE ServiceInv'
  BY <1>3, CancelKeeps
<1>4. ASSUME NEW r \in Resolvers, NEW to \in Resolvers, Move(r, to) PROVE ServiceInv'
  BY <1>4, MoveKeeps
<1>5. ASSUME NEW r \in Resolvers, NEW owned \in BOOLEAN, AsyncResolve(r, owned) PROVE ServiceInv'
  BY <1>5, AsyncResolveKeeps
<1>6. CASE RunHandler
  BY <1>6, RunHandlerKeeps
<1>7. ASSUME NEW s \in Objects, WorkThread(s) PROVE ServiceInv'
  BY <1>7, TakeKeeps, PassBackKeeps, ThreadKeeps DEF WorkThread
<1>8. ASSUME NEW s \in Objects, Walk(s) PROVE ServiceInv'
  BY <1>8, ThreadKeeps, ForkKeeps, ShutdownServiceKeeps, DestroyServiceKeeps DEF Walk
<1>9. CASE BeginWalk
  BY <1>9, BeginWalkKeeps
<1>10. CASE UNCHANGED vars
  <2>1. UNCHANGED registryVars /\ UNCHANGED <<work, op_queue_, outstanding_work_, impl>>
        /\ UNCHANGED <<op, issued, done, destroyed, cancelled>>
    BY <1>10 DEF vars, resolverVars, ops
  <2>2. RegistryInv' /\ Working' /\ list' = list /\ svc' = svc /\ phase' = phase
    BY <2>1, QuietWork, RestKeeps DEF ServiceInv
  <2>3. TypeResolver'
    BY <2>1 DEF ServiceInv, TypeResolver
  <2>4. Owned'
    BY <2>1, <2>2 DEF ServiceInv, Owned, Exists, InPlace, Within
  <2> QED BY <2>2, <2>3, <2>4 DEF ServiceInv
<1> QED BY <1>1, <1>2, <1>3, <1>4, <1>5, <1>6, <1>7, <1>8, <1>9, <1>10 DEF Next

\* However many threads construct services at the same time, and throughout forks, shutdown
\* and destruction: the registry has one service per key, each in front of those its constructor
\* obtained (do_use_service, do_add_service); what use_service() returned, the service of a
\* resolver and the scheduler of a work thread are still there; and a fork finds no thread.
THEOREM ServicesOutliveNothing == Spec => []NothingOutlives
<1>1. Init => ServiceInv
  BY InitEstablishes
<1>2. ServiceInv /\ [Next]_vars => ServiceInv'
  BY NextKeeps
<1>3. ServiceInv => NothingOutlives
  BY InvImpliesOutlives
<1> QED BY <1>1, <1>2, <1>3, PTL DEF Spec
-----------------------------------------------------------------------------
(* The operations.                                                         *)

Left == (1 .. issued) \ Finished
Kinds == {"waiting", "resolving", "answered"}

\* Operation o is in the queue of a private scheduler, in the hand of its thread or in
\* the queue of the context's scheduler.
Sits(k, s, o, w, q) ==
    \/ k = "waiting" /\ Has(w[s].queue, o)
    \/ k = "resolving" /\ w[s].cur = o
    \/ k = "answered" /\ Has(q[s], o)

\* It is in one of them, once.
Once(w, q) ==
    /\ \A s \in Objects, o \in Ops : AtMostOnce(w[s].queue, o) /\ AtMostOnce(q[s], o)
    /\ \A o \in Ops, j, k \in Kinds, s, u \in Objects :
          Sits(j, s, o, w, q) /\ Sits(k, u, o, w, q) => j = k /\ s = u

OpsInv ==
    /\ Once(work, op_queue_)
    /\ \A o \in Ops : InPlace(o) <=> o \in Left
    /\ Finished \subseteq 1 .. issued /\ done \cap destroyed = {}
    /\ phase \notin {"shutdown", "destroy"} => outstanding_work_ = Cardinality(Left)

\* The token of an operation that waits is that of the resolver responsible for it, until
\* that is cancelled; then no resolver has it.
Queued(o) == \E s \in Objects : Has(work[s].queue, o)
Remembers(o) ==
    /\ op[o].token # NoToken /\ op[o].res \in Resolvers
    /\ IF o \in cancelled THEN \A r \in Resolvers : impl[r].token # op[o].token
       ELSE impl[op[o].res].token = op[o].token
Forgotten(o) == op[o].token = NoToken /\ op[o].res = NoResolver /\ o \notin cancelled

TokensInv ==
    /\ \A r, q \in Resolvers : impl[r].token = impl[q].token /\ impl[r].token # NoToken => r = q
    /\ \A r \in Resolvers : ~Exists(r) => impl[r].token = NoToken
    /\ \A o \in Ops : IF Queued(o) THEN Remembers(o) ELSE Forgotten(o)

OnceInv == ServiceInv /\ OpsInv /\ TokensInv

LEMMA OpFacts == ASSUME ServiceInv
  PROVE  /\ issued \in 0 .. MaxOps /\ MaxOps \in Nat
         /\ \A o \in 1 .. issued : o \in Ops
         /\ \A o \in Ops : o # NoOp /\ o \in Nat
         /\ \A s \in Objects : work[s].queue \in Seq(Ops) /\ op_queue_[s] \in Seq(Ops)
         /\ \A s \in Objects : work[s].cur \in Ops \cup {NoOp}
BY ResolverAssumption DEF ServiceInv, TypeResolver, Ops, NoOp, Work

\* What is in place sits somewhere.
LEMMA PlaceSits ==
  ASSUME NEW w, NEW q, NEW o
  PROVE  /\ Within(o, w, q) <=> \E k \in Kinds, s \in Objects : Sits(k, s, o, w, q)
         /\ \A k \in Kinds, s \in Objects : Sits(k, s, o, w, q) => Within(o, w, q)
BY DEF Within, Sits, Kinds

LEMMA LeftIsFinite ==
  ASSUME ServiceInv
  PROVE  IsFiniteSet(Left) /\ Cardinality(Left) \in Nat
<1>1. IsFiniteSet(1 .. issued)
  BY OpFacts, FS_Interval
<1>2. Left \in SUBSET (1 .. issued)
  BY DEF Left
<1> QED BY <1>1, <1>2, FS_Subset, FS_CardinalityType

\* Nothing happens to the operations.
LEMMA OpsRest ==
  ASSUME OpsInv, op_queue_' = op_queue_, UNCHANGED <<outstanding_work_, issued, done, destroyed>>,
         \A s \in Objects : work'[s].queue = work[s].queue /\ work'[s].cur = work[s].cur,
         phase \in {"shutdown", "destroy"} => phase' \in {"shutdown", "destroy"}
  PROVE  OpsInv' /\ \A o : Queued(o)' <=> Queued(o)
<1>1. Left' = Left /\ Finished' = Finished
  BY DEF Left, Finished
<1>2. \A o : Within(o, work', op_queue_') <=> Within(o, work, op_queue_)
  BY DEF Within
<1>3. \A k, s, o : s \in Objects => (Sits(k, s, o, work', op_queue_') <=> Sits(k, s, o, work, op_queue_))
  BY DEF Sits
<1>4. Once(work', op_queue_')
  BY <1>3 DEF OpsInv, Once
<1>5. \A o : Queued(o)' <=> Queued(o)
  BY DEF Queued
<1> QED BY <1>1, <1>2, <1>4, <1>5 DEF OpsInv, InPlace

\* An operation goes to service s, and what else is somewhere has been there.
Comes(x, k, s) ==
    \A o \in Ops, j \in Kinds, u \in Objects :
        Sits(j, u, o, work', op_queue_') =>
            IF o = x THEN j = k /\ u = s ELSE Sits(j, u, o, work, op_queue_)

LEMMA StaysOnce ==
  ASSUME OpsInv, NEW x, NEW k, NEW s, Comes(x, k, s),
         \A u \in Objects, o \in Ops : AtMostOnce(work'[u].queue, o) /\ AtMostOnce(op_queue_'[u], o)
  PROVE  Once(work', op_queue_')
<1> SUFFICES ASSUME NEW o \in Ops, NEW i \in Kinds, NEW j \in Kinds, NEW u \in Objects, NEW v \in Objects,
                    Sits(i, u, o, work', op_queue_'), Sits(j, v, o, work', op_queue_')
             PROVE  i = j /\ u = v
  BY DEF Once
<1>1. CASE o = x
  BY <1>1 DEF Comes
<1>2. CASE o # x
  <2>1. Sits(i, u, o, work, op_queue_) /\ Sits(j, v, o, work, op_queue_)
    BY <1>2 DEF Comes
  <2> QED BY <2>1 DEF OpsInv, Once
<1> QED BY <1>1, <1>2

LEMMA Appended ==
  ASSUME NEW S, NEW q \in Seq(S), NEW x \in S, ~Has(q, x), \A y \in S : AtMostOnce(q, y)
  PROVE  \A y \in S : AtMostOnce(Append(q, x), y) /\ (Has(Append(q, x), y) <=> y = x \/ Has(q, y))
<1>1. /\ Len(Append(q, x)) = Len(q) + 1 /\ Append(q, x)[Len(q) + 1] = x /\ Len(q) \in Nat
      /\ \A i \in 1 .. Len(q) : Append(q, x)[i] = q[i]
  OBVIOUS
<1>2. \A i \in 1 .. Len(Append(q, x)) : i = Len(q) + 1 \/ i \in 1 .. Len(q)
  BY <1>1
<1>3. Len(q) + 1 \in 1 .. Len(Append(q, x)) /\ 1 .. Len(q) \subseteq 1 .. Len(Append(q, x))
  BY <1>1
<1> QED BY <1>1, <1>2, <1>3 DEF Has, AtMostOnce

\* A new operation.
LEMMA ResolveComes ==
  ASSUME ServiceInv, OpsInv, NEW r \in Resolvers, NEW owned \in BOOLEAN, AsyncResolve(r, owned)
  PROVE  /\ OpsInv' /\ issued + 1 \in Ops /\ ~InPlace(issued + 1)
         /\ \A o \in Ops : Queued(o)' <=> o = issued + 1 \/ Queued(o)
<1> DEFINE s == impl[r].svc
           o == issued + 1
<1>1. /\ phase = "open" /\ Held(r) /\ issued < MaxOps /\ issued' = o
      /\ UNCHANGED <<registryVars, op_queue_>> /\ UNCHANGED <<done, destroyed>>
      /\ outstanding_work_' = outstanding_work_ + 1
  BY DEF AsyncResolve, Open
<1>2. o \in Ops /\ issued \in Nat
  BY <1>1, OpFacts DEF Ops
<1>3. s \in Objects
  BY <1>1, HeldFacts
<1>4. /\ work \in [Objects -> Work] /\ work[s].queue \in Seq(Ops)
  BY <1>3 DEF ServiceInv, TypeResolver, Work
<1>5. /\ work'[s].queue = Append(work[s].queue, o) /\ work'[s].cur = work[s].cur
      /\ \A u \in Objects \ {s} : work'[u] = work[u]
  <2>1. work' = [work EXCEPT ![s].queue = Append(@, o), ![s].thread = IF @ = "none" THEN "running" ELSE @]
    BY DEF AsyncResolve
  <2>2. PICK x : x = [work[s] EXCEPT !.queue = Append(@, o), !.thread = IF @ = "none" THEN "running" ELSE @]
    OBVIOUS
  <2> HIDE DEF o, s
  <2>3. work' = [work EXCEPT ![s] = x]
    BY <1>3, <1>4, <2>1, <2>2
  <2>4. x.queue = Append(work[s].queue, o) /\ x.cur = work[s].cur
    BY <1>3, <1>4, <2>2 DEF Work
  <2> QED BY <1>3, <1>4, <2>3, <2>4
<1>6. ~InPlace(o) /\ Left' = Left \cup {o} /\ o \notin Left /\ o \notin Finished /\ Finished' = Finished
  <2>1. Finished' = Finished
    BY <1>1 DEF Finished
  <2>2. o \notin Left /\ o \notin Finished
    BY <1>2 DEF Left, OpsInv
  <2>3. 1 .. o = (1 .. issued) \cup {o}
    BY <1>2
  <2>4. Left' = Left \cup {o}
    BY <1>1, <2>1, <2>2, <2>3 DEF Left
  <2> QED BY <1>2, <2>1, <2>2, <2>4 DEF OpsInv
<1> HIDE DEF s, o
<1>7. /\ ~Has(work[s].queue, o)
      /\ \A y \in Ops : AtMostOnce(work'[s].queue, y) /\ (Has(work'[s].queue, y) <=> y = o \/ Has(work[s].queue, y))
  <2>1. ~Has(work[s].queue, o)
    BY <1>3, <1>6 DEF InPlace, Within
  <2>2. \A y \in Ops : AtMostOnce(work[s].queue, y)
    BY <1>3 DEF OpsInv, Once
  <2> QED BY <1>2, <1>4, <1>5, <2>1, <2>2, Appended
<1>8. \A y \in Ops : Queued(y)' <=> y = o \/ Queued(y)
  BY <1>3, <1>5, <1>7 DEF Queued
<1>9. Comes(o, "waiting", s)
  <2> SUFFICES ASSUME NEW y \in Ops, NEW j \in Kinds, NEW u \in Objects, Sits(j, u, y, work', op_queue_')
               PROVE  IF y = o THEN j = "waiting" /\ u = s ELSE Sits(j, u, y, work, op_queue_)
    BY DEF Comes
  <2>1. Sits(j, u, y, work, op_queue_) \/ (y = o /\ j = "waiting" /\ u = s)
    <3>1. CASE u = s
      BY <1>1, <1>5, <1>7, <3>1 DEF Sits
    <3>2. CASE u # s
      BY <1>1, <1>5, <3>2 DEF Sits
    <3> QED BY <3>1, <3>2
  <2>2. ~Sits(j, u, o, work, op_queue_)
    BY <1>6, PlaceSits DEF InPlace
  <2> QED BY <2>1, <2>2
<1>10. \A u \in Objects, y \in Ops : AtMostOnce(work'[u].queue, y) /\ AtMostOnce(op_queue_'[u], y)
  BY <1>1, <1>5, <1>7 DEF OpsInv, Once
<1>11. Once(work', op_queue_')
  BY <1>9, <1>10, StaysOnce
<1>12. ASSUME NEW y \in Ops PROVE InPlace(y)' <=> y \in Left'
  <2>1. Within(y, work', op_queue_') <=> y = o \/ Within(y, work, op_queue_)
    BY <1>1, <1>3, <1>5, <1>7 DEF Within
  <2>2. InPlace(y) <=> y \in Left
    BY DEF OpsInv
  <2> QED BY <1>6, <2>1, <2>2 DEF InPlace
<1>13. outstanding_work_' = Cardinality(Left')
  <2>1. outstanding_work_ = Cardinality(Left)
    BY <1>1 DEF OpsInv
  <2>2. Cardinality(Left \cup {o}) = Cardinality(Left) + 1
    BY <1>6, LeftIsFinite, FS_AddElement
  <2> QED BY <1>1, <1>6, <2>1, <2>2
<1>14. Finished' \subseteq 1 .. issued' /\ (done \cap destroyed)' = {}
  <2>1. Finished \subseteq 1 .. issued /\ done \cap destroyed = {}
    BY DEF OpsInv
  <2>2. 1 .. issued \subseteq 1 .. o
    BY <1>2 DEF o
  <2> QED BY <1>1, <1>6, <2>1, <2>2
<1> QED BY <1>2, <1>6, <1>8, <1>11, <1>12, <1>13, <1>14 DEF OpsInv, o

\* An operation goes from one place to another; none is new, none is lost.
LEMMA OpsMoved ==
  ASSUME ServiceInv, OpsInv, UNCHANGED <<outstanding_work_, issued, done, destroyed, phase>>,
         NEW x, NEW k \in Kinds, NEW s \in Objects, Comes(x, k, s), InPlace(x), Sits(k, s, x, work', op_queue_'),
         \A o \in Ops : InPlace(o) => Within(o, work', op_queue_'),
         \A u \in Objects, o \in Ops : AtMostOnce(work'[u].queue, o) /\ AtMostOnce(op_queue_'[u], o)
  PROVE  OpsInv'
<1>1. Once(work', op_queue_')
  BY StaysOnce
<1>2. Left' = Left /\ Finished' = Finished
  BY DEF Left, Finished
<1>3. ASSUME NEW o \in Ops PROVE Within(o, work', op_queue_') <=> InPlace(o)
  <2>1. ASSUME Within(o, work', op_queue_'), o # x PROVE InPlace(o)
    <3>1. PICK j \in Kinds, u \in Objects : Sits(j, u, o, work', op_queue_')
      BY <2>1, PlaceSits
    <3>2. Sits(j, u, o, work, op_queue_)
      BY <2>1, <3>1 DEF Comes
    <3> QED BY <3>2, PlaceSits DEF InPlace
  <2> QED BY <2>1
<1> QED BY <1>1, <1>2, <1>3 DEF OpsInv, InPlace

LEMMA TakeMoves ==
  ASSUME ServiceInv, OpsInv, NEW s \in Objects, Take(s)
  PROVE  /\ OpsInv' /\ Head(work[s].queue) \in Ops
         /\ \A o \in Ops : Queued(o)' <=> Queued(o) /\ o # Head(work[s].queue)
<1> DEFINE o == Head(work[s].queue)
<1>1. /\ work[s].cur = NoOp /\ work[s].queue # <<>> /\ op_queue_' = op_queue_
      /\ UNCHANGED <<outstanding_work_, issued, done, destroyed, phase>>
  BY DEF Take, registryVars, walk
<1>2. /\ work \in [Objects -> Work] /\ work[s] \in Work /\ work[s].queue \in Seq(Ops)
  BY DEF ServiceInv, TypeResolver, Work
<1>3. o \in Ops /\ \A y : Has(work[s].queue, y) => y = o \/ Has(Tail(work[s].queue), y)
  BY <1>1, <1>2, TailHas
<1>4. /\ work'[s].queue = Tail(work[s].queue) /\ work'[s].cur = o
      /\ \A u \in Objects \ {s} : work'[u] = work[u]
  <2>1. work' = [work EXCEPT ![s].queue = Tail(@), ![s].cur = o]
    BY DEF Take
  <2>2. PICK x : x = [work[s] EXCEPT !.queue = Tail(@), !.cur = o]
    OBVIOUS
  <2> HIDE DEF o
  <2>3. work' = [work EXCEPT ![s] = x]
    BY <1>2, <2>1, <2>2
  <2>4. x.queue = Tail(work[s].queue) /\ x.cur = o
    BY <1>2, <2>2 DEF Work
  <2> QED BY <1>2, <2>3, <2>4
<1>5. \A y \in Ops : AtMostOnce(work[s].queue, y) /\ AtMostOnce(op_queue_[s], y)
  BY DEF OpsInv, Once
<1>6. /\ Has(work[s].queue, o) /\ ~Has(Tail(work[s].queue), o)
      /\ \A y \in Ops : AtMostOnce(Tail(work[s].queue), y) /\ (Has(Tail(work[s].queue), y) => Has(work[s].queue, y))
  <2>1. Has(work[s].queue, o)
    <3>1. o = work[s].queue[1] /\ 1 \in 1 .. Len(work[s].queue)
      BY <1>1, <1>2, TailFacts
    <3> QED BY <3>1 DEF Has
  <2>2. ~Has(Tail(work[s].queue), o)
    BY <1>1, <1>2, <1>3, <1>5, TailHas
  <2> QED BY <1>1, <1>2, <1>5, <2>1, <2>2, TailHas
<1> HIDE DEF o
<1>7. /\ Sits("waiting", s, o, work, op_queue_) /\ Sits("resolving", s, o, work', op_queue_') /\ InPlace(o)
      /\ {"waiting", "resolving"} \subseteq Kinds
  <2>1. Sits("waiting", s, o, work, op_queue_) /\ Sits("resolving", s, o, work', op_queue_')
    BY <1>4, <1>6 DEF Sits
  <2>2. {"waiting", "resolving"} \subseteq Kinds
    BY DEF Kinds
  <2> QED BY <2>1, <2>2, PlaceSits DEF InPlace
<1>8. \A j \in Kinds, u \in Objects : Sits(j, u, o, work, op_queue_) => j = "waiting" /\ u = s
  BY <1>3, <1>7 DEF OpsInv, Once
<1>9. Comes(o, "resolving", s)
  <2> SUFFICES ASSUME NEW y \in Ops, NEW j \in Kinds, NEW u \in Objects, Sits(j, u, y, work', op_queue_')
               PROVE  IF y = o THEN j = "resolving" /\ u = s ELSE Sits(j, u, y, work, op_queue_)
    BY DEF Comes
  <2>1. CASE u = s
    <3>1. Sits(j, u, y, work, op_queue_) \/ (y = o /\ j = "resolving")
      BY <1>1, <1>4, <1>6, <2>1 DEF Sits
    <3>2. ~(y = o /\ Sits(j, u, y, work, op_queue_))
      <4>1. ASSUME y = o, j = "waiting" PROVE FALSE
        BY <1>4, <1>6, <2>1, <4>1 DEF Sits
      <4>2. ASSUME y = o, Sits(j, u, y, work, op_queue_) PROVE j = "waiting"
        BY <1>8, <4>2
      <4> QED BY <4>1, <4>2
    <3> QED BY <2>1, <3>1, <3>2
  <2>2. CASE u # s
    <3>1. Sits(j, u, y, work, op_queue_)
      BY <1>1, <1>4, <2>2 DEF Sits
    <3> QED BY <1>8, <2>2, <3>1
  <2> QED BY <2>1, <2>2
<1>10. ASSUME NEW p \in Ops, InPlace(p) PROVE Within(p, work', op_queue_')
  <2>1. PICK u \in Objects : Has(work[u].queue, p) \/ work[u].cur = p \/ Has(op_queue_[u], p)
    BY <1>10 DEF InPlace, Within
  <2>2. Has(work'[u].queue, p) \/ work'[u].cur = p \/ Has(op_queue_'[u], p)
    <3>1. CASE u = s
      BY <1>1, <1>3, <1>4, <2>1, <3>1, OpFacts
    <3>2. CASE u # s
      BY <1>1, <1>4, <2>1, <3>2
    <3> QED BY <3>1, <3>2
  <2> QED BY <2>2 DEF Within
<1>11. \A u \in Objects, y \in Ops : AtMostOnce(work'[u].queue, y) /\ AtMostOnce(op_queue_'[u], y)
  BY <1>1, <1>4, <1>6 DEF OpsInv, Once
<1>12. OpsInv'
  BY <1>1, <1>7, <1>9, <1>10, <1>11, OpsMoved
<1>13. ASSUME NEW p \in Ops PROVE Queued(p)' <=> Queued(p) /\ p # o
  <2>1. ASSUME NEW u \in Objects PROVE Has(work'[u].queue, p) <=> Has(work[u].queue, p) /\ p # o
    <3>1. CASE u = s
      BY <1>3, <1>4, <1>6, <3>1
    <3>2. CASE u # s
      <4>1. ~(p = o /\ Has(work[u].queue, p))
        BY <1>7, <1>8, <3>2 DEF Sits
      <4> QED BY <1>4, <3>2, <4>1
    <3> QED BY <3>1, <3>2
  <2> QED BY <2>1 DEF Queued
<1> QED BY <1>3, <1>12, <1>13 DEF o

LEMMA PassBackMoves ==
  ASSUME ServiceInv, OpsInv, NEW s \in Objects, PassBack(s)
  PROVE  OpsInv' /\ \A o \in Ops : Queued(o)' <=> Queued(o)
<1> DEFINE h == SchedulerOf(s)
           o == work[s].cur
<1>1. /\ o # NoOp /\ UNCHANGED <<outstanding_work_, issued, done, destroyed, phase>>
      /\ op_queue_' = [op_queue_ EXCEPT ![h] = Append(@, o)]
      /\ work' = [work EXCEPT ![s].cur = NoOp]
  BY DEF PassBack, registryVars, walk, ops
<1>2. /\ work \in [Objects -> Work] /\ work[s] \in Work /\ o \in Ops
      /\ op_queue_ \in [Objects -> Seq(Ops)]
  <2>1. work \in [Objects -> Work] /\ op_queue_ \in [Objects -> Seq(Ops)]
    BY DEF ServiceInv, TypeResolver
  <2> QED BY <1>1, <2>1 DEF Work
<1>3. h \in Objects
  <2>1. HasThread(s) /\ ~Empty(s)
    BY <1>1 DEF ServiceInv, Working, HasThread, Empty
  <2> QED BY <2>1, BusyFacts, SchedulerFacts DEF ServiceInv
<1> HIDE DEF h
<1>4. /\ work'[s].queue = work[s].queue /\ work'[s].cur = NoOp /\ \A u \in Objects \ {s} : work'[u] = work[u]
      /\ op_queue_'[h] = Append(op_queue_[h], o)
      /\ \A u \in Objects \ {h} : op_queue_'[u] = op_queue_[u]
  <2>1. PICK x : x = [work[s] EXCEPT !.cur = NoOp]
    OBVIOUS
  <2>2. x.queue = work[s].queue /\ x.cur = NoOp /\ work' = [work EXCEPT ![s] = x]
    BY <1>1, <1>2, <2>1 DEF Work
  <2> QED BY <1>1, <1>2, <1>3, <2>2
<1> HIDE DEF o
<1>5. Sits("resolving", s, o, work, op_queue_) /\ {"resolving", "answered"} \subseteq Kinds
  BY DEF Sits, Kinds, o
<1>6. \A j \in Kinds, u \in Objects : Sits(j, u, o, work, op_queue_) => j = "resolving" /\ u = s
  BY <1>2, <1>5 DEF OpsInv, Once
<1>7. /\ ~Has(op_queue_[h], o)
      /\ \A y \in Ops : AtMostOnce(op_queue_'[h], y) /\ (Has(op_queue_'[h], y) <=> y = o \/ Has(op_queue_[h], y))
  <2>1. ~Has(op_queue_[h], o)
    BY <1>3, <1>6 DEF Sits, Kinds
  <2>2. \A y \in Ops : AtMostOnce(op_queue_[h], y)
    BY <1>3 DEF OpsInv, Once
  <2>3. op_queue_[h] \in Seq(Ops)
    BY <1>2, <1>3
  <2> QED BY <1>2, <1>4, <2>1, <2>2, <2>3, Appended
<1>8. Sits("answered", h, o, work', op_queue_') /\ InPlace(o)
  <2>1. Sits("answered", h, o, work', op_queue_')
    BY <1>2, <1>7 DEF Sits
  <2> QED BY <1>5, <2>1, PlaceSits DEF InPlace
<1>9. \A u \in Objects : /\ work'[u].queue = work[u].queue
                         /\ \A y \in Ops : work'[u].cur = y => work[u].cur = y /\ y # o
                         /\ \A y \in Ops : work[u].cur = y /\ y # o => work'[u].cur = y
  <2>1. \A y \in Ops : y # NoOp
    BY OpFacts
  <2>2. \A u \in Objects : work[u].cur = o => u = s
    BY <1>6 DEF Sits, Kinds
  <2>3. o = work[s].cur
    BY DEF o
  <2> QED BY <1>4, <2>1, <2>2, <2>3
<1>10. Comes(o, "answered", h)
  <2> SUFFICES ASSUME NEW y \in Ops, NEW j \in Kinds, NEW u \in Objects, Sits(j, u, y, work', op_queue_')
               PROVE  IF y = o THEN j = "answered" /\ u = h ELSE Sits(j, u, y, work, op_queue_)
    BY DEF Comes
  <2>1. CASE j = "waiting"
    <3>1. Sits(j, u, y, work, op_queue_)
      BY <1>9, <2>1 DEF Sits
    <3> QED BY <1>6, <2>1, <3>1
  <2>2. CASE j = "resolving"
    <3>1. Sits(j, u, y, work, op_queue_) /\ y # o
      BY <1>9, <2>2 DEF Sits
    <3> QED BY <3>1
  <2>3. CASE j = "answered"
    <3>0. Has(op_queue_'[u], y)
      BY <2>3 DEF Sits
    <3>1. CASE u = h
      BY <1>7, <2>3, <3>0, <3>1 DEF Sits
    <3>2. CASE u # h
      <4>1. Sits(j, u, y, work, op_queue_)
        BY <1>4, <2>3, <3>0, <3>2 DEF Sits
      <4> QED BY <1>6, <2>3, <4>1
    <3> QED BY <3>1, <3>2
  <2> QED BY <2>1, <2>2, <2>3 DEF Kinds
<1>11. ASSUME NEW p \in Ops, InPlace(p) PROVE Within(p, work', op_queue_')
  <2>1. CASE p = o
    BY <1>3, <1>8, <2>1 DEF Within, Sits
  <2>2. CASE p # o
    <3>1. PICK u \in Objects : Has(work[u].queue, p) \/ work[u].cur = p \/ Has(op_queue_[u], p)
      BY <1>11 DEF InPlace, Within
    <3>2. Has(op_queue_[u], p) => Has(op_queue_'[u], p)
      BY <1>4, <1>7
    <3> QED BY <1>9, <2>2, <3>1, <3>2 DEF Within
  <2> QED BY <2>1, <2>2
<1>12. \A u \in Objects, y \in Ops : AtMostOnce(work'[u].queue, y) /\ AtMostOnce(op_queue_'[u], y)
  <2>1. \A u \in Objects, y \in Ops : AtMostOnce(work[u].queue, y) /\ AtMostOnce(op_queue_[u], y)
    BY DEF OpsInv, Once
  <2> QED BY <1>4, <1>7, <1>9, <2>1
<1>13. OpsInv'
  BY <1>1, <1>3, <1>5, <1>8, <1>10, <1>11, <1>12, OpsMoved
<1> QED BY <1>9, <1>13 DEF Queued

\* Operations have been completed or destroyed.
Leave(gone) ==
    /\ issued' = issued /\ Finished' = Finished \cup gone /\ (done \cap destroyed)' = {}
    /\ \A o \in gone : InPlace(o)
    /\ \A o \in Ops, k \in Kinds, s \in Objects :
          Sits(k, s, o, work', op_queue_') <=> Sits(k, s, o, work, op_queue_) /\ o \notin gone
    /\ \A s \in Objects, o \in Ops : AtMostOnce(work'[s].queue, o) /\ AtMostOnce(op_queue_'[s], o)

LEMMA OpsLeave ==
  ASSUME ServiceInv, OpsInv, NEW gone \in SUBSET Ops, Leave(gone),
         phase' \notin {"shutdown", "destroy"} => outstanding_work_' = Cardinality(Left \ gone)
  PROVE  OpsInv' /\ \A o \in Ops : Queued(o)' <=> Queued(o) /\ o \notin gone
<1>1. Left' = Left \ gone
  BY DEF Left, Leave
<1>2. Comes(NoOp, "waiting", 1)
  BY OpFacts DEF Comes, Leave
<1>3. Once(work', op_queue_')
  BY <1>2, StaysOnce DEF Leave
<1>4. ASSUME NEW o \in Ops PROVE Within(o, work', op_queue_') <=> InPlace(o) /\ o \notin gone
  BY PlaceSits DEF Leave, InPlace
<1>5. \A o \in Ops : InPlace(o) <=> o \in Left
  BY DEF OpsInv
<1>6. Finished' \subseteq 1 .. issued'
  <2>1. gone \subseteq Left
    BY <1>5 DEF Leave
  <2> QED BY <2>1 DEF OpsInv, Leave, Left
<1>7. \A o \in Ops : InPlace(o)' <=> o \in Left'
  BY <1>1, <1>4, <1>5 DEF InPlace
<1>8. OpsInv'
  BY <1>1, <1>3, <1>6, <1>7 DEF OpsInv, Leave
<1>9. ASSUME NEW o \in Ops PROVE Queued(o)' <=> Queued(o) /\ o \notin gone
  <2>1. \A s \in Objects : Has(work'[s].queue, o) <=> Has(work[s].queue, o) /\ o \notin gone
    <3>1. \A s \in Objects :
             Sits("waiting", s, o, work', op_queue_') <=> Sits("waiting", s, o, work, op_queue_) /\ o \notin gone
      BY DEF Leave, Kinds
    <3> QED BY <3>1 DEF Sits
  <2> QED BY <2>1 DEF Queued
<1> QED BY <1>8, <1>9

LEMMA HandlerLeaves ==
  ASSUME ServiceInv, OpsInv, RunHandler
  PROVE  \E o \in Ops : /\ op' = [op EXCEPT ![o] = Blank] /\ impl' = WithoutOwner({o}) /\ cancelled' = CancelledWith({o})
                        /\ ~Queued(o)
                        /\ OpsInv' /\ \A p \in Ops : Queued(p)' <=> Queued(p)
<1>1. PICK s \in Registered("scheduler") :
         LET o == Head(op_queue_[s]) IN
         /\ op_queue_[s] # <<>>
         /\ op_queue_' = [op_queue_ EXCEPT ![s] = Tail(@)]
         /\ done' = done \cup {o}
         /\ op' = [op EXCEPT ![o] = Blank]
         /\ impl' = WithoutOwner({o}) /\ cancelled' = CancelledWith({o})
  BY DEF RunHandler
<1> DEFINE o == Head(op_queue_[s])
<1>2. /\ phase = "open" /\ phase' = phase /\ UNCHANGED <<work, issued, destroyed>>
      /\ outstanding_work_' = outstanding_work_ - 1
  BY DEF RunHandler, Open, registryVars, walk
<1>3. s \in Objects
  BY Members DEF ServiceInv, RegistryInv
<1>4. op_queue_ \in [Objects -> Seq(Ops)] /\ op_queue_[s] \in Seq(Ops) /\ op_queue_[s] # <<>>
  BY <1>1, <1>3 DEF ServiceInv, TypeResolver
<1>5. /\ op_queue_' = [op_queue_ EXCEPT ![s] = Tail(@)] /\ done' = done \cup {o}
      /\ op' = [op EXCEPT ![o] = Blank] /\ impl' = WithoutOwner({o}) /\ cancelled' = CancelledWith({o})
  BY <1>1
<1>6. \A y \in Ops : AtMostOnce(op_queue_[s], y)
  BY <1>3 DEF OpsInv, Once
<1>7. /\ o \in Ops /\ Has(op_queue_[s], o)
      /\ \A y \in Ops : AtMostOnce(Tail(op_queue_[s]), y) /\ (Has(Tail(op_queue_[s]), y) <=> Has(op_queue_[s], y) /\ y # o)
  <2>1. o \in Ops
    BY <1>4, TailFacts
  <2>2. Has(op_queue_[s], o)
    <3>1. o = op_queue_[s][1] /\ 1 \in 1 .. Len(op_queue_[s])
      BY <1>4, TailFacts
    <3> QED BY <3>1 DEF Has
  <2>3. \A y \in Ops : /\ AtMostOnce(Tail(op_queue_[s]), y)
                       /\ Has(Tail(op_queue_[s]), y) <=> Has(op_queue_[s], y) /\ y # o
    <3> SUFFICES ASSUME NEW y \in Ops
                 PROVE  /\ AtMostOnce(Tail(op_queue_[s]), y)
                        /\ Has(Tail(op_queue_[s]), y) <=> Has(op_queue_[s], y) /\ y # o
      OBVIOUS
    <3>1. AtMostOnce(op_queue_[s], y)
      BY <1>6
    <3> QED BY <1>4, <3>1, TailHas
  <2> QED BY <2>1, <2>2, <2>3
<1> HIDE DEF o
<1>8. op_queue_'[s] = Tail(op_queue_[s]) /\ \A u \in Objects \ {s} : op_queue_'[u] = op_queue_[u]
  BY <1>3, <1>4, <1>5
<1>9. Sits("answered", s, o, work, op_queue_) /\ "answered" \in Kinds /\ InPlace(o) /\ o \in Left
  <2>1. Sits("answered", s, o, work, op_queue_) /\ "answered" \in Kinds
    BY <1>7 DEF Sits, Kinds
  <2>2. InPlace(o)
    BY <1>3, <2>1, PlaceSits DEF InPlace
  <2> QED BY <1>7, <2>1, <2>2 DEF OpsInv
<1>10. \A j \in Kinds, u \in Objects : Sits(j, u, o, work, op_queue_) => j = "answered" /\ u = s
  BY <1>3, <1>7, <1>9 DEF OpsInv, Once
<1>11. ASSUME NEW y \in Ops, NEW k \in Kinds, NEW u \in Objects
       PROVE  Sits(k, u, y, work', op_queue_') <=> Sits(k, u, y, work, op_queue_) /\ y \notin {o}
  <2>1. CASE k = "answered" /\ u = s
    BY <1>2, <1>7, <1>8, <2>1 DEF Sits
  <2>2. CASE ~(k = "answered" /\ u = s)
    <3>1. Sits(k, u, y, work', op_queue_') <=> Sits(k, u, y, work, op_queue_)
      BY <1>2, <1>8, <2>2 DEF Sits
    <3> QED BY <1>10, <2>2, <3>1
  <2> QED BY <2>1, <2>2
<1>12. Leave({o})
  <2>1. Finished' = Finished \cup {o}
    BY <1>2, <1>5 DEF Finished
  <2>2. (done \cap destroyed)' = {}
    <3>1. o \notin destroyed /\ done \cap destroyed = {}
      BY <1>9 DEF OpsInv, Left, Finished
    <3> QED BY <1>2, <1>5, <3>1
  <2>3. \A u \in Objects, y \in Ops : AtMostOnce(work'[u].queue, y) /\ AtMostOnce(op_queue_'[u], y)
    BY <1>2, <1>7, <1>8 DEF OpsInv, Once
  <2> QED BY <1>2, <1>9, <1>11, <2>1, <2>2, <2>3 DEF Leave
<1>13. outstanding_work_' = Cardinality(Left \ {o})
  <2>1. outstanding_work_ = Cardinality(Left)
    BY <1>2 DEF OpsInv
  <2>2. Cardinality(Left \ {o}) = Cardinality(Left) - 1
    BY <1>9, LeftIsFinite, FS_RemoveElement
  <2> QED BY <1>2, <2>1, <2>2
<1>14. OpsInv' /\ \A y \in Ops : Queued(y)' <=> Queued(y) /\ y \notin {o}
  <2>1. {o} \in SUBSET Ops
    BY <1>7
  <2> QED BY <1>12, <1>13, <2>1, OpsLeave
<1>15. ~Queued(o)
  <2>1. ASSUME Queued(o) PROVE FALSE
    <3>1. PICK u \in Objects : Has(work[u].queue, o)
      BY <2>1 DEF Queued
    <3>2. Sits("waiting", u, o, work, op_queue_) /\ "waiting" \in Kinds
      BY <3>1 DEF Sits, Kinds
    <3> QED BY <1>10, <3>2
  <2> QED BY <2>1
<1>16. \A y \in Ops : Queued(y)' <=> Queued(y)
  BY <1>14, <1>15
<1> QED BY <1>5, <1>7, <1>14, <1>15, <1>16

LEMMA ShutdownLeaves ==
  ASSUME ServiceInv, OpsInv, NEW s \in Objects, ShutdownService(s)
  PROVE  \E gone \in SUBSET Ops :
            /\ DestroyOps(gone) /\ OpsInv' /\ \A o \in Ops : Queued(o)' <=> Queued(o) /\ o \notin gone
<1> DEFINE gone == ToSet(work[s].queue) \cup ToSet(op_queue_[s])
<1>1. /\ Visiting(s) /\ Visited /\ phase = "shutdown" /\ (MustStop(s) => Joined(s)) /\ DestroyOps(gone)
      /\ work' = [work EXCEPT ![s] = Idle] /\ op_queue_' = [op_queue_ EXCEPT ![s] = <<>>]
  BY DEF ShutdownService
<1>2. /\ work \in [Objects -> Work] /\ work[s].queue \in Seq(Ops)
      /\ op_queue_ \in [Objects -> Seq(Ops)] /\ op_queue_[s] \in Seq(Ops)
  BY DEF ServiceInv, TypeResolver, Work
<1>3. /\ gone \in SUBSET Ops /\ \A y : Has(work[s].queue, y) \/ Has(op_queue_[s], y) <=> y \in gone
  <2>1. ToSet(work[s].queue) \subseteq Ops /\ ToSet(op_queue_[s]) \subseteq Ops
    BY <1>2 DEF ToSet
  <2> QED BY <1>2, <2>1, InSet
<1>4. work[s].cur = NoOp
  BY <1>1, JoinedFacts
<1>5. /\ work'[s] = Idle /\ \A u \in Objects \ {s} : work'[u] = work[u]
      /\ op_queue_'[s] = <<>> /\ \A u \in Objects \ {s} : op_queue_'[u] = op_queue_[u]
      /\ Idle.queue = <<>> /\ Idle.cur = NoOp
  BY <1>1, <1>2 DEF Idle
<1>6. /\ destroyed' = destroyed \cup gone /\ issued' = issued /\ done' = done
  BY <1>1 DEF DestroyOps
<1> HIDE DEF gone
<1>7. ASSUME NEW y \in Ops, y \in gone
      PROVE  /\ \A k \in Kinds, u \in Objects : Sits(k, u, y, work, op_queue_) => u = s
             /\ InPlace(y) /\ y \in Left
  <2>1. PICK k \in Kinds : Sits(k, s, y, work, op_queue_)
    <3>1. Has(work[s].queue, y) \/ Has(op_queue_[s], y)
      BY <1>3, <1>7
    <3> QED BY <3>1 DEF Sits, Kinds
  <2>2. InPlace(y)
    BY <2>1, PlaceSits DEF InPlace
  <2> QED BY <2>1, <2>2 DEF OpsInv, Once
<1>8. ASSUME NEW y \in Ops, NEW k \in Kinds, NEW u \in Objects
      PROVE  Sits(k, u, y, work', op_queue_') <=> Sits(k, u, y, work, op_queue_) /\ y \notin gone
  <2>1. CASE u = s
    <3>1. ~Sits(k, u, y, work', op_queue_')
      BY <1>5, <2>1, OpFacts, NoneHas DEF Sits
    <3>2. Sits(k, u, y, work, op_queue_) => y \in gone
      BY <1>3, <1>4, <2>1, OpFacts DEF Sits
    <3> QED BY <3>1, <3>2
  <2>2. CASE u # s
    <3>1. Sits(k, u, y, work', op_queue_') <=> Sits(k, u, y, work, op_queue_)
      BY <1>5, <2>2 DEF Sits
    <3> QED BY <1>7, <2>2, <3>1
  <2> QED BY <2>1, <2>2
<1>9. Leave(gone)
  <2>1. Finished' = Finished \cup gone
    BY <1>6 DEF Finished
  <2>2. (done \cap destroyed)' = {}
    <3>1. \A y \in gone : y \notin done
      BY <1>3, <1>7 DEF Left, Finished
    <3>2. done \cap destroyed = {}
      BY DEF OpsInv
    <3> QED BY <1>6, <3>1, <3>2
  <2>3. \A u \in Objects, y \in Ops : AtMostOnce(work'[u].queue, y) /\ AtMostOnce(op_queue_'[u], y)
    <3>1. \A u \in Objects, y \in Ops : AtMostOnce(work[u].queue, y) /\ AtMostOnce(op_queue_[u], y)
      BY DEF OpsInv, Once
    <3> QED BY <1>5, <3>1, NoneHas
  <2> QED BY <1>3, <1>6, <1>7, <1>8, <2>1, <2>2, <2>3 DEF Leave
<1>10. phase' = "shutdown"
  BY <1>1 DEF Visited
<1>11. OpsInv' /\ \A y \in Ops : Queued(y)' <=> Queued(y) /\ y \notin gone
  BY <1>3, <1>9, <1>10, OpsLeave
<1> QED BY <1>1, <1>3, <1>11

\* Steps that concern no operation.
LEMMA CallsLeaveOps ==
  ASSUME ServiceInv, OpsInv, NEW t \in Threads, UseServices(t) \/ Registering(t)
  PROVE  OpsInv' /\ (\A o : Queued(o)' <=> Queued(o)) /\ impl' = impl /\ op' = op /\ cancelled' = cancelled
<1>1. /\ op_queue_' = op_queue_ /\ impl' = impl /\ op' = op /\ cancelled' = cancelled
      /\ UNCHANGED <<outstanding_work_, issued, done, destroyed>>
  BY DEF UseServices, Registering, Constructed, Discarded, resolverVars, ops
<1>2. phase' = phase
  BY DEF UseServices, Registering, Constructed, Discarded, UseService, MakeService, ConstructorThrows, Find,
     ConstructorUses, ConstructorEnds, Insert, Discard, walk
<1>3. work \in [Objects -> Work]
  BY DEF ServiceInv, TypeResolver
<1>4. ASSUME NEW s \in Objects PROVE work'[s].queue = work[s].queue /\ work'[s].cur = work[s].cur
  <2>1. CASE work' = work
    BY <2>1
  <2>2. CASE Constructed(t) /\ work' # work
    <3>1. work' = [work EXCEPT ![Top(t).obj].open = TRUE]
      BY <2>2 DEF Constructed
    <3> QED BY <1>3, <3>1 DEF Work
  <2>3. CASE Discarded(t)
    <3>1. work' = [work EXCEPT ![Top(t).obj] = Idle] /\ Discard(t)
      BY <2>3 DEF Discarded
    <3>2. RegistryInv
      BY DEF ServiceInv
    <3>3. Top(t).obj \in Objects /\ ~Has(list, Top(t).obj)
      BY <3>1, <3>2, DiscardSettles
    <3>4. work[Top(t).obj].queue = <<>> /\ work[Top(t).obj].cur = NoOp
      BY <3>3 DEF ServiceInv, Working, Standing, Empty
    <3>5. Idle.queue = <<>> /\ Idle.cur = NoOp
      BY DEF Idle
    <3> QED BY <1>3, <3>1, <3>4, <3>5
  <2>4. work' = work \/ Constructed(t) \/ Discarded(t)
    BY DEF UseServices, Registering, resolverVars
  <2> QED BY <2>1, <2>2, <2>3, <2>4
<1> QED BY <1>1, <1>2, <1>4, OpsRest

LEMMA ThreadLeavesOps ==
  ASSUME ServiceInv, OpsInv, NEW s \in Objects,
         ThreadEnds(s) \/ StopWork(s) \/ ForkJoin(s) \/ ForkResume(s)
  PROVE  OpsInv' /\ (\A o : Queued(o)' <=> Queued(o)) /\ impl' = impl /\ op' = op /\ cancelled' = cancelled
<1>1. /\ op_queue_' = op_queue_ /\ impl' = impl /\ op' = op /\ cancelled' = cancelled
      /\ UNCHANGED <<outstanding_work_, issued, done, destroyed>>
  BY DEF ThreadEnds, StopWork, ForkJoin, ForkResume, ops
<1>2. phase' = phase
  BY DEF ThreadEnds, StopWork, ForkJoin, ForkResume, Visited, registryVars, walk
<1>3. work \in [Objects -> Work]
  BY DEF ServiceInv, TypeResolver
<1>4. \/ work' = work
      \/ work' = [work EXCEPT ![s].thread = "ended"]
      \/ work' = [work EXCEPT ![s].stopped = TRUE]
      \/ work' = [work EXCEPT ![s].thread = "none"]
      \/ work' = [work EXCEPT ![s].stopped = FALSE]
  BY DEF ThreadEnds, StopWork, ForkJoin, ForkResume, Restarted
<1>5. PICK x : /\ work' = work \/ work' = [work EXCEPT ![s] = x]
               /\ \/ x = [work[s] EXCEPT !.thread = "ended"] \/ x = [work[s] EXCEPT !.thread = "none"]
                  \/ x = [work[s] EXCEPT !.stopped = TRUE] \/ x = [work[s] EXCEPT !.stopped = FALSE]
  BY <1>4
<1>6. work[s] \in Work
  BY <1>3
<1>7. x.queue = work[s].queue /\ x.cur = work[s].cur
  BY <1>5, <1>6 DEF Work
<1>8. ASSUME NEW u \in Objects PROVE work'[u].queue = work[u].queue /\ work'[u].cur = work[u].cur
  <2>1. CASE work' = work
    BY <2>1
  <2>2. CASE work' = [work EXCEPT ![s] = x]
    BY <1>3, <1>7, <2>2
  <2> QED BY <1>5, <2>1, <2>2
<1> QED BY <1>1, <1>2, <1>8, OpsRest

\* No operation is left when the services are deleted.
LEMMA DestroyLeavesOps ==
  ASSUME ServiceInv, OpsInv, NEW s \in Objects, DestroyService(s)
  PROVE  OpsInv' /\ (\A o : Queued(o)' <=> Queued(o)) /\ DestroyOps({})
<1>1. /\ phase = "destroy" /\ DestroyOps(ToSet(op_queue_[s]))
      /\ op_queue_' = [op_queue_ EXCEPT ![s] = <<>>] /\ work' = work /\ outstanding_work_' = outstanding_work_
      /\ phase' = phase
  BY DEF DestroyService, DestroyNext, walk
<1>2. op_queue_[s] = <<>>
  <2>1. todo = <<>>
    BY <1>1 DEF ServiceInv, RegistryInv, Walking
  <2>2. Empty(s)
    BY <1>1, <2>1, NoneHas DEF ServiceInv, Working, Standing
  <2> QED BY <2>2 DEF Empty
<1>3. ToSet(<<>>) = {}
  BY DEF ToSet
<1>4. op_queue_' = op_queue_
  BY <1>1, <1>2 DEF ServiceInv, TypeResolver
<1>5. DestroyOps({})
  BY <1>1, <1>2, <1>3
<1>6. UNCHANGED <<issued, done, destroyed>>
  BY <1>5 DEF DestroyOps
<1> QED BY <1>1, <1>4, <1>5, <1>6, OpsRest

-----------------------------------------------------------------------------
(* The tokens.                                                             *)

LEMMA TokensRest ==
  ASSUME TokensInv, impl' = impl, op' = op, cancelled' = cancelled, \A o : Queued(o)' <=> Queued(o)
  PROVE  TokensInv'
BY DEF TokensInv, Exists, Remembers, Forgotten

\* Resolvers are destroyed, and operations forget theirs.
Forgets(gone, out) ==
    /\ gone \subseteq Resolvers
    /\ \A r \in Resolvers : impl'[r] = IF r \in gone THEN Gone ELSE impl[r]
    /\ \A o \in Ops : IF o \in out THEN Forgotten(o)'
                      ELSE /\ op'[o] = op[o]
                           /\ o \in cancelled' <=> o \in cancelled \/ op[o].res \in gone
    /\ \A o \in Ops : Queued(o)' <=> Queued(o) /\ o \notin out

LEMMA TokensLeave ==
  ASSUME TokensInv, NEW gone, NEW out, Forgets(gone, out)
  PROVE  TokensInv'
<1> /\ gone \subseteq Resolvers
    /\ \A r \in Resolvers : impl'[r] = IF r \in gone THEN Gone ELSE impl[r]
    /\ \A o \in Ops : IF o \in out THEN Forgotten(o)'
                      ELSE /\ op'[o] = op[o]
                           /\ o \in cancelled' <=> o \in cancelled \/ op[o].res \in gone
    /\ \A o \in Ops : Queued(o)' <=> Queued(o) /\ o \notin out
  BY DEF Forgets
<1>0. Gone.token = NoToken /\ NoResolver \notin Resolvers
  BY ResolverAssumption DEF Gone
<1>1. \A r, q \in Resolvers : impl'[r].token = impl'[q].token /\ impl'[r].token # NoToken => r = q
  BY <1>0 DEF TokensInv
<1>2. \A r \in Resolvers : ~Exists(r)' => impl'[r].token = NoToken
  BY <1>0 DEF TokensInv, Exists
<1>3. ASSUME NEW o \in Ops PROVE IF Queued(o)' THEN Remembers(o)' ELSE Forgotten(o)'
  <2>1. CASE o \in out
    BY <2>1
  <2>2. CASE o \notin out /\ Queued(o)
    <3>1. Remembers(o) /\ op'[o] = op[o] /\ (o \in cancelled' <=> o \in cancelled \/ op[o].res \in gone)
      BY <2>2 DEF TokensInv
    <3>2. op[o].token # NoToken /\ op[o].res \in Resolvers
      BY <3>1 DEF Remembers
    <3>3. CASE o \in cancelled
      <4>1. \A r \in Resolvers : impl'[r].token # op[o].token
        BY <1>0, <3>1, <3>2, <3>3 DEF Remembers
      <4> QED BY <2>2, <3>1, <3>2, <3>3, <4>1 DEF Remembers
    <3>4. CASE o \notin cancelled /\ op[o].res \in gone
      <4>1. impl[op[o].res].token = op[o].token
        BY <3>1, <3>4 DEF Remembers
      <4>2. \A r \in Resolvers : impl'[r].token # op[o].token
        BY <1>0, <3>2, <3>4, <4>1 DEF TokensInv
      <4> QED BY <2>2, <3>1, <3>2, <3>4, <4>2 DEF Remembers
    <3>5. CASE o \notin cancelled /\ op[o].res \notin gone
      <4>1. impl'[op[o].res].token = op[o].token
        BY <3>1, <3>2, <3>5 DEF Remembers
      <4> QED BY <2>2, <3>1, <3>2, <3>5, <4>1 DEF Remembers
    <3> QED BY <3>3, <3>4, <3>5
  <2>3. CASE o \notin out /\ ~Queued(o)
    BY <1>0, <2>3 DEF TokensInv, Forgotten
  <2> QED BY <2>1, <2>2, <2>3
<1> QED BY <1>1, <1>2, <1>3 DEF TokensInv

\* A resolver gets a token that nobody remembers.
LEMMA TokensFresh ==
  ASSUME TokensInv, NEW r \in Resolvers, NEW n, n # NoToken, IsFresh(n, r),
         impl'[r].token = n, Exists(r)', \A q \in Resolvers \ {r} : impl'[q] = impl[q],
         op' = op, \A o : Queued(o)' <=> Queued(o),
         \A o \in Ops : o \in cancelled' <=> o \in cancelled \/ op[o].res = r
  PROVE  TokensInv'
<1>0. NoResolver \notin Resolvers
  BY ResolverAssumption
<1>1. (\A q \in Resolvers \ {r} : impl[q].token # n) /\ \A o \in Ops : op[o].token # n
  BY DEF IsFresh
<1>2. \A p, q \in Resolvers : impl'[p].token = impl'[q].token /\ impl'[p].token # NoToken => p = q
  BY <1>1 DEF TokensInv
<1>3. \A q \in Resolvers : ~Exists(q)' => impl'[q].token = NoToken
  BY DEF TokensInv, Exists
<1>4. ASSUME NEW o \in Ops PROVE IF Queued(o)' THEN Remembers(o)' ELSE Forgotten(o)'
  <2>1. CASE Queued(o)
    <3>1. Remembers(o)
      BY <2>1 DEF TokensInv
    <3>2. op[o].token # NoToken /\ op[o].res \in Resolvers
      BY <3>1 DEF Remembers
    <3>3. CASE o \in cancelled \/ op[o].res = r
      <4>1. \A q \in Resolvers \ {r} : impl[q].token # op[o].token
        BY <3>1, <3>2, <3>3 DEF Remembers, TokensInv
      <4>2. \A q \in Resolvers : impl'[q].token # op[o].token
        BY <1>1, <4>1
      <4> QED BY <2>1, <3>2, <3>3, <4>2 DEF Remembers
    <3>4. CASE o \notin cancelled /\ op[o].res # r
      <4>1. impl'[op[o].res].token = op[o].token
        BY <3>1, <3>2, <3>4 DEF Remembers
      <4> QED BY <2>1, <3>2, <3>4, <4>1 DEF Remembers
    <3> QED BY <3>3, <3>4
  <2>2. CASE ~Queued(o)
    <3>1. Forgotten(o)
      BY <2>2 DEF TokensInv
    <3>2. op[o].res # r
      BY <1>0, <3>1 DEF Forgotten
    <3> QED BY <2>2, <3>1, <3>2 DEF Forgotten
  <2> QED BY <2>1, <2>2
<1> QED BY <1>2, <1>3, <1>4 DEF TokensInv

\* A resolver destroyed by its owner, and the operations that go with it.
LEMMA OrphansLeave ==
  ASSUME TokensInv, NEW gone \in SUBSET Ops, impl' = WithoutOwner(gone),
         \A o \in Ops : IF o \in gone THEN Forgotten(o)' ELSE op'[o] = op[o] /\ (o \in cancelled' <=> o \in CancelledWith(gone)),
         \A o \in Ops : Queued(o)' <=> Queued(o) /\ o \notin gone
  PROVE  TokensInv'
<1>1. \A r \in Resolvers : impl'[r] = IF r \in Orphans(gone) THEN Gone ELSE impl[r]
  BY DEF WithoutOwner
<1>2. \A o \in Ops : o \in CancelledWith(gone) <=> o \in cancelled \/ op[o].res \in Orphans(gone)
  BY DEF CancelledWith, OpsOf
<1>3. Orphans(gone) \subseteq Resolvers
  BY DEF Orphans
<1>4. Forgets(Orphans(gone), gone)
  BY <1>1, <1>2, <1>3 DEF Forgets
<1> QED BY <1>4, TokensLeave

LEMMA DestroyedForget ==
  ASSUME ServiceInv, TokensInv, NEW gone \in SUBSET Ops, DestroyOps(gone),
         \A o \in Ops : Queued(o)' <=> Queued(o) /\ o \notin gone
  PROVE  TokensInv'
<1>1. /\ impl' = WithoutOwner(gone) /\ cancelled' = CancelledWith(gone) \ gone
      /\ op' = [o \in Ops |-> IF o \in gone THEN Blank ELSE op[o]]
  BY DEF DestroyOps
<1>2. Blank.token = NoToken /\ Blank.res = NoResolver
  BY DEF Blank
<1>3. \A o \in Ops : IF o \in gone THEN Forgotten(o)' ELSE op'[o] = op[o] /\ (o \in cancelled' <=> o \in CancelledWith(gone))
  BY <1>1, <1>2 DEF Forgotten
<1> QED BY <1>1, <1>3, OrphansLeave

LEMMA HandlerForgets ==
  ASSUME ServiceInv, OpsInv, TokensInv, RunHandler
  PROVE  TokensInv'
<1>1. PICK o \in Ops : /\ op' = [op EXCEPT ![o] = Blank] /\ impl' = WithoutOwner({o}) /\ cancelled' = CancelledWith({o})
                       /\ ~Queued(o) /\ \A p \in Ops : Queued(p)' <=> Queued(p)
  BY HandlerLeaves
<1>2. op \in [Ops -> OpRecord] /\ Blank.token = NoToken /\ Blank.res = NoResolver /\ NoResolver \notin Resolvers
  BY ResolverAssumption DEF ServiceInv, TypeResolver, Blank
<1>3. Forgotten(o)
  BY <1>1 DEF TokensInv
<1>4. o \notin cancelled'
  BY <1>1, <1>2, <1>3 DEF Forgotten, CancelledWith, OpsOf, Orphans
<1>5. Forgotten(o)'
  BY <1>1, <1>2, <1>4 DEF Forgotten
<1>6. \A p \in Ops : IF p \in {o} THEN Forgotten(p)' ELSE op'[p] = op[p] /\ (p \in cancelled' <=> p \in CancelledWith({o}))
  BY <1>1, <1>2, <1>5
<1>7. \A p \in Ops : Queued(p)' <=> Queued(p) /\ p \notin {o}
  BY <1>1
<1> QED BY <1>1, <1>6, <1>7, OrphansLeave

LEMMA TakeForgets ==
  ASSUME ServiceInv, OpsInv, TokensInv, NEW s \in Objects, Take(s)
  PROVE  TokensInv'
<1>1. PICK o \in Ops : o = Head(work[s].queue) /\ \A p \in Ops : Queued(p)' <=> Queued(p) /\ p # o
  BY TakeMoves
<1>2. /\ impl' = impl /\ cancelled' = cancelled \ {o}
      /\ op' = [op EXCEPT ![o] =
                  [Blank EXCEPT !.answer = IF Expired(op[o].token) THEN "aborted" ELSE "result"]]
  BY <1>1 DEF Take
<1>3. PICK z : z = [Blank EXCEPT !.answer = IF Expired(op[o].token) THEN "aborted" ELSE "result"]
  OBVIOUS
<1>4. z.token = NoToken /\ z.res = NoResolver
  BY <1>3 DEF Blank
<1>5. op \in [Ops -> OpRecord] /\ op' = [op EXCEPT ![o] = z]
  BY <1>2, <1>3 DEF ServiceInv, TypeResolver
<1>6. Forgotten(o)'
  BY <1>1, <1>2, <1>4, <1>5 DEF Forgotten
<1>7. Forgets({}, {o})
  BY <1>1, <1>2, <1>5, <1>6 DEF Forgets
<1> QED BY <1>7, TokensLeave

\* The calls of the program on its resolvers.
LEMMA CreateTokens ==
  ASSUME ServiceInv, TokensInv, NEW t \in Threads, NEW r \in Resolvers, Create(t, r),
         \A o : Queued(o)' <=> Queued(o)
  PROVE  TokensInv'
<1>1. PICK s \in found[t] : impl' = [impl EXCEPT ![r] = [svc |-> s, token |-> FreshToken(r), owner |-> Program]]
  BY DEF Create
<1>2. ~Exists(r) /\ op' = op /\ cancelled' = cancelled /\ impl \in [Resolvers -> Impl] /\ s \in Objects
  BY DEF Create, ops, ServiceInv, TypeResolver, RegistryInv, TypeRegistry
<1>3. PICK n : n = FreshToken(r)
  OBVIOUS
<1>4. n # NoToken /\ IsFresh(n, r)
  BY <1>3, FreshTokenFacts DEF ServiceInv, Tokens, NoToken
<1>5. impl'[r].token = n /\ Exists(r)' /\ \A q \in Resolvers \ {r} : impl'[q] = impl[q]
  BY <1>1, <1>2, <1>3 DEF Exists, Objects, NoObject
<1>6. ASSUME NEW o \in Ops, op[o].res = r PROVE o \in cancelled
  <2>1. impl[r].token = NoToken
    BY <1>2 DEF TokensInv
  <2>2. CASE Queued(o)
    BY <1>6, <2>1, <2>2 DEF TokensInv, Remembers
  <2>3. CASE ~Queued(o)
    BY <1>6, <2>3, ResolverAssumption DEF TokensInv, Forgotten
  <2> QED BY <2>2, <2>3
<1> QED BY <1>2, <1>4, <1>5, <1>6, TokensFresh

LEMMA CancelTokens ==
  ASSUME ServiceInv, TokensInv, NEW r \in Resolvers, Cancel(r), \A o : Queued(o)' <=> Queued(o)
  PROVE  TokensInv'
<1>1. /\ impl' = [impl EXCEPT ![r].token = FreshToken(r)] /\ Exists(r) /\ op' = op
      /\ cancelled' = cancelled \cup OpsOf(r) /\ impl \in [Resolvers -> Impl]
  BY DEF Cancel, Held, ServiceInv, TypeResolver
<1>2. PICK n : n = FreshToken(r)
  OBVIOUS
<1>3. n # NoToken /\ IsFresh(n, r)
  BY <1>2, FreshTokenFacts DEF ServiceInv, Tokens, NoToken
<1>4. impl'[r].token = n /\ Exists(r)' /\ \A q \in Resolvers \ {r} : impl'[q] = impl[q]
  BY <1>1, <1>2 DEF Exists, Impl
<1>5. \A o \in Ops : o \in cancelled' <=> o \in cancelled \/ op[o].res = r
  BY <1>1 DEF OpsOf
<1> QED BY <1>1, <1>3, <1>4, <1>5, TokensFresh

LEMMA DestroyTokens ==
  ASSUME ServiceInv, TokensInv, NEW r \in Resolvers, DestroyResolver(r), \A o : Queued(o)' <=> Queued(o)
  PROVE  TokensInv'
<1>1. /\ impl' = [impl EXCEPT ![r] = Gone] /\ op' = op
      /\ cancelled' = cancelled \cup OpsOf(r) /\ impl \in [Resolvers -> Impl]
  BY DEF DestroyResolver, ServiceInv, TypeResolver
<1>2. Forgets({r}, {})
  BY <1>1 DEF OpsOf, Forgets
<1> QED BY <1>2, TokensLeave

LEMMA MoveTokens ==
  ASSUME ServiceInv, TokensInv, NEW r \in Resolvers, NEW to \in Resolvers, Move(r, to),
         \A o : Queued(o)' <=> Queued(o)
  PROVE  TokensInv'
<1>1. /\ r # to /\ Exists(r) /\ impl \in [Resolvers -> Impl] /\ op \in [Ops -> OpRecord]
      /\ impl' = [impl EXCEPT ![to] = impl[r], ![r].token = NoToken]
      /\ cancelled' = cancelled \cup OpsOf(to)
      /\ op' = [o \in Ops |-> IF o \in OpsOf(r) THEN [op[o] EXCEPT !.res = to] ELSE op[o]]
  BY DEF Move, Held, ServiceInv, TypeResolver
<1>2. /\ impl'[to] = impl[r] /\ impl'[r].token = NoToken /\ impl'[r].svc = impl[r].svc
      /\ \A q \in Resolvers \ {r, to} : impl'[q] = impl[q]
  BY <1>1 DEF Impl
<1>3. \A o \in Ops : /\ op'[o].token = op[o].token
                     /\ op'[o].res = IF op[o].res = r THEN to ELSE op[o].res
                     /\ o \in cancelled' <=> o \in cancelled \/ op[o].res = to
  BY <1>1 DEF OpsOf, OpRecord
<1>4. \A p, q \in Resolvers : impl'[p].token = impl'[q].token /\ impl'[p].token # NoToken => p = q
  BY <1>1, <1>2 DEF TokensInv
<1>5. \A q \in Resolvers : ~Exists(q)' => impl'[q].token = NoToken
  BY <1>1, <1>2 DEF TokensInv, Exists
<1>6. ASSUME NEW o \in Ops PROVE IF Queued(o)' THEN Remembers(o)' ELSE Forgotten(o)'
  <2>1. CASE Queued(o)
    <3>1. Remembers(o)
      BY <2>1 DEF TokensInv
    <3>2. op[o].token # NoToken /\ op[o].res \in Resolvers /\ op'[o].token = op[o].token /\ op'[o].res \in Resolvers
      BY <1>3, <3>1 DEF Remembers
    <3>3. CASE o \in cancelled
      <4>1. \A q \in Resolvers : impl'[q].token # op[o].token
        BY <1>2, <3>1, <3>2, <3>3 DEF Remembers
      <4> QED BY <1>3, <2>1, <3>2, <3>3, <4>1 DEF Remembers
    <3>4. CASE o \notin cancelled /\ op[o].res = to
      <4>1. impl[to].token = op[o].token
        BY <3>1, <3>4 DEF Remembers
      <4>2. \A q \in Resolvers : impl'[q].token # op[o].token
        BY <1>1, <1>2, <3>2, <4>1 DEF TokensInv
      <4> QED BY <1>3, <2>1, <3>2, <3>4, <4>2 DEF Remembers
    <3>5. CASE o \notin cancelled /\ op[o].res # to
      <4>1. impl[op[o].res].token = op[o].token
        BY <3>1, <3>5 DEF Remembers
      <4>2. impl'[op'[o].res].token = op[o].token
        BY <1>1, <1>2, <1>3, <3>2, <3>5, <4>1
      <4>3. o \notin cancelled'
        BY <1>3, <3>5
      <4> QED BY <2>1, <3>2, <4>2, <4>3 DEF Remembers
    <3> QED BY <3>3, <3>4, <3>5
  <2>2. CASE ~Queued(o)
    <3>1. Forgotten(o) /\ NoResolver \notin Resolvers
      BY <2>2, ResolverAssumption DEF TokensInv
    <3> QED BY <1>3, <2>2, <3>1 DEF Forgotten
  <2> QED BY <2>1, <2>2
<1> QED BY <1>4, <1>5, <1>6 DEF TokensInv

\* A resolver that has been moved from has no token to give.
LEMMA ResolveTokens ==
  ASSUME ServiceInv, OpsInv, TokensInv, "resolve_moved" \notin Uses,
         NEW r \in Resolvers, NEW owned \in BOOLEAN, AsyncResolve(r, owned)
  PROVE  TokensInv'
<1>1. PICK o : o = issued + 1
  OBVIOUS
<1>2. /\ o \in Ops /\ ~InPlace(o) /\ \A p \in Ops : Queued(p)' <=> p = o \/ Queued(p)
  BY <1>1, ResolveComes
<1>3. /\ Exists(r) /\ impl[r].token # NoToken /\ cancelled' = cancelled
      /\ impl' = [impl EXCEPT ![r].owner = IF owned THEN o ELSE Program]
      /\ op' = [op EXCEPT ![o].token = impl[r].token, ![o].res = r]
      /\ impl \in [Resolvers -> Impl] /\ op \in [Ops -> OpRecord]
  BY <1>1 DEF AsyncResolve, Held, ServiceInv, TypeResolver
<1>4. \A q \in Resolvers : impl'[q].token = impl[q].token /\ (Exists(q)' <=> Exists(q))
  BY <1>3 DEF Impl, Exists
<1>5. op'[o].token = impl[r].token /\ op'[o].res = r /\ \A p \in Ops \ {o} : op'[p] = op[p]
  BY <1>2, <1>3 DEF OpRecord
<1>6. ~Queued(o)
  BY <1>2 DEF Queued, InPlace, Within
<1>7. o \notin cancelled
  BY <1>2, <1>6 DEF TokensInv, Forgotten
<1>8. ASSUME NEW p \in Ops PROVE IF Queued(p)' THEN Remembers(p)' ELSE Forgotten(p)'
  <2>1. CASE p = o
    <3>1. Remembers(p)'
      BY <1>3, <1>4, <1>5, <1>7, <2>1 DEF Remembers
    <3> QED BY <1>2, <2>1, <3>1
  <2>2. CASE p # o /\ Queued(p)
    <3>1. Remembers(p)
      BY <2>2 DEF TokensInv
    <3>2. Remembers(p)'
      BY <1>3, <1>4, <1>5, <2>2, <3>1 DEF Remembers
    <3> QED BY <1>2, <2>2, <3>2
  <2>3. CASE p # o /\ ~Queued(p)
    <3>1. Forgotten(p)
      BY <2>3 DEF TokensInv
    <3>2. Forgotten(p)'
      BY <1>3, <1>5, <2>3, <3>1 DEF Forgotten
    <3> QED BY <1>2, <2>3, <3>2
  <2> QED BY <2>1, <2>2, <2>3
<1> QED BY <1>4, <1>8 DEF TokensInv

\* The invariant is inductive.
LEMMA NextKeepsOnce ==
  ASSUME OnceInv, "resolve_moved" \notin Uses, [Next]_vars
  PROVE  OnceInv'
<1>0. ServiceInv /\ OpsInv /\ TokensInv
  BY DEF OnceInv
<1>1. ServiceInv'
  BY <1>0, NextKeeps
<1> SUFFICES OpsInv' /\ TokensInv'
  BY <1>1 DEF OnceInv
<1>2. ASSUME NEW t \in Threads, UseServices(t) \/ Registering(t) PROVE OpsInv' /\ TokensInv'
  BY <1>0, <1>2, CallsLeaveOps, TokensRest
<1>3. CASE \/ \E t \in Threads, r \in Resolvers : Create(t, r)
           \/ \E r \in Resolvers : Cancel(r) \/ DestroyResolver(r)
           \/ \E r, to \in Resolvers : Move(r, to)
  <2>1. /\ op_queue_' = op_queue_ /\ work' = work /\ UNCHANGED <<outstanding_work_, issued, done, destroyed>>
        /\ phase' = phase
    BY <1>3 DEF Create, Cancel, DestroyResolver, Move, ops, registryVars, walk
  <2>2. OpsInv' /\ \A o : Queued(o)' <=> Queued(o)
    BY <1>0, <2>1, OpsRest
  <2>3. TokensInv'
    BY <1>0, <1>3, <2>2, CreateTokens, CancelTokens, DestroyTokens, MoveTokens
  <2> QED BY <2>2, <2>3
<1>4. ASSUME NEW r \in Resolvers, NEW owned \in BOOLEAN, AsyncResolve(r, owned) PROVE OpsInv' /\ TokensInv'
  BY <1>0, <1>4, ResolveComes, ResolveTokens
<1>5. CASE RunHandler
  BY <1>0, <1>5, HandlerLeaves, HandlerForgets
<1>6. ASSUME NEW s \in Objects, Take(s) PROVE OpsInv' /\ TokensInv'
  BY <1>0, <1>6, TakeMoves, TakeForgets
<1>7. ASSUME NEW s \in Objects, PassBack(s) PROVE OpsInv' /\ TokensInv'
  <2>1. impl' = impl /\ op' = op /\ cancelled' = cancelled
    BY <1>7 DEF PassBack, ops
  <2>2. OpsInv' /\ \A o \in Ops : Queued(o)' <=> Queued(o)
    BY <1>0, <1>7, PassBackMoves
  <2> QED BY <1>0, <2>1, <2>2 DEF TokensInv, Exists, Remembers, Forgotten
<1>8. ASSUME NEW s \in Objects, ThreadEnds(s) \/ StopWork(s) \/ ForkJoin(s) \/ ForkResume(s)
      PROVE  OpsInv' /\ TokensInv'
  BY <1>0, <1>8, ThreadLeavesOps, TokensRest
<1>9. ASSUME NEW s \in Objects, ShutdownService(s) PROVE OpsInv' /\ TokensInv'
  <2>1. PICK gone \in SUBSET Ops :
           DestroyOps(gone) /\ OpsInv' /\ \A o \in Ops : Queued(o)' <=> Queued(o) /\ o \notin gone
    BY <1>0, <1>9, ShutdownLeaves
  <2> QED BY <1>0, <2>1, DestroyedForget
<1>10. ASSUME NEW s \in Objects, DestroyService(s) PROVE OpsInv' /\ TokensInv'
  <2>1. OpsInv' /\ (\A o : Queued(o)' <=> Queued(o)) /\ DestroyOps({})
    BY <1>0, <1>10, DestroyLeavesOps
  <2>2. {} \in SUBSET Ops /\ \A o \in Ops : Queued(o)' <=> Queued(o) /\ o \notin {}
    BY <2>1
  <2>3. TokensInv'
    BY <1>0, <2>1, <2>2, DestroyedForget
  <2> QED BY <2>1, <2>3
<1>11. CASE BeginWalk \/ UNCHANGED vars
  <2>1. /\ op_queue_' = op_queue_ /\ work' = work /\ UNCHANGED <<outstanding_work_, issued, done, destroyed>>
        /\ impl' = impl /\ op' = op /\ cancelled' = cancelled
    BY <1>11 DEF BeginWalk, vars, resolverVars, ops
  <2>2. phase \in {"shutdown", "destroy"} => phase' \in {"shutdown", "destroy"}
    BY <1>11 DEF BeginWalk, ForkPrepare, Fork, ForkEnds, Shutdown, Destroy, Begin, vars, registryVars, walk
  <2> QED BY <1>0, <2>1, <2>2, OpsRest, TokensRest
<1> QED BY <1>2, <1>3, <1>4, <1>5, <1>6, <1>7, <1>8, <1>9, <1>10, <1>11 DEF Next, WorkThread, Walk

LEMMA OnceInit == Init => OnceInv
<1> SUFFICES ASSUME Init PROVE OnceInv
  OBVIOUS
<1>1. ServiceInv
  BY InitEstablishes
<1>2. /\ work = [s \in Objects |-> Idle] /\ op_queue_ = [s \in Objects |-> <<>>] /\ outstanding_work_ = 0
      /\ impl = [r \in Resolvers |-> Gone] /\ op = [o \in Ops |-> Blank]
      /\ issued = 0 /\ done = {} /\ destroyed = {} /\ cancelled = {}
  BY DEF Init
<1>3. Idle.queue = <<>> /\ Idle.cur = NoOp /\ Gone.token = NoToken /\ Blank.token = NoToken /\ Blank.res = NoResolver
  BY DEF Idle, Gone, Blank
<1>4. \A s \in Objects, o \in Ops : /\ ~Has(work[s].queue, o) /\ work[s].cur # o /\ ~Has(op_queue_[s], o)
                                    /\ AtMostOnce(work[s].queue, o) /\ AtMostOnce(op_queue_[s], o)
  BY <1>1, <1>2, <1>3, OpFacts, NoneHas
<1>5. Left = {} /\ Finished = {}
  BY <1>2 DEF Left, Finished
<1>6. OpsInv
  <2>1. Cardinality({}) = 0
    BY FS_EmptySet
  <2>2. Once(work, op_queue_)
    BY <1>4 DEF Once, Sits
  <2>3. \A o \in Ops : ~InPlace(o)
    BY <1>4 DEF InPlace, Within
  <2> QED BY <1>2, <1>5, <2>1, <2>2, <2>3 DEF OpsInv
<1>7. TokensInv
  <2>1. \A o \in Ops : ~Queued(o) /\ Forgotten(o)
    BY <1>2, <1>3, <1>4 DEF Queued, Forgotten
  <2> QED BY <1>2, <1>3, <2>1 DEF TokensInv
<1> QED BY <1>1, <1>6, <1>7 DEF OnceInv

\* An operation that is left has one place, the others have none.
LEMMA PlacesCount ==
  ASSUME OnceInv, NEW o \in Ops
  PROVE  Cardinality(Places(o)) = IF o \in Left THEN 1 ELSE 0
<1>0. ServiceInv /\ OpsInv
  BY DEF OnceInv
<1> DEFINE Seats(k, s) == IF k = "waiting" THEN work[s].queue
                          ELSE IF k = "resolving" THEN <<work[s].cur>> ELSE op_queue_[s]
<1>1. \A p : p \in Places(o) <=> \E k \in Kinds, s \in Objects :
                                    \E i \in 1 .. Len(Seats(k, s)) : Seats(k, s)[i] = o /\ p = <<k, s, i>>
  <2>1. ASSUME NEW s \in Objects, NEW k \in Kinds PROVE DOMAIN Seats(k, s) = 1 .. Len(Seats(k, s))
    <3>1. work[s].queue \in Seq(Ops) /\ op_queue_[s] \in Seq(Ops) /\ <<work[s].cur>> \in Seq(Ops \cup {NoOp})
      BY <1>0, OpFacts
    <3> QED BY <3>1, LenProperties
  <2>2. \A s \in Objects : /\ DOMAIN work[s].queue = 1 .. Len(work[s].queue)
                           /\ DOMAIN <<work[s].cur>> = 1 .. Len(<<work[s].cur>>)
                           /\ DOMAIN op_queue_[s] = 1 .. Len(op_queue_[s])
    BY <2>1 DEF Kinds
  <2> SUFFICES ASSUME NEW p
               PROVE  p \in Places(o) <=> \E k \in Kinds, s \in Objects :
                                    \E i \in 1 .. Len(Seats(k, s)) : Seats(k, s)[i] = o /\ p = <<k, s, i>>
    OBVIOUS
  <2>3. p \in Places(o) <=>
           \E s \in Objects : \/ \E i \in 1 .. Len(work[s].queue) : work[s].queue[i] = o /\ p = <<"waiting", s, i>>
                              \/ \E i \in 1 .. Len(<<work[s].cur>>) : <<work[s].cur>>[i] = o /\ p = <<"resolving", s, i>>
                              \/ \E i \in 1 .. Len(op_queue_[s]) : op_queue_[s][i] = o /\ p = <<"answered", s, i>>
    BY <2>2 DEF Places, Positions
  <2> QED BY <2>3 DEF Kinds
<1>2. ASSUME NEW k \in Kinds, NEW s \in Objects
      PROVE  /\ Sits(k, s, o, work, op_queue_) <=> \E i \in 1 .. Len(Seats(k, s)) : Seats(k, s)[i] = o
             /\ \A i, j \in 1 .. Len(Seats(k, s)) : Seats(k, s)[i] = o /\ Seats(k, s)[j] = o => i = j
  <2>1. CASE k = "resolving"
    <3>1. Has(<<work[s].cur>>, o) <=> o = work[s].cur
      BY OneHas
    <3>2. AtMostOnce(<<work[s].cur>>, o)
      BY OneHas
    <3> QED BY <2>1, <3>1, <3>2 DEF Sits, Has, AtMostOnce
  <2>2. CASE k # "resolving"
    <3>1. AtMostOnce(work[s].queue, o) /\ AtMostOnce(op_queue_[s], o)
      BY <1>0 DEF OpsInv, Once
    <3> QED BY <2>2, <3>1 DEF Sits, Has, AtMostOnce, Kinds
  <2> QED BY <2>1, <2>2
<1> HIDE DEF Seats
<1>3. CASE o \in Left
  <2>1. PICK k \in Kinds, s \in Objects : Sits(k, s, o, work, op_queue_)
    <3>1. Within(o, work, op_queue_)
      BY <1>0, <1>3 DEF OpsInv, InPlace
    <3> QED BY <3>1, PlaceSits
  <2>2. PICK i \in 1 .. Len(Seats(k, s)) : Seats(k, s)[i] = o
    BY <1>2, <2>1
  <2>3. ASSUME NEW p, p \in Places(o) PROVE p = <<k, s, i>>
    <3>1. PICK j \in Kinds, u \in Objects : \E n \in 1 .. Len(Seats(j, u)) : Seats(j, u)[n] = o /\ p = <<j, u, n>>
      BY <1>1, <2>3
    <3>2. PICK n \in 1 .. Len(Seats(j, u)) : Seats(j, u)[n] = o /\ p = <<j, u, n>>
      BY <3>1
    <3>3. j = k /\ u = s
      BY <1>0, <1>2, <2>1, <3>2 DEF OpsInv, Once
    <3> QED BY <1>2, <2>2, <3>2, <3>3
  <2>4. <<k, s, i>> \in Places(o)
    BY <1>1, <2>2
  <2>5. Places(o) = {<<k, s, i>>}
    BY <2>3, <2>4
  <2>6. PICK x : x = <<k, s, i>>
    OBVIOUS
  <2> QED BY <1>3, <2>5, <2>6, FS_Singleton
<1>4. CASE o \notin Left
  <2>1. ~Within(o, work, op_queue_)
    BY <1>0, <1>4 DEF OpsInv, InPlace
  <2>2. Places(o) = {}
    BY <1>1, <1>2, <2>1, PlaceSits
  <2> QED BY <1>4, <2>2, FS_EmptySet
<1> QED BY <1>3, <1>4

LEMMA InvImpliesOnce ==
  ASSUME OnceInv
  PROVE  ResolvedOnce
<1>0. ServiceInv /\ OpsInv /\ TokensInv
  BY DEF OnceInv
<1>1. ASSUME NEW o \in 1 .. issued PROVE Cardinality(Places(o)) = IF o \in Finished THEN 0 ELSE 1
  <2>1. o \in Ops
    BY <1>0, OpFacts
  <2> QED BY <2>1, PlacesCount DEF Left
<1>2. Open => outstanding_work_ = Cardinality((1 .. issued) \ Finished)
  BY <1>0 DEF Open, OpsInv, Left
<1>3. ASSUME phase = "destroy" PROVE Finished = 1 .. issued
  <2>1. todo = <<>>
    BY <1>0, <1>3 DEF ServiceInv, RegistryInv, Walking
  <2>2. \A s \in Objects : Empty(s)
    BY <1>0, <1>3, <2>1, NoneHas DEF ServiceInv, Working, Standing
  <2>3. ASSUME NEW o \in Ops PROVE ~InPlace(o)
    BY <1>0, <2>2, NoneHas, OpFacts DEF InPlace, Within, Empty
  <2>4. \A o \in 1 .. issued : o \in Finished
    BY <1>0, <2>3, OpFacts DEF OpsInv, Left
  <2> QED BY <1>0, <2>4 DEF OpsInv
<1>4. ASSUME NEW s \in Objects, NEW o \in ToSet(work[s].queue) PROVE Expired(op[o].token) <=> o \in cancelled
  <2>1. work[s].queue \in Seq(Ops)
    BY <1>0, OpFacts
  <2>2. o \in Ops /\ Has(work[s].queue, o)
    <3>1. Has(work[s].queue, o)
      BY <2>1, InSet
    <3>2. ToSet(work[s].queue) \subseteq Ops
      BY <2>1 DEF ToSet
    <3> QED BY <3>1, <3>2
  <2>3. Remembers(o)
    BY <1>0, <2>2 DEF TokensInv, Queued
  <2> QED BY <2>3 DEF Remembers, Expired
<1>5. done \cap destroyed = {}
  BY <1>0 DEF OpsInv
<1> QED BY <1>1, <1>2, <1>3, <1>4, <1>5 DEF ResolvedOnce

\* Throughout cancellation, moves, forks, shutdown and destruction, in a program that starts no
\* operation on a resolver it has moved from: a resolve operation is in one place until its
\* handler has run or been destroyed, exactly once, and none is left when the first service is
\* deleted (start_resolve_op, resolve_op::do_complete, base_shutdown); the context has as much
\* work as there are operations; and what background_getaddrinfo makes of an operation's token
\* is what has been done to the resolver responsible for it.
THEOREM OperationsAreResolvedOnce == ASSUME "resolve_moved" \notin Uses PROVE Spec => []ResolvedOnce
<1>1. Init => OnceInv
  BY OnceInit
<1>2. OnceInv /\ [Next]_vars => OnceInv'
  BY NextKeepsOnce
<1>3. OnceInv => ResolvedOnce
  BY InvImpliesOnce
<1> QED BY <1>1, <1>2, <1>3, PTL DEF Spec
=============================================================================
