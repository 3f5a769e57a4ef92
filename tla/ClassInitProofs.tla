--------------------------- MODULE ClassInitProofs ---------------------------
(***************************************************************************)
(* Proofs about ClassInitialization, for any threads, classes, supertypes  *)
(* and uses: <clinit> runs once, supertypes come first, a class in         *)
(* progress has its thread, and what initializeClass returns means.        *)
(***************************************************************************)
EXTENDS ClassInitialization, Integers, TLAPS

Labels == {"check", "markVerify", "verifySuper", "verify", "verified", "prepare",
           "markInit", "initialize", "clinit", "inProgress", "wait"}

Verifying    == {"verifySuper", "verify", "verified"}
Initializing == {"initialize", "clinit"}

FrameType == [class : Class, desired : {"VERIFIED", "PREPARED", "INITIALIZED"},
              at : Labels, todo : Seq(Class)]

StatusType ==
    [state : {"Unverified", "Unprepared", "NotInitialized", "Succeeded", "Failed"},
     by : Thread \cup {NoThread}]

TypeOK ==
    /\ status \in [Class -> StatusType]
    /\ stack \in [Thread -> Seq(FrameType)]
    /\ exc \subseteq Thread
    /\ clinits \in [Class -> Nat]
    /\ abandoned \subseteq Class

(* The superclass, its superclass, and so on. *)
Ancestor == CHOOSE r \in SUBSET (Class \X Class) : IsAncestry(r)

(* Nothing more is to be done for class p before its subclass's <clinit> runs. *)
Settled(p) ==
    \/ LeftAlone(p)
    \/ status[p].state \in {"Succeeded", "Failed"}
    \/ status[p].state = "NotInitialized" /\ status[p].by # NoThread
    \/ p \in abandoned

(* Whose status is what, by what is done with the class. *)
StatusOK ==
    \A c \in Class :
        /\ status[c].by # NoThread => status[c].state \in {"Unverified", "NotInitialized"}
        /\ clinits[c] <= 1
        /\ status[c].state \in {"Unverified", "Unprepared"} => clinits[c] = 0
        /\ status[c].state = "NotInitialized" /\ status[c].by = NoThread => clinits[c] = 0

(* Activations that are not the innermost one have called it; what an activation has
   got to do was asked of it. *)
ShapeAt(t, i) ==
    /\ i > 1 => stack[t][i].at \in {"verify", "prepare", "initialize", "clinit"}
    /\ stack[t][i].at = "prepare" => stack[t][i].desired # "VERIFIED"
    /\ stack[t][i].at \in {"markInit", "initialize", "clinit"} => stack[t][i].desired = "INITIALIZED"

(* A superclass is being verified on behalf of the class below it: the classes that
   one thread verifies are all different. *)
VerifyAt(t, i, j) ==
    i < j /\ stack[t][j].at = "verify" =>
        /\ stack[t][i].desired = "VERIFIED"
        /\ <<stack[t][j].class, stack[t][i].class>> \in Ancestor

MarkedBy(c, s, t) == status[c].state = s /\ status[c].by = t

(* An activation that has marked its class finds the mark where it left it. *)
MarkAt(t, i) ==
    /\ stack[t][i].at \in Verifying => MarkedBy(stack[t][i].class, "Unverified", t)
    /\ stack[t][i].at \in Initializing => MarkedBy(stack[t][i].class, "NotInitialized", t)
    /\ stack[t][i].at = "initialize" => clinits[stack[t][i].class] = 0

(* No class is initialized by two activations of one thread. *)
OnceAt(t, i, j) ==
    i < j /\ stack[t][i].at \in Initializing /\ stack[t][j].at \in Initializing
        => stack[t][i].class # stack[t][j].class

(* Of the supertypes to initialize, each one is settled, or still to do, or being
   initialized by the activation called, unless that failed. *)
ParentAt(t, i, p) ==
    /\ stack[t][i].at = "initialize" =>
          \/ Settled(p)
          \/ \E n \in DOMAIN stack[t][i].todo : stack[t][i].todo[n] = p
          \/ i = 1 /\ t \in exc
          \/ \E k \in DOMAIN stack[t] : k + 1 = i /\ stack[t][k].class = p /\ stack[t][k].desired = "INITIALIZED"
    /\ stack[t][i].at = "clinit" => Settled(p)

Parents(c) == {ToInitialize(c)[k] : k \in DOMAIN ToInitialize(c)}

ShapeOK  == \A t \in Thread : \A i \in DOMAIN stack[t] : ShapeAt(t, i)
VerifyOK == \A t \in Thread : \A i, j \in DOMAIN stack[t] : VerifyAt(t, i, j)
MarkOK   == \A t \in Thread : \A i \in DOMAIN stack[t] : MarkAt(t, i)
OnceOK   == \A t \in Thread : \A i, j \in DOMAIN stack[t] : OnceAt(t, i, j)
ParentOK == \A t \in Thread : \A i \in DOMAIN stack[t] : \A p \in Parents(stack[t][i].class) : ParentAt(t, i, p)

IInv ==
    /\ TypeOK /\ StatusOK /\ ShapeOK /\ VerifyOK /\ MarkOK /\ OnceOK /\ ParentOK
    /\ SupertypesInitializedFirst /\ InProgressHasThread

-----------------------------------------------------------------------------
(* What a step of t does to the stacks: it moves on in its innermost activation, calls
   another one, or returns from it. *)

IsFrame(f, c, d, l, parents) ==
    f \in FrameType /\ f.class = c /\ f.desired = d /\ f.at = l /\ f.todo = parents

OthersKeep(t) ==
    /\ stack' \in [Thread -> Seq(FrameType)]
    /\ \A u \in Thread : u # t => stack'[u] = stack[u]

Moves(t, l, parents) ==
    /\ OthersKeep(t)
    /\ Len(stack'[t]) = Len(stack[t])
    /\ \A i \in 2..Len(stack[t]) : stack'[t][i] = stack[t][i]
    /\ IsFrame(stack'[t][1], Top(t).class, Top(t).desired, l, parents)

Calls(t, c, d, l, parents) ==
    /\ OthersKeep(t)
    /\ Len(stack'[t]) = Len(stack[t]) + 1
    /\ \A i \in 2..Len(stack[t]) : stack'[t][i + 1] = stack[t][i]
    /\ IsFrame(stack'[t][2], Top(t).class, Top(t).desired, l, parents)
    /\ IsFrame(stack'[t][1], c, d, "check", <<>>)

Returns(t) ==
    /\ OthersKeep(t)
    /\ Len(stack'[t]) = Len(stack[t]) - 1
    /\ \A i \in 1..(Len(stack[t]) - 1) : stack'[t][i] = stack[t][i + 1]

(* An innermost activation, when there is one, is a frame. *)
LEMMA TopTyped ==
    ASSUME TypeOK, NEW t \in Thread, stack[t] # <<>>
    PROVE  /\ Len(stack[t]) \in Nat /\ Len(stack[t]) >= 1 /\ DOMAIN stack[t] = 1..Len(stack[t])
           /\ stack[t] \in Seq(FrameType) /\ Top(t) \in FrameType /\ Top(t).class \in Class
           /\ Top(t).todo \in Seq(Class) /\ Top(t).at \in Labels
           /\ Top(t).desired \in {"VERIFIED", "PREPARED", "INITIALIZED"}
  <1>1. stack[t] \in Seq(FrameType) /\ Len(stack[t]) >= 1 /\ DOMAIN stack[t] = 1..Len(stack[t])
    BY SMT DEF TypeOK
  <1>2. Top(t) \in FrameType
    BY <1>1 DEF Top
  <1> QED
    BY <1>1, <1>2 DEF FrameType

(* Every activation is a frame. *)
LEMMA FrameTyped ==
    ASSUME TypeOK, NEW t \in Thread, NEW i \in DOMAIN stack[t]
    PROVE  stack[t][i] \in FrameType /\ stack[t][i].class \in Class /\ stack[t][i].todo \in Seq(Class)
           /\ i \in Nat /\ i >= 1
  <1>1. stack[t] \in Seq(FrameType)
    BY Zenon DEF TypeOK
  <1>2. stack[t][i] \in FrameType /\ i \in Nat /\ i >= 1
    BY <1>1
  <1> QED
    BY <1>2, Zenon DEF FrameType

(* Changing the place of a frame, or the supertypes it has got to see to. *)
LEMMA FrameFields ==
    ASSUME NEW f \in FrameType, NEW l \in Labels, NEW ps \in Seq(Class)
    PROVE  /\ IsFrame([f EXCEPT !.at = l], f.class, f.desired, l, f.todo)
           /\ IsFrame([f EXCEPT !.todo = ps], f.class, f.desired, f.at, ps)
           /\ IsFrame([f EXCEPT !.at = l, !.todo = ps], f.class, f.desired, l, ps)
  BY Zenon DEF FrameType, IsFrame

(* Goto moves on in the innermost activation. *)
LEMMA GotoMoves ==
    ASSUME TypeOK, NEW t \in Thread, stack[t] # <<>>, NEW l \in Labels, Goto(t, l)
    PROVE  Moves(t, l, Top(t).todo)
  <1> DEFINE g == [Top(t) EXCEPT !.at = l]
  <1>1. IsFrame(g, Top(t).class, Top(t).desired, l, Top(t).todo)
    BY TopTyped, FrameFields, Zenon
  <1>2. stack' = [stack EXCEPT ![t] = [stack[t] EXCEPT ![1] = g]]
    BY TopTyped, Zenon DEF Goto, Top, TypeOK
  <1> HIDE DEF g
  <1>3. [stack[t] EXCEPT ![1] = g] \in Seq(FrameType)
    BY <1>1, TopTyped DEF IsFrame
  <1> QED
    BY <1>1, <1>2, <1>3, TopTyped DEF Moves, OthersKeep, TypeOK

(* GotoWith moves on there, with supertypes to see to. *)
LEMMA GotoWithMoves ==
    ASSUME TypeOK, NEW t \in Thread, stack[t] # <<>>, NEW l \in Labels, NEW ps \in Seq(Class),
           GotoWith(t, l, ps)
    PROVE  Moves(t, l, ps)
  <1> DEFINE g == [Top(t) EXCEPT !.at = l, !.todo = ps]
  <1>1. IsFrame(g, Top(t).class, Top(t).desired, l, ps)
    BY TopTyped, FrameFields, Zenon
  <1>2. stack' = [stack EXCEPT ![t] = [stack[t] EXCEPT ![1] = g]]
    BY TopTyped, Zenon DEF GotoWith, Top, TypeOK
  <1> HIDE DEF g
  <1>3. [stack[t] EXCEPT ![1] = g] \in Seq(FrameType)
    BY <1>1, TopTyped DEF IsFrame
  <1> QED
    BY <1>1, <1>2, <1>3, TopTyped DEF Moves, OthersKeep, TypeOK

(* Putting a frame on a stack whose innermost activation becomes g. *)
LEMMA PushCalls ==
    ASSUME TypeOK, NEW t \in Thread, stack[t] # <<>>, NEW l \in Labels, NEW ps \in Seq(Class),
           NEW c \in Class, NEW d \in {"VERIFIED", "PREPARED", "INITIALIZED"}, NEW g,
           IsFrame(g, Top(t).class, Top(t).desired, l, ps),
           stack' = [stack EXCEPT ![t] = <<Frame(c, d)>> \o [stack[t] EXCEPT ![1] = g]]
    PROVE  Calls(t, c, d, l, ps)
  <1>1. g \in FrameType
    BY Zenon DEF IsFrame
  <1>2. IsFrame(Frame(c, d), c, d, "check", <<>>) /\ Frame(c, d) \in FrameType
    BY DEF Frame, FrameType, Labels, IsFrame
  <1> DEFINE s == [stack[t] EXCEPT ![1] = g]
  <1>3. s \in Seq(FrameType) /\ Len(s) = Len(stack[t]) /\ s[1] = g
        /\ \A i \in 2..Len(stack[t]) : s[i] = stack[t][i]
    BY <1>1, TopTyped DEF IsFrame
  <1> HIDE DEF s
  <1> DEFINE r == <<Frame(c, d)>> \o s
  <1>4. r \in Seq(FrameType) /\ Len(r) = Len(s) + 1 /\ r[1] = Frame(c, d)
        /\ \A i \in 1..Len(s) : r[i + 1] = s[i]
    BY <1>2, <1>3
  <1>5. stack' = [stack EXCEPT ![t] = r]
    BY Zenon DEF s
  <1> HIDE DEF r
  <1>6. stack'[t] = r /\ OthersKeep(t)
    BY <1>4, <1>5, Zenon DEF OthersKeep, TypeOK
  <1>7. r[2] = g /\ \A i \in 2..Len(stack[t]) : r[i + 1] = stack[t][i]
    BY <1>3, <1>4, TopTyped
  <1> QED
    BY <1>2, <1>3, <1>4, <1>6, <1>7, Zenon DEF Calls

(* CallNext calls for the first of the supertypes to see to. *)
LEMMA CallNextCalls ==
    ASSUME TypeOK, NEW t \in Thread, stack[t] # <<>>, Top(t).todo # <<>>,
           NEW d \in {"VERIFIED", "PREPARED", "INITIALIZED"}, CallNext(t, d)
    PROVE  /\ Head(Top(t).todo) \in Class /\ Tail(Top(t).todo) \in Seq(Class)
           /\ Calls(t, Head(Top(t).todo), d, Top(t).at, Tail(Top(t).todo))
  <1> DEFINE g == [Top(t) EXCEPT !.todo = Tail(Top(t).todo)]
  <1>1. Head(Top(t).todo) \in Class /\ Tail(Top(t).todo) \in Seq(Class) /\ Top(t).at \in Labels
    BY TopTyped
  <1>2. IsFrame(g, Top(t).class, Top(t).desired, Top(t).at, Tail(Top(t).todo))
    BY <1>1, TopTyped, FrameFields, Zenon
  <1>3. stack' = [stack EXCEPT ![t] = <<Frame(Head(Top(t).todo), d)>> \o [stack[t] EXCEPT ![1] = g]]
    BY TopTyped, Zenon DEF CallNext, Top
  <1> HIDE DEF g
  <1>4. Calls(t, Head(Top(t).todo), d, Top(t).at, Tail(Top(t).todo))
    BY <1>1, <1>2, <1>3, PushCalls, Zenon
  <1> QED
    BY <1>1, <1>4, Zenon

(* Taking the innermost activation off. *)
LEMMA TailReturns ==
    ASSUME TypeOK, NEW t \in Thread, stack[t] # <<>>, stack' = [stack EXCEPT ![t] = Tail(@)]
    PROVE  Returns(t)
  <1>1. stack' = [stack EXCEPT ![t] = Tail(stack[t])]
    OBVIOUS
  <1>2. Tail(stack[t]) \in Seq(FrameType) /\ Len(Tail(stack[t])) = Len(stack[t]) - 1
        /\ \A i \in 1..(Len(stack[t]) - 1) : Tail(stack[t])[i] = stack[t][i + 1]
    BY TopTyped
  <1> QED
    BY <1>1, <1>2, Zenon DEF Returns, OthersKeep, TypeOK

(* Where the i-th activation of u was before the step: activations are counted from the
   innermost one. *)
Was(u, i) == i + Len(stack[u]) - Len(stack'[u])

(* It is as it was, or the one that the step was of, or one just called. *)
Kept(t, u, i) ==
    /\ Was(u, i) \in DOMAIN stack[u] /\ stack'[u][i] = stack[u][Was(u, i)]
    /\ (Was(u, i) > 1 /\ Was(u, i) # 1) \/ (u # t /\ Was(u, i) = i)

Moved(t, u, i) ==
    /\ u = t /\ Was(u, i) = 1 /\ 1 \in DOMAIN stack[t]
    /\ stack'[u][i].class = Top(t).class /\ stack'[u][i].desired = Top(t).desired

Fresh(t, u, i) == u = t /\ i = 1 /\ Was(u, i) = 0 /\ stack'[u][i].at = "check"

(* What a step of t does to the stacks. *)
StackStep(t) ==
    \/ stack[t] = <<>> /\ OthersKeep(t) /\ Len(stack'[t]) = 1 /\ stack'[t][1].at = "check"
    \/ stack[t] # <<>> /\ \E l, ps : Moves(t, l, ps)
    \/ stack[t] # <<>> /\ \E c, d, l, ps : Calls(t, c, d, l, ps)
    \/ stack[t] # <<>> /\ Returns(t)

(* Lengths and domains of the stacks before and after a step. *)
LEMMA Lengths ==
    ASSUME TypeOK, NEW t \in Thread, StackStep(t), NEW u \in Thread
    PROVE  /\ DOMAIN stack[u] = 1..Len(stack[u]) /\ Len(stack[u]) \in Nat
           /\ DOMAIN stack'[u] = 1..Len(stack'[u]) /\ Len(stack'[u]) \in Nat
           /\ u # t => stack'[u] = stack[u]
           /\ stack[u] # <<>> => Len(stack[u]) >= 1
  <1>1. stack \in [Thread -> Seq(FrameType)] /\ stack' \in [Thread -> Seq(FrameType)]
    BY Zenon DEF StackStep, Moves, Calls, Returns, OthersKeep, TypeOK
  <1>2. u # t => stack'[u] = stack[u]
    BY Zenon DEF StackStep, Moves, Calls, Returns, OthersKeep
  <1> QED
    BY <1>1, <1>2

(* A step shifts all the activations of a thread alike. *)
LEMMA Shift ==
    ASSUME TypeOK, NEW t \in Thread, StackStep(t), NEW u \in Thread
    PROVE  \E d \in Int : \A i \in Int : Was(u, i) = i + d
  <1>1. PICK m \in Nat, n \in Nat : m = Len(stack[u]) /\ n = Len(stack'[u])
    BY Lengths, Zenon
  <1>2. \A i \in Int : Was(u, i) = i + m - n
    BY <1>1, Zenon DEF Was
  <1>3. m - n \in Int /\ \A i \in Int : i + m - n = i + (m - n)
    BY SMT
  <1> QED
    BY <1>2, <1>3, Zenon

(* Every activation is one of the three. *)
LEMMA Origins ==
    ASSUME TypeOK, NEW t \in Thread, StackStep(t), NEW u \in Thread, NEW i \in DOMAIN stack'[u]
    PROVE  Kept(t, u, i) \/ Moved(t, u, i) \/ Fresh(t, u, i)
  <1>0. /\ DOMAIN stack[u] = 1..Len(stack[u]) /\ Len(stack[u]) \in Nat
        /\ DOMAIN stack'[u] = 1..Len(stack'[u]) /\ Len(stack'[u]) \in Nat
        /\ u # t => stack'[u] = stack[u]
        /\ stack[u] # <<>> => Len(stack[u]) >= 1
    BY Lengths, Zenon
  <1>1. CASE u # t
    <2>1. i \in Nat /\ i >= 1 /\ i <= Len(stack[u]) /\ stack'[u] = stack[u]
      BY <1>0, <1>1
    <2>2. Was(u, i) = i
      BY <1>0, <2>1 DEF Was
    <2> QED
      BY <1>0, <1>1, <2>1, <2>2 DEF Kept
  <1>3. CASE u = t /\ stack[t] = <<>> /\ OthersKeep(t) /\ Len(stack'[t]) = 1 /\ stack'[t][1].at = "check"
    BY <1>3, <1>0 DEF Fresh, Was
  <1>4. ASSUME u = t, stack[t] # <<>>, NEW l, NEW ps, Moves(t, l, ps)
        PROVE  Kept(t, u, i) \/ Moved(t, u, i)
    BY <1>4, <1>0 DEF Kept, Moved, Was, Moves, IsFrame
  <1>5. ASSUME u = t, stack[t] # <<>>, NEW c, NEW d, NEW l, NEW ps, Calls(t, c, d, l, ps)
        PROVE  Kept(t, u, i) \/ Moved(t, u, i) \/ Fresh(t, u, i)
    <2>1. Was(u, i) = i - 1 /\ i \in Nat /\ i >= 1
      BY <1>5, <1>0 DEF Was, Calls
    <2>2. CASE i = 1
      BY <1>5, <2>1, <2>2 DEF Fresh, Calls, IsFrame
    <2>3. CASE i = 2
      BY <1>5, <2>1, <2>3, <1>0 DEF Moved, Calls, IsFrame
    <2>4. CASE i > 2
      <3>1. i - 1 \in 2..Len(stack[t]) /\ (i - 1) + 1 = i
        BY <1>5, <2>1, <2>4, <1>0 DEF Calls
      <3>2. stack'[t][i] = stack[t][i - 1]
        BY <1>5, <3>1 DEF Calls
      <3> QED
        BY <1>5, <2>1, <3>1, <3>2, <1>0 DEF Kept
    <2> QED
      BY <2>1, <2>2, <2>3, <2>4
  <1>6. CASE u = t /\ stack[t] # <<>> /\ Returns(t)
    BY <1>6, <1>0 DEF Kept, Was, Returns
  <1> QED
    BY <1>1, <1>3, <1>4, <1>5, <1>6, Zenon DEF StackStep

(* They stay in order. *)
LEMMA Ordered ==
    ASSUME TypeOK, NEW t \in Thread, StackStep(t), NEW u \in Thread,
           NEW i \in DOMAIN stack'[u], NEW j \in DOMAIN stack'[u], i < j
    PROVE  /\ Was(u, i) < Was(u, j) /\ ~Fresh(t, u, j)
           /\ (Kept(t, u, i) \/ Moved(t, u, i)) => Kept(t, u, j) /\ Was(u, i) \in DOMAIN stack[u]
           /\ Fresh(t, u, i) => Moved(t, u, j) \/ (Kept(t, u, j) /\ 1 < Was(u, j) /\ 1 \in DOMAIN stack[t])
  <1>0. /\ DOMAIN stack[u] = 1..Len(stack[u]) /\ Len(stack[u]) \in Nat
        /\ DOMAIN stack'[u] = 1..Len(stack'[u]) /\ Len(stack'[u]) \in Nat
        /\ u # t => stack'[u] = stack[u]
        /\ stack[u] # <<>> => Len(stack[u]) >= 1
    BY Lengths, Zenon
  <1>a. i \in Nat /\ j \in Nat /\ i >= 1
    BY <1>0
  <1>b. PICK d \in Int : \A n \in Int : Was(u, n) = n + d
    BY Shift, Zenon
  <1>1. i \in Nat /\ j \in Nat /\ i >= 1 /\ Was(u, i) < Was(u, j)
    BY <1>a, <1>b
  <1>2. ~Fresh(t, u, j)
    BY <1>1 DEF Fresh
  <1>3. ASSUME Kept(t, u, i) \/ Moved(t, u, i)
        PROVE  Kept(t, u, j) /\ Was(u, i) \in DOMAIN stack[u]
    <2>1. Was(u, i) >= 1 /\ Was(u, i) \in DOMAIN stack[u]
      BY <1>3, <1>0 DEF Kept, Moved
    <2>2. ~Moved(t, u, j)
      BY <1>1, <2>1, <1>0 DEF Moved
    <2> QED
      BY <1>2, <2>1, <2>2, Origins
  <1>4. ASSUME Fresh(t, u, i)
        PROVE  Moved(t, u, j) \/ (Kept(t, u, j) /\ 1 < Was(u, j) /\ 1 \in DOMAIN stack[t])
    BY <1>1, <1>2, <1>4, Origins, <1>0 DEF Fresh, Kept
  <1> QED
    BY <1>1, <1>2, <1>3, <1>4

(* None is lost, but the one that returns. *)
Lives(t, u, k) == \E i \in DOMAIN stack'[u] : Was(u, i) = k /\ (Kept(t, u, i) \/ Moved(t, u, i))

(* No activation is lost in a step, but the one that returns. *)
LEMMA Survives ==
    ASSUME TypeOK, NEW t \in Thread, StackStep(t), NEW u \in Thread, NEW k \in DOMAIN stack[u]
    PROVE  Lives(t, u, k) \/ (u = t /\ k = 1 /\ Returns(t))
  <1>0. /\ DOMAIN stack[u] = 1..Len(stack[u]) /\ Len(stack[u]) \in Nat
        /\ DOMAIN stack'[u] = 1..Len(stack'[u]) /\ Len(stack'[u]) \in Nat
        /\ u # t => stack'[u] = stack[u]
        /\ stack[u] # <<>> => Len(stack[u]) >= 1
    BY Lengths, Zenon
  <1> DEFINE i == k + Len(stack'[u]) - Len(stack[u])
  <1>a. k \in Nat /\ k >= 1 /\ k <= Len(stack[u])
    BY <1>0
  <1>1. Was(u, i) = k /\ k \in Nat /\ k >= 1 /\ k <= Len(stack[u])
    BY <1>0, <1>a DEF Was
  <1>2. ASSUME u # t
        PROVE  i \in DOMAIN stack'[u]
    <2>1. stack'[u] = stack[u]
      BY <1>0, <1>2, Zenon
    <2>2. i = k
      BY <1>0, <1>a, <2>1
    <2> QED
      BY <2>1, <2>2, Zenon
  <1>3. CASE u = t /\ stack[t] = <<>>
    BY <1>0, <1>1, <1>3
  <1>4. ASSUME u = t, stack[t] # <<>>, NEW l, NEW ps, Moves(t, l, ps)
        PROVE  i \in DOMAIN stack'[u]
    BY <1>1, <1>4, <1>0 DEF Moves
  <1>5. ASSUME u = t, stack[t] # <<>>, NEW c, NEW d, NEW l, NEW ps, Calls(t, c, d, l, ps)
        PROVE  i \in DOMAIN stack'[u]
    BY <1>1, <1>5, <1>0 DEF Calls
  <1>6. ASSUME u = t, stack[t] # <<>>, Returns(t), k # 1
        PROVE  i \in DOMAIN stack'[u]
    BY <1>1, <1>6, <1>0 DEF Returns
  <1> HIDE DEF i
  <1>7. ASSUME i \in DOMAIN stack'[u]
        PROVE  Kept(t, u, i) \/ Moved(t, u, i)
    BY <1>1, <1>7, Origins DEF Fresh
  <1> QED
    BY <1>1, <1>2, <1>3, <1>4, <1>5, <1>6, <1>7, Zenon DEF StackStep, Lives

(* Nor is the one that an activation has called. *)
LEMMA Callees ==
    ASSUME TypeOK, NEW t \in Thread, StackStep(t), NEW u \in Thread, NEW i \in DOMAIN stack'[u],
           NEW k \in DOMAIN stack[u], k + 1 = Was(u, i)
    PROVE  \/ \E h \in DOMAIN stack'[u] :
                 h + 1 = i /\ stack'[u][h].class = stack[u][k].class /\ stack'[u][h].desired = stack[u][k].desired
           \/ u = t /\ k = 1 /\ i = 1 /\ Returns(t)
  <1>0. /\ DOMAIN stack[u] = 1..Len(stack[u]) /\ Len(stack[u]) \in Nat
        /\ DOMAIN stack'[u] = 1..Len(stack'[u]) /\ Len(stack'[u]) \in Nat
        /\ u # t => stack'[u] = stack[u]
        /\ stack[u] # <<>> => Len(stack[u]) >= 1
    BY Lengths, Zenon
  <1>a. i \in Nat /\ i >= 1 /\ k \in Nat
    BY <1>0
  <1> DEFINE n == i - 1
  <1>b. PICK d \in Int : \A h \in Int : Was(u, h) = h + d
    BY Shift, Zenon
  <1>1. n \in Nat /\ n + 1 = i /\ Was(u, n) = k
    BY <1>a, <1>b
  <1>2. CASE n # 0
    <2>1. n \in DOMAIN stack'[u]
      BY <1>1, <1>2, <1>0
    <2>2. ~Fresh(t, u, n)
      BY <1>0, <1>1 DEF Fresh
    <2> HIDE DEF n
    <2> QED
      BY <1>1, <2>1, <2>2, Origins, Zenon DEF Kept, Moved, Top
  <1>3. CASE n = 0
    <2>1. i = 1
      BY <1>1, <1>3, <1>a
    <2>2. ASSUME NEW h \in DOMAIN stack'[u], Was(u, h) = k
          PROVE  FALSE
      <3>1. h \in Nat /\ h >= 1
        BY <1>0
      <3> QED
        BY <1>a, <1>b, <2>1, <2>2, <3>1
    <2> QED
      BY <2>1, <2>2, Survives DEF Lives
  <1> QED
    BY <1>2, <1>3

(* The activation that a step is of, after it. *)
MovedTo(t, i, l, ps) == ~(i > 1) /\ stack'[t][i].at = l /\ stack'[t][i].todo = ps

CalledFrom(t, i, c, d, l, ps) ==
    /\ stack'[t][i].at = l /\ stack'[t][i].todo = ps
    /\ \E k \in DOMAIN stack'[t] : k + 1 = i /\ stack'[t][k].class = c /\ stack'[t][k].desired = d

(* The activation that a step is of moves on in its place, or stands below the one it called. *)
LEMMA Mover ==
    ASSUME TypeOK, NEW t \in Thread, stack[t] # <<>>, StackStep(t), NEW i \in DOMAIN stack'[t], Was(t, i) = 1
    PROVE  /\ \A l, ps : Moves(t, l, ps) => MovedTo(t, i, l, ps)
           /\ \A c, d, l, ps : Calls(t, c, d, l, ps) => CalledFrom(t, i, c, d, l, ps)
           /\ ~Returns(t)
  <1>0. /\ DOMAIN stack[t] = 1..Len(stack[t]) /\ Len(stack[t]) \in Nat
        /\ DOMAIN stack'[t] = 1..Len(stack'[t]) /\ Len(stack'[t]) \in Nat
        /\ stack[t] # <<>> => Len(stack[t]) >= 1
    BY Lengths, Zenon
  <1>a. i \in Nat /\ i >= 1
    BY <1>0
  <1>1. i \in Nat /\ i >= 1 /\ i = 1 + Len(stack'[t]) - Len(stack[t])
    BY <1>0, <1>a DEF Was
  <1>2. ASSUME NEW l, NEW ps, Moves(t, l, ps)
        PROVE  MovedTo(t, i, l, ps)
    BY <1>1, <1>2, <1>0 DEF Moves, IsFrame, MovedTo
  <1>3. ASSUME NEW c, NEW d, NEW l, NEW ps, Calls(t, c, d, l, ps)
        PROVE  CalledFrom(t, i, c, d, l, ps)
    <2>1. i = 1 + 1 /\ 1 \in DOMAIN stack'[t] /\ i = 2
      BY <1>1, <1>3, <1>0 DEF Calls
    <2>2. stack'[t][2].at = l /\ stack'[t][2].todo = ps /\ stack'[t][1].class = c /\ stack'[t][1].desired = d
      BY <1>3, Zenon DEF Calls, IsFrame
    <2> QED
      BY <2>1, <2>2 DEF CalledFrom
  <1>4. ~Returns(t)
    BY <1>1, <1>0 DEF Returns
  <1> QED
    BY <1>2, <1>3, <1>4, Zenon

(* Supertypes are classes. *)
LEMMA SupertypesTyped ==
    ASSUME NEW c \in Class
    PROVE  ToPrepare(c) \in Seq(Class) /\ ToInitialize(c) \in Seq(Class)
  <1>1. Interfaces[c] \in Seq(Class)
    BY ClassAssumption
  <1>2. Super[c] # NoClass => Super[c] \in Class
    BY ClassAssumption, Zenon
  <1> QED
    BY <1>1, <1>2 DEF ToPrepare, ToInitialize

-----------------------------------------------------------------------------
(* What the steps do, sorted by what the invariant has got to say about them. *)

(* Java code asks for a class. *)
Starts(t) ==
    /\ stack[t] = <<>> /\ OthersKeep(t) /\ Len(stack'[t]) = 1
    /\ \E c \in Class, d \in {"PREPARED", "INITIALIZED"} : IsFrame(stack'[t][1], c, d, "check", <<>>)
    /\ exc' = exc \ {t}
    /\ UNCHANGED <<status, clinits, abandoned>>

(* The activation goes on without touching its class. *)
GoesOn(t) ==
    /\ stack[t] # <<>>
    /\ \E l \in Labels, ps \in Seq(Class) :
        /\ Moves(t, l, ps)
        /\ \/ Top(t).at \notin Verifying \cup Initializing /\ l \in {"check", "markVerify", "inProgress", "wait"}
           \/ Top(t).at \notin Verifying \cup Initializing /\ l = "prepare" /\ Top(t).desired # "VERIFIED"
           \/ Top(t).at \notin Verifying \cup Initializing /\ l = "markInit" /\ Top(t).desired = "INITIALIZED"
           \/ l \in Verifying /\ MarkedBy(Top(t).class, "Unverified", t)
    /\ UNCHANGED <<status, clinits, abandoned, exc>>

(* It marks its class, which nobody has marked. *)
Marks(t) ==
    /\ stack[t] # <<>> /\ Top(t).at \in {"markVerify", "markInit"}
    /\ status[Top(t).class].by = NoThread /\ Mark(Top(t).class, t)
    /\ \/ status[Top(t).class].state = "Unverified" /\ Moves(t, "verifySuper", Top(t).todo)
       \/ /\ status[Top(t).class].state = "NotInitialized" /\ Top(t).desired = "INITIALIZED"
          /\ Moves(t, "initialize", ToInitialize(Top(t).class))
    /\ UNCHANGED <<clinits, abandoned, exc>>

(* It has verified or prepared its class. *)
Advances(t) ==
    /\ stack[t] # <<>> /\ Moves(t, "check", Top(t).todo)
    /\ \/ /\ Top(t).at \in Verifying /\ MarkedBy(Top(t).class, "Unverified", t)
          /\ status' = [status EXCEPT ![Top(t).class] = State("Unprepared")]
       \/ /\ Top(t).at = "prepare" /\ MarkedBy(Top(t).class, "Unprepared", NoThread)
          /\ status' = [status EXCEPT ![Top(t).class] = State("NotInitialized")]
    /\ UNCHANGED <<clinits, abandoned, exc>>

(* It calls another one: for the superclass to verify, the next supertype to prepare or to
   initialize, or a class that <clinit> uses. *)
CallsFor(t) ==
    /\ stack[t] # <<>> /\ t \in Thread
    /\ \E c \in Class, ps \in Seq(Class) :
        \/ /\ Top(t).at = "verifySuper" /\ c = Super[Top(t).class]
           /\ Calls(t, c, "VERIFIED", "verify", ps)
        \/ Top(t).at = "prepare" /\ Calls(t, c, "PREPARED", "prepare", ps)
        \/ /\ Top(t).at = "initialize" /\ t \notin exc /\ Top(t).todo # <<>>
           /\ c = Head(Top(t).todo) /\ ps = Tail(Top(t).todo)
           /\ Calls(t, c, "INITIALIZED", "initialize", ps)
        \/ Top(t).at = "clinit" /\ Calls(t, c, "INITIALIZED", "clinit", ps)
    /\ UNCHANGED <<status, clinits, abandoned, exc>>

(* It returns or throws and leaves its class alone. *)
Leaves(t) ==
    /\ stack[t] # <<>> /\ Returns(t)
    /\ abandoned \subseteq abandoned' /\ abandoned' \subseteq Class
    /\ Top(t).at \in Verifying \cup Initializing => Top(t).class \in abandoned'
    /\ exc \subseteq exc' /\ exc' \subseteq exc \cup {t}
    /\ \A c \in Class : c = Top(t).class /\ Top(t).desired = "INITIALIZED" => Settled(c)' \/ t \in exc'
    /\ \/ Top(t).desired # "INITIALIZED" \/ t \in exc' \cup pop
       \/ status[Top(t).class].state = "Succeeded" \/ status[Top(t).class].by = t
    /\ UNCHANGED <<status, clinits>>

(* It returns or throws when the work it marked its class for is done. *)
Finishes(t) ==
    /\ stack[t] # <<>> /\ Returns(t)
    /\ \/ /\ Top(t).at = "verify" /\ exc' = exc \cup {t}
          /\ status' = [status EXCEPT ![Top(t).class] = State("Unverified")]
       \/ /\ Top(t).at \in Initializing /\ exc' = exc \cup {t}
          /\ status' = [status EXCEPT ![Top(t).class] = State("Failed")]
       \/ /\ Top(t).at = "clinit" /\ exc' = exc \ {t}
          /\ status' = [status EXCEPT ![Top(t).class] = State("Succeeded")]
    /\ UNCHANGED <<clinits, abandoned>>

(* It runs <clinit>. *)
RunsClinit(t) ==
    /\ stack[t] # <<>> /\ Top(t).at = "initialize" /\ t \notin exc /\ Top(t).todo = <<>>
    /\ Moves(t, "clinit", Top(t).todo)
    /\ clinits' = [clinits EXCEPT ![Top(t).class] = @ + 1]
    /\ UNCHANGED <<status, abandoned, exc>>

(* It leaves a supertype alone, an interface without defaults. *)
PassesOver(t) ==
    /\ stack[t] # <<>> /\ Top(t).at = "initialize" /\ Top(t).todo # <<>>
    /\ LeftAlone(Head(Top(t).todo)) /\ Moves(t, "initialize", Tail(Top(t).todo))
    /\ UNCHANGED <<status, clinits, abandoned, exc>>

Kinds(t) ==
    \/ Starts(t) \/ GoesOn(t) \/ Marks(t) \/ Advances(t) \/ CallsFor(t) \/ Leaves(t)
    \/ Finishes(t) \/ RunsClinit(t) \/ PassesOver(t)

-----------------------------------------------------------------------------
(* What becomes of the status of a class, and how often its <clinit> has run. *)

(* A class of which only the thread, or the state, is set anew. *)
LEMMA StatusSet ==
    ASSUME TypeOK, NEW c \in Class
    PROVE  /\ \A t \in Thread : Mark(c, t) =>
                 /\ status' \in [Class -> StatusType]
                 /\ \A d \in Class : d # c => status'[d] = status[d]
                 /\ status'[c].state = status[c].state /\ status'[c].by = t
           /\ \A s \in {"Unverified", "Unprepared", "NotInitialized", "Succeeded", "Failed"} :
                 status' = [status EXCEPT ![c] = State(s)] =>
                    /\ status' \in [Class -> StatusType]
                    /\ \A d \in Class : d # c => status'[d] = status[d]
                    /\ status'[c].state = s /\ status'[c].by = NoThread
  <1>1. ASSUME NEW t \in Thread, Mark(c, t)
        PROVE  /\ status' \in [Class -> StatusType]
               /\ \A d \in Class : d # c => status'[d] = status[d]
               /\ status'[c].state = status[c].state /\ status'[c].by = t
    BY <1>1, Zenon DEF Mark, TypeOK, StatusType
  <1>2. ASSUME NEW s \in {"Unverified", "Unprepared", "NotInitialized", "Succeeded", "Failed"},
               status' = [status EXCEPT ![c] = State(s)]
        PROVE  /\ status' \in [Class -> StatusType]
               /\ \A d \in Class : d # c => status'[d] = status[d]
               /\ status'[c].state = s /\ status'[c].by = NoThread
    BY <1>2 DEF State, TypeOK, StatusType
  <1> QED
    BY <1>1, <1>2

(* What the three kinds of steps that set it make of the status of the class. *)
NewStatus(t, s, by) ==
    /\ status' \in [Class -> StatusType]
    /\ \A c \in Class : c # Top(t).class => status'[c] = status[c]
    /\ \A c \in Class : c = Top(t).class => status'[c].state = s /\ status'[c].by = by

(* Marking a class sets its thread, preparing it sets the next state and no thread, and so does
   finishing it: setInitStatus with or without the vmThread. *)
LEMMA SetBy ==
    ASSUME TypeOK, NEW t \in Thread
    PROVE  /\ Marks(t) => NewStatus(t, status[Top(t).class].state, t)
           /\ Advances(t) => \/ Top(t).at \in Verifying /\ NewStatus(t, "Unprepared", NoThread)
                             \/ Top(t).at = "prepare" /\ NewStatus(t, "NotInitialized", NoThread)
           /\ Finishes(t) => \/ Top(t).at = "verify" /\ NewStatus(t, "Unverified", NoThread) /\ t \in exc'
                             \/ Top(t).at \in Initializing /\ NewStatus(t, "Failed", NoThread) /\ t \in exc'
                             \/ Top(t).at = "clinit" /\ NewStatus(t, "Succeeded", NoThread)
           /\ RunsClinit(t) => /\ clinits' \in [Class -> Nat] /\ clinits'[Top(t).class] = clinits[Top(t).class] + 1
                               /\ \A c \in Class : c # Top(t).class => clinits'[c] = clinits[c]
  <1>1. stack[t] # <<>> => Top(t).class \in Class
    BY TopTyped, Zenon
  <1>2. ASSUME Marks(t)
        PROVE  NewStatus(t, status[Top(t).class].state, t)
    <2>1. Mark(Top(t).class, t) /\ Top(t).class \in Class
      BY <1>1, <1>2, Zenon DEF Marks
    <2> QED
      BY <2>1, StatusSet DEF NewStatus
  <1>3. ASSUME stack[t] # <<>>, NEW s \in {"Unverified", "Unprepared", "NotInitialized", "Succeeded", "Failed"},
               status' = [status EXCEPT ![Top(t).class] = State(s)]
        PROVE  NewStatus(t, s, NoThread)
    BY <1>1, <1>3, StatusSet, Zenon DEF NewStatus
  <1>4. ASSUME Advances(t)
        PROVE  \/ Top(t).at \in Verifying /\ NewStatus(t, "Unprepared", NoThread)
               \/ Top(t).at = "prepare" /\ NewStatus(t, "NotInitialized", NoThread)
    BY <1>3, <1>4, Zenon DEF Advances
  <1>5. ASSUME Finishes(t)
        PROVE  \/ Top(t).at = "verify" /\ NewStatus(t, "Unverified", NoThread) /\ t \in exc'
               \/ Top(t).at \in Initializing /\ NewStatus(t, "Failed", NoThread) /\ t \in exc'
               \/ Top(t).at = "clinit" /\ NewStatus(t, "Succeeded", NoThread)
    BY <1>3, <1>5, Zenon DEF Finishes
  <1>6. ASSUME RunsClinit(t)
        PROVE  /\ clinits' \in [Class -> Nat] /\ clinits'[Top(t).class] = clinits[Top(t).class] + 1
               /\ \A c \in Class : c # Top(t).class => clinits'[c] = clinits[c]
    <2>1. clinits' = [clinits EXCEPT ![Top(t).class] = @ + 1] /\ Top(t).class \in Class /\ clinits \in [Class -> Nat]
      BY <1>1, <1>6, Zenon DEF RunsClinit, TypeOK
    <2> QED
      BY <2>1
  <1> QED
    BY <1>2, <1>4, <1>5, <1>6, Zenon

(* The status and the <clinit> count that a step does not touch. *)
LEMMA LeftAsTheyWere ==
    ASSUME NEW t \in Thread, Kinds(t)
    PROVE  /\ Marks(t) \/ Advances(t) \/ Finishes(t) \/ status' = status
           /\ RunsClinit(t) \/ clinits' = clinits
           /\ abandoned' = abandoned \/ (Leaves(t) /\ abandoned \subseteq abandoned')
           /\ Starts(t) \/ Leaves(t) \/ Finishes(t) \/ exc' = exc
  <1>1. CASE Starts(t)
    BY <1>1 DEF Starts
  <1>2. CASE GoesOn(t)
    BY <1>2 DEF GoesOn
  <1>3. CASE Marks(t)
    BY <1>3 DEF Marks
  <1>4. CASE Advances(t)
    BY <1>4 DEF Advances
  <1>5. CASE CallsFor(t)
    BY <1>5 DEF CallsFor
  <1>6. CASE Leaves(t)
    BY <1>6 DEF Leaves
  <1>7. CASE Finishes(t)
    BY <1>7 DEF Finishes
  <1>8. CASE RunsClinit(t)
    BY <1>8 DEF RunsClinit
  <1>9. CASE PassesOver(t)
    BY <1>9 DEF PassesOver
  <1> QED
    BY <1>1, <1>2, <1>3, <1>4, <1>5, <1>6, <1>7, <1>8, <1>9, Zenon DEF Kinds

(* A step sets the status of no class but its innermost activation's. *)
LEMMA OneStatus ==
    ASSUME TypeOK, NEW t \in Thread, Kinds(t)
    PROVE  /\ \A c \in Class : (stack[t] = <<>> \/ c # Top(t).class) => status'[c] = status[c] /\ clinits'[c] = clinits[c]
           /\ status' \in [Class -> StatusType] /\ clinits' \in [Class -> Nat]
  <1>1. Marks(t) \/ Advances(t) \/ Finishes(t) \/ RunsClinit(t) => stack[t] # <<>>
    BY Zenon DEF Marks, Advances, Finishes, RunsClinit
  <1>2. /\ status' \in [Class -> StatusType]
        /\ \A c \in Class : (stack[t] = <<>> \/ c # Top(t).class) => status'[c] = status[c]
    <2>1. status' = status \/ (stack[t] # <<>> /\ \E s, by : NewStatus(t, s, by))
      BY <1>1, SetBy, LeftAsTheyWere, Zenon
    <2> QED
      BY <2>1, Zenon DEF NewStatus, TypeOK
  <1>3. /\ clinits' \in [Class -> Nat]
        /\ \A c \in Class : (stack[t] = <<>> \/ c # Top(t).class) => clinits'[c] = clinits[c]
    BY <1>1, SetBy, LeftAsTheyWere, Zenon DEF TypeOK
  <1> QED
    BY <1>2, <1>3, Zenon

(* A class is marked in the two states in which something is being done for it, and its
   <clinit> runs in the second one. *)
LEMMA StatusStep ==
    ASSUME TypeOK, StatusOK, MarkOK, NEW t \in Thread, Kinds(t)
    PROVE  StatusOK'
  <1> SUFFICES ASSUME NEW c \in Class
               PROVE  /\ status'[c].by # NoThread => status'[c].state \in {"Unverified", "NotInitialized"}
                      /\ clinits'[c] <= 1
                      /\ status'[c].state \in {"Unverified", "Unprepared"} => clinits'[c] = 0
                      /\ status'[c].state = "NotInitialized" /\ status'[c].by = NoThread => clinits'[c] = 0
    BY Zenon DEF StatusOK
  <1>0. /\ status[c].by # NoThread => status[c].state \in {"Unverified", "NotInitialized"}
        /\ clinits[c] <= 1
        /\ status[c].state \in {"Unverified", "Unprepared"} => clinits[c] = 0
        /\ status[c].state = "NotInitialized" /\ status[c].by = NoThread => clinits[c] = 0
    BY Zenon DEF StatusOK
  <1>1. CASE status'[c] = status[c] /\ clinits'[c] = clinits[c]
    BY <1>0, <1>1, Zenon
  <1>2. CASE ~(status'[c] = status[c] /\ clinits'[c] = clinits[c])
    <2>1. stack[t] # <<>> /\ c = Top(t).class
      BY <1>2, OneStatus, Zenon
    <2>2. 1 \in DOMAIN stack[t] /\ MarkAt(t, 1)
      BY <2>1, TopTyped DEF MarkOK
    <2>3. Top(t).at \in Verifying => status[c].state = "Unverified"
      BY <2>1, <2>2, Zenon DEF MarkAt, MarkedBy, Top
    <2>4. CASE Marks(t)
      <3>0. NewStatus(t, status[Top(t).class].state, t)
        BY <2>4, SetBy, Zenon
      <3>1. status'[c].state = status[c].state /\ status'[c].by = t /\ t # NoThread
        BY <2>1, <3>0, ClassAssumption, Zenon DEF NewStatus
      <3>2. status[c].by = NoThread /\ status[c].state \in {"Unverified", "NotInitialized"} /\ clinits' = clinits
        BY <2>1, <2>4, Zenon DEF Marks
      <3> QED
        BY <1>0, <3>1, <3>2, Zenon
    <2>5. CASE Advances(t)
      <3>1. status'[c].by = NoThread /\ status'[c].state \in {"Unprepared", "NotInitialized"}
        <4>1. NewStatus(t, "Unprepared", NoThread) \/ NewStatus(t, "NotInitialized", NoThread)
          BY <2>5, SetBy, Zenon
        <4> QED
          BY <2>1, <4>1, Zenon DEF NewStatus
      <3>2. status[c].state \in {"Unverified", "Unprepared"} /\ clinits' = clinits
        BY <2>1, <2>5, Zenon DEF Advances, MarkedBy
      <3> QED
        BY <1>0, <3>1, <3>2, Zenon
    <2>6. CASE Finishes(t)
      <3>0. \/ Top(t).at = "verify" /\ NewStatus(t, "Unverified", NoThread)
            \/ NewStatus(t, "Failed", NoThread) \/ NewStatus(t, "Succeeded", NoThread)
        BY <2>6, SetBy, Zenon
      <3>1. status'[c].by = NoThread
            /\ (status'[c].state \in {"Failed", "Succeeded"} \/ (status'[c].state = "Unverified" /\ Top(t).at = "verify"))
        BY <2>1, <3>0, Zenon DEF NewStatus
      <3>2. clinits' = clinits /\ (Top(t).at = "verify" => clinits[c] = 0)
        BY <1>0, <2>3, <2>6, Zenon DEF Finishes, Verifying
      <3> QED
        BY <1>0, <3>1, <3>2, Zenon
    <2>7. CASE RunsClinit(t)
      <3>1. status' = status /\ Top(t).at = "initialize"
        BY <2>7, Zenon DEF RunsClinit
      <3>2. status[c].state = "NotInitialized" /\ status[c].by = t /\ clinits[c] = 0 /\ t # NoThread
        BY <2>1, <2>2, <3>1, ClassAssumption, Zenon DEF MarkAt, MarkedBy, Initializing, Top
      <3>3. clinits'[c] = clinits[c] + 1
        BY <2>1, <2>7, SetBy, Zenon
      <3> QED
        BY <3>1, <3>2, <3>3
    <2> QED
      BY <1>2, <2>4, <2>5, <2>6, <2>7, LeftAsTheyWere, Zenon
  <1> QED
    BY <1>1, <1>2, Zenon

(* A class once settled stays settled. *)
LEMMA SettledStays ==
    ASSUME TypeOK, MarkOK, NEW t \in Thread, Kinds(t), NEW p \in Class, Settled(p)
    PROVE  Settled(p)'
  <1>1. abandoned \subseteq abandoned'
    BY LeftAsTheyWere, Zenon
  <1>2. CASE status'[p] = status[p]
    BY <1>1, <1>2, Zenon DEF Settled
  <1>3. CASE status'[p] # status[p]
    <2>1. stack[t] # <<>> /\ p = Top(t).class
      BY <1>3, OneStatus, Zenon
    <2>2. 1 \in DOMAIN stack[t] /\ MarkAt(t, 1)
      BY <2>1, TopTyped DEF MarkOK
    <2>3. CASE Marks(t)
      <3>1. status[p].state \in {"Unverified", "NotInitialized"} /\ status[p].by = NoThread
        BY <2>1, <2>3, Zenon DEF Marks
      <3> QED
        BY <1>1, <3>1, Zenon DEF Settled
    <2>4. CASE Advances(t)
      <3>1. status[p].state \in {"Unverified", "Unprepared"}
        BY <2>1, <2>4, Zenon DEF Advances, MarkedBy
      <3> QED
        BY <1>1, <3>1, Zenon DEF Settled
    <2>5. CASE Finishes(t)
      <3>1. Top(t).at = "verify" => status[p].state = "Unverified"
        BY <2>1, <2>2, Zenon DEF MarkAt, MarkedBy, Verifying, Top
      <3>2. status'[p].state \in {"Failed", "Succeeded"} \/ status[p].state = "Unverified"
        BY <2>1, <2>5, <3>1, SetBy, Zenon DEF NewStatus
      <3> QED
        BY <1>1, <3>2, Zenon DEF Settled
    <2> QED
      BY <1>3, <2>3, <2>4, <2>5, LeftAsTheyWere, Zenon
  <1> QED
    BY <1>2, <1>3, Zenon

-----------------------------------------------------------------------------
(* What becomes of the activations. *)

(* The kinds of steps, as what they do to the stacks. *)
LEMMA StackKind ==
    ASSUME NEW t \in Thread, Kinds(t)
    PROVE  StackStep(t)
  <1>1. CASE Starts(t)
    BY <1>1, Zenon DEF Starts, StackStep, IsFrame
  <1>2. CASE GoesOn(t) \/ CallsFor(t)
    BY <1>2, Zenon DEF GoesOn, CallsFor, StackStep
  <1>3. CASE Marks(t) \/ Advances(t) \/ RunsClinit(t) \/ PassesOver(t)
    BY <1>3, Zenon DEF Marks, Advances, RunsClinit, PassesOver, StackStep
  <1>4. CASE Leaves(t) \/ Finishes(t)
    BY <1>4, Zenon DEF Leaves, Finishes, StackStep
  <1> QED
    BY <1>1, <1>2, <1>3, <1>4, Zenon DEF Kinds

(* The types are preserved. *)
LEMMA TypeStep ==
    ASSUME TypeOK, NEW t \in Thread, Kinds(t)
    PROVE  TypeOK'
  <1>1. stack' \in [Thread -> Seq(FrameType)]
    BY StackKind, Zenon DEF StackStep, Moves, Calls, Returns, OthersKeep
  <1>2. exc' \subseteq Thread
    BY LeftAsTheyWere, Zenon DEF Starts, Leaves, Finishes, TypeOK
  <1>3. abandoned' \subseteq Class
    BY LeftAsTheyWere, Zenon DEF Leaves, TypeOK
  <1> QED
    BY <1>1, <1>2, <1>3, OneStatus, Zenon DEF TypeOK

(* What the step was of: where it goes on after the step. *)
MoverKind(t, i) ==
    LET f == stack'[t][i]
    IN  \/ ~(i > 1) /\ GoesOn(t) /\ Top(t).at \notin Verifying \cup Initializing
           /\ f.at \in {"check", "markVerify", "inProgress", "wait"}
        \/ ~(i > 1) /\ GoesOn(t) /\ Top(t).at \notin Verifying \cup Initializing
           /\ f.at = "prepare" /\ Top(t).desired # "VERIFIED"
        \/ ~(i > 1) /\ GoesOn(t) /\ Top(t).at \notin Verifying \cup Initializing
           /\ f.at = "markInit" /\ Top(t).desired = "INITIALIZED"
        \/ ~(i > 1) /\ GoesOn(t) /\ f.at \in Verifying /\ MarkedBy(Top(t).class, "Unverified", t)
        \/ ~(i > 1) /\ Marks(t) /\ f.at = "verifySuper" /\ status[Top(t).class].state = "Unverified"
        \/ ~(i > 1) /\ Marks(t) /\ f.at = "initialize" /\ status[Top(t).class].state = "NotInitialized"
           /\ Top(t).desired = "INITIALIZED" /\ f.todo = ToInitialize(Top(t).class)
        \/ ~(i > 1) /\ Advances(t) /\ f.at = "check"
        \/ CallsFor(t) /\ Top(t).at = "verifySuper" /\ f.at = "verify"
        \/ CallsFor(t) /\ Top(t).at = "prepare" /\ f.at = "prepare"
        \/ CallsFor(t) /\ Top(t).at = "initialize" /\ f.at = "initialize"
           /\ t \notin exc /\ Top(t).todo # <<>> /\ f.todo = Tail(Top(t).todo)
           /\ \E k \in DOMAIN stack'[t] : k + 1 = i /\ stack'[t][k].class = Head(Top(t).todo)
                                          /\ stack'[t][k].desired = "INITIALIZED"
        \/ CallsFor(t) /\ Top(t).at = "clinit" /\ f.at = "clinit"
        \/ ~(i > 1) /\ RunsClinit(t) /\ f.at = "clinit"
        \/ ~(i > 1) /\ PassesOver(t) /\ f.at = "initialize" /\ f.todo = Tail(Top(t).todo)

(* An activation that moved is one of these. *)
LEMMA MoverKinds ==
    ASSUME TypeOK, NEW t \in Thread, Kinds(t), NEW i \in DOMAIN stack'[t], Moved(t, t, i)
    PROVE  MoverKind(t, i)
  <1>1. stack[t] # <<>> /\ StackStep(t) /\ Was(t, i) = 1
    <2>1. stack[t] # <<>>
      BY DEF Moved
    <2> QED
      BY <2>1, StackKind, Zenon DEF Moved
  <1>2. \A l, ps : Moves(t, l, ps) => MovedTo(t, i, l, ps)
    BY <1>1, Mover, Zenon
  <1>3. \A c, d, l, ps : Calls(t, c, d, l, ps) => CalledFrom(t, i, c, d, l, ps)
    BY <1>1, Mover, Zenon
  <1>4. CASE GoesOn(t)
    <2>1. PICK l \in Labels, ps \in Seq(Class) :
            /\ Moves(t, l, ps)
            /\ \/ Top(t).at \notin Verifying \cup Initializing /\ l \in {"check", "markVerify", "inProgress", "wait"}
               \/ Top(t).at \notin Verifying \cup Initializing /\ l = "prepare" /\ Top(t).desired # "VERIFIED"
               \/ Top(t).at \notin Verifying \cup Initializing /\ l = "markInit" /\ Top(t).desired = "INITIALIZED"
               \/ l \in Verifying /\ MarkedBy(Top(t).class, "Unverified", t)
      BY <1>4, Zenon DEF GoesOn
    <2>2. MovedTo(t, i, l, ps)
      BY <1>2, <2>1, Zenon
    <2> QED
      BY <1>4, <2>1, <2>2, Zenon DEF MoverKind, MovedTo
  <1>5. CASE Marks(t)
    <2>1. CASE status[Top(t).class].state = "Unverified" /\ Moves(t, "verifySuper", Top(t).todo)
      <3>1. MovedTo(t, i, "verifySuper", Top(t).todo)
        BY <1>2, <2>1, Zenon
      <3> QED
        BY <1>5, <2>1, <3>1, Zenon DEF MoverKind, MovedTo
    <2>2. CASE /\ status[Top(t).class].state = "NotInitialized" /\ Top(t).desired = "INITIALIZED"
               /\ Moves(t, "initialize", ToInitialize(Top(t).class))
      <3>1. MovedTo(t, i, "initialize", ToInitialize(Top(t).class))
        BY <1>2, <2>2, Zenon
      <3> QED
        BY <1>5, <2>2, <3>1, Zenon DEF MoverKind, MovedTo
    <2> QED
      BY <1>5, <2>1, <2>2, Zenon DEF Marks
  <1>6. CASE Advances(t)
    <2>1. MovedTo(t, i, "check", Top(t).todo)
      BY <1>2, <1>6, Zenon DEF Advances
    <2> QED
      BY <1>6, <2>1, Zenon DEF MoverKind, MovedTo
  <1>7. CASE RunsClinit(t)
    <2>1. MovedTo(t, i, "clinit", Top(t).todo)
      BY <1>2, <1>7, Zenon DEF RunsClinit
    <2> QED
      BY <1>7, <2>1, Zenon DEF MoverKind, MovedTo
  <1>8. CASE PassesOver(t)
    <2>1. MovedTo(t, i, "initialize", Tail(Top(t).todo))
      BY <1>2, <1>8, Zenon DEF PassesOver
    <2> QED
      BY <1>8, <2>1, Zenon DEF MoverKind, MovedTo
  <1>9. CASE CallsFor(t)
    <2>1. PICK c, ps :
            \/ Top(t).at = "verifySuper" /\ Calls(t, c, "VERIFIED", "verify", ps)
            \/ Top(t).at = "prepare" /\ Calls(t, c, "PREPARED", "prepare", ps)
            \/ /\ Top(t).at = "initialize" /\ t \notin exc /\ Top(t).todo # <<>>
               /\ c = Head(Top(t).todo) /\ ps = Tail(Top(t).todo)
               /\ Calls(t, c, "INITIALIZED", "initialize", ps)
            \/ Top(t).at = "clinit" /\ Calls(t, c, "INITIALIZED", "clinit", ps)
      BY <1>9, Zenon DEF CallsFor
    <2>2. CASE Top(t).at = "verifySuper" /\ Calls(t, c, "VERIFIED", "verify", ps)
      <3>1. CalledFrom(t, i, c, "VERIFIED", "verify", ps)
        BY <1>3, <2>2, Zenon
      <3> QED
        BY <1>9, <2>2, <3>1, Zenon DEF MoverKind, CalledFrom
    <2>3. CASE Top(t).at = "prepare" /\ Calls(t, c, "PREPARED", "prepare", ps)
      <3>1. CalledFrom(t, i, c, "PREPARED", "prepare", ps)
        BY <1>3, <2>3, Zenon
      <3> QED
        BY <1>9, <2>3, <3>1, Zenon DEF MoverKind, CalledFrom
    <2>4. CASE /\ Top(t).at = "initialize" /\ t \notin exc /\ Top(t).todo # <<>>
               /\ c = Head(Top(t).todo) /\ ps = Tail(Top(t).todo)
               /\ Calls(t, c, "INITIALIZED", "initialize", ps)
      <3>1. CalledFrom(t, i, c, "INITIALIZED", "initialize", ps)
        BY <1>3, <2>4, Zenon
      <3> QED
        BY <1>9, <2>4, <3>1, Zenon DEF MoverKind, CalledFrom
    <2>5. CASE Top(t).at = "clinit" /\ Calls(t, c, "INITIALIZED", "clinit", ps)
      <3>1. CalledFrom(t, i, c, "INITIALIZED", "clinit", ps)
        BY <1>3, <2>5, Zenon
      <3> QED
        BY <1>9, <2>5, <3>1, Zenon DEF MoverKind, CalledFrom
    <2> QED
      BY <2>1, <2>2, <2>3, <2>4, <2>5, Zenon
  <1>10. ~Returns(t) /\ ~Starts(t)
    BY <1>1, Mover, Zenon DEF Starts
  <1> QED
    BY <1>4, <1>5, <1>6, <1>7, <1>8, <1>9, <1>10, Zenon DEF Kinds, Leaves, Finishes

-----------------------------------------------------------------------------
(* The conjuncts of the invariant are preserved, one by one: for the activations that the
   step left as they were, for the one it was of, and for the one it called. *)

(* What an activation has got to do was asked of it. *)
LEMMA ShapeStep ==
    ASSUME TypeOK, ShapeOK, NEW t \in Thread, Kinds(t)
    PROVE  ShapeOK'
  <1> SUFFICES ASSUME NEW u \in Thread, NEW i \in DOMAIN stack'[u]
               PROVE  ShapeAt(u, i)'
    BY Zenon DEF ShapeOK
  <1>1. CASE Kept(t, u, i)
    <2>1. ShapeAt(u, Was(u, i)) /\ stack'[u][i] = stack[u][Was(u, i)]
      BY <1>1, Zenon DEF ShapeOK, Kept
    <2>2. i > 1 => Was(u, i) > 1
      BY <1>1, Zenon DEF Kept
    <2> QED
      BY <2>1, <2>2, Zenon DEF ShapeAt
  <1>2. CASE Moved(t, u, i)
    <2>1. u = t /\ MoverKind(t, i) /\ stack'[t][i].desired = Top(t).desired
      BY <1>2, MoverKinds, Zenon DEF Moved
    <2>2. ShapeAt(t, 1)
      BY <1>2, Zenon DEF Moved, ShapeOK
    <2>3. i > 1 => stack'[t][i].at \in {"verify", "prepare", "initialize", "clinit"}
      BY <2>1, Zenon DEF MoverKind
    <2>4. stack'[t][i].at = "prepare" => Top(t).desired # "VERIFIED"
      BY <2>1, <2>2, Zenon DEF MoverKind, ShapeAt, Verifying, Top
    <2>5. stack'[t][i].at \in {"markInit", "initialize", "clinit"} => Top(t).desired = "INITIALIZED"
      BY <2>1, <2>2, Zenon DEF MoverKind, ShapeAt, Verifying, Top, RunsClinit, PassesOver
    <2> QED
      BY <2>1, <2>3, <2>4, <2>5, Zenon DEF ShapeAt
  <1>3. CASE Fresh(t, u, i)
    BY <1>3 DEF ShapeAt, Fresh
  <1> QED
    BY <1>1, <1>2, <1>3, StackKind, Origins, Zenon

(* Ancestor is the order that SuperAcyclic promises. *)
LEMMA AncestorOrder == IsAncestry(Ancestor)
  BY SuperAcyclic, Zenon DEF Ancestor

(* An activation is called by CallsFor, if not by Java code. *)
LEMMA FreshCalls ==
    ASSUME TypeOK, NEW t \in Thread, Kinds(t), stack[t] # <<>>, NEW i \in DOMAIN stack'[t], Fresh(t, t, i)
    PROVE  \/ /\ Top(t).at = "verifySuper" /\ stack'[t][i].class = Super[Top(t).class]
              /\ stack'[t][i].desired = "VERIFIED" /\ stack'[t][i].class \in Class
           \/ Top(t).at \in {"prepare", "initialize", "clinit"} /\ CallsFor(t)
  <1>1. Len(stack'[t]) = Len(stack[t]) + 1 /\ i = 1
    BY StackKind, Lengths DEF Fresh, Was
  <1>2. Len(stack[t]) \in Nat
    BY StackKind, Lengths, Zenon
  <1>3. ~Returns(t) /\ \A l, ps : ~Moves(t, l, ps)
    BY <1>1, <1>2 DEF Moves, Returns
  <1>4. CallsFor(t)
    BY <1>3, Zenon DEF Kinds, Starts, GoesOn, Marks, Advances, Leaves, Finishes, RunsClinit, PassesOver
  <1>5. PICK c \in Class, ps \in Seq(Class) :
          \/ Top(t).at = "verifySuper" /\ c = Super[Top(t).class] /\ Calls(t, c, "VERIFIED", "verify", ps)
          \/ Top(t).at \in {"prepare", "initialize", "clinit"}
    BY <1>4, Zenon DEF CallsFor
  <1> QED
    BY <1>1, <1>4, <1>5, Zenon DEF Calls, IsFrame

(* The classes that one thread verifies are superclasses of each other. *)
LEMMA VerifyStep ==
    ASSUME TypeOK, ShapeOK, VerifyOK, NEW t \in Thread, Kinds(t)
    PROVE  VerifyOK'
  <1> SUFFICES ASSUME NEW u \in Thread, NEW i \in DOMAIN stack'[u], NEW j \in DOMAIN stack'[u],
                      i < j, stack'[u][j].at = "verify"
               PROVE  stack'[u][i].desired = "VERIFIED" /\ <<stack'[u][j].class, stack'[u][i].class>> \in Ancestor
    BY Zenon DEF VerifyOK, VerifyAt
  <1>0. StackStep(t)
    BY StackKind, Zenon
  <1>1. CASE Kept(t, u, i) \/ Moved(t, u, i)
    <2>1. Was(u, i) < Was(u, j) /\ Kept(t, u, j) /\ Was(u, i) \in DOMAIN stack[u]
      BY <1>0, <1>1, Ordered, Zenon
    <2>2. stack'[u][i].desired = stack[u][Was(u, i)].desired /\ stack'[u][i].class = stack[u][Was(u, i)].class
      BY <1>1, Zenon DEF Kept, Moved, Top
    <2>3. stack'[u][j] = stack[u][Was(u, j)] /\ Was(u, j) \in DOMAIN stack[u]
      BY <2>1, Zenon DEF Kept
    <2>4. VerifyAt(u, Was(u, i), Was(u, j))
      BY <2>1, <2>3, Zenon DEF VerifyOK
    <2>5. stack[u][Was(u, j)].at = "verify"
      BY <2>3, Zenon
    <2>6. /\ stack[u][Was(u, i)].desired = "VERIFIED"
          /\ <<stack[u][Was(u, j)].class, stack[u][Was(u, i)].class>> \in Ancestor
      BY <2>1, <2>4, <2>5, Zenon DEF VerifyAt
    <2> QED
      BY <2>2, <2>3, <2>6, Zenon
  <1>2. CASE Fresh(t, u, i)
    <2>1. u = t /\ (Moved(t, u, j) \/ (Kept(t, u, j) /\ 1 < Was(u, j))) /\ 1 \in DOMAIN stack[t]
      BY <1>0, <1>2, Ordered, Zenon DEF Fresh, Moved
    <2>2. stack[t] # <<>> /\ Top(t).class \in Class
      <3>1. stack[t] # <<>>
        BY <2>1
      <3> QED
        BY <3>1, TopTyped, Zenon
    <2>3. \/ /\ Top(t).at = "verifySuper" /\ stack'[t][i].class = Super[Top(t).class]
             /\ stack'[t][i].desired = "VERIFIED" /\ stack'[t][i].class \in Class
          \/ Top(t).at \in {"prepare", "initialize", "clinit"} /\ CallsFor(t)
      BY <1>2, <2>1, <2>2, FreshCalls, Zenon
    <2>4. CASE Moved(t, u, j)
      <3>1. MoverKind(t, j) /\ stack'[t][j].class = Top(t).class
        BY <2>1, <2>4, MoverKinds, Zenon DEF Moved
      <3>2. ~(CallsFor(t) /\ Top(t).at \in {"prepare", "initialize", "clinit"})
        <4>1. ASSUME CallsFor(t), Top(t).at \in {"prepare", "initialize", "clinit"}
              PROVE  FALSE
          <5>1. PICK c, ps, d, l : Calls(t, c, d, l, ps) /\ l \in {"prepare", "initialize", "clinit"}
            BY <4>1, Zenon DEF CallsFor
          <5>2. CalledFrom(t, j, c, d, l, ps)
            BY <1>0, <2>1, <2>2, <2>4, <5>1, Mover, Zenon DEF Moved
          <5>4. stack'[t][j].at \in {"prepare", "initialize", "clinit"}
            BY <5>1, <5>2, Zenon DEF CalledFrom
          <5> QED
            BY <2>1, <5>4, Zenon
        <4> QED
          BY <4>1, Zenon
      <3>3. <<Top(t).class, Super[Top(t).class]>> \in Ancestor
        <4>1. Super[Top(t).class] # NoClass
          BY <2>3, <3>2, ClassAssumption, Zenon
        <4> QED
          BY <2>2, <4>1, AncestorOrder, Zenon DEF IsAncestry
      <3> QED
        BY <2>1, <2>3, <3>1, <3>2, <3>3, Zenon
    <2>5. CASE Kept(t, u, j) /\ 1 < Was(u, j)
      <3>1. stack'[t][j] = stack[t][Was(t, j)] /\ Was(t, j) \in DOMAIN stack[t] /\ 1 < Was(t, j)
        BY <2>1, <2>5, Zenon DEF Kept
      <3>2. VerifyAt(t, 1, Was(t, j)) /\ ShapeAt(t, 1) /\ stack[t][Was(t, j)].at = "verify"
        BY <2>1, <3>1, Zenon DEF VerifyOK, ShapeOK
      <3>3. Top(t).desired = "VERIFIED" /\ <<stack[t][Was(t, j)].class, Top(t).class>> \in Ancestor
        BY <3>1, <3>2, Zenon DEF VerifyAt, Top
      <3>4. Top(t).at \notin {"prepare", "initialize", "clinit"}
        BY <3>2, <3>3, Zenon DEF ShapeAt, Top
      <3>5. stack'[t][i].class = Super[Top(t).class] /\ stack'[t][i].desired = "VERIFIED" /\ stack'[t][i].class \in Class
        BY <2>3, <3>4, Zenon
      <3>6. <<Top(t).class, stack'[t][i].class>> \in Ancestor
        <4>1. Super[Top(t).class] # NoClass
          BY <3>5, ClassAssumption, Zenon
        <4> QED
          BY <2>2, <3>5, <4>1, AncestorOrder, Zenon DEF IsAncestry
      <3>7. stack[t][Was(t, j)].class \in Class
        BY <3>1, FrameTyped, Zenon
      <3>8. <<stack[t][Was(t, j)].class, stack'[t][i].class>> \in Ancestor
        BY <2>2, <3>3, <3>5, <3>6, <3>7, AncestorOrder DEF IsAncestry
      <3> QED
        BY <2>1, <3>1, <3>5, <3>8, Zenon
    <2> QED
      BY <2>1, <2>4, <2>5, Zenon
  <1> QED
    BY <1>0, <1>1, <1>2, Origins, Zenon

(* What an activation knows of its class, if f is that activation. *)
MarkOf(u, f) ==
    /\ f.at \in Verifying => MarkedBy(f.class, "Unverified", u)
    /\ f.at \in Initializing => MarkedBy(f.class, "NotInitialized", u)
    /\ f.at = "initialize" => clinits[f.class] = 0

(* Activations other than the innermost one are further from the top of the stack. *)
LEMMA Below ==
    ASSUME TypeOK, NEW t \in Thread, NEW i \in DOMAIN stack[t], i # 1
    PROVE  1 < i /\ i > 1 /\ 1 \in DOMAIN stack[t]
  <1>1. i \in Nat /\ i >= 1 /\ stack[t] # <<>>
    BY FrameTyped
  <1> QED
    BY <1>1, TopTyped

(* The mark that an activation has made on its class, after a step of its own thread or of
   another one, unless the step was the activation's own. *)
LEMMA MarkKept ==
    ASSUME TypeOK, ShapeOK, VerifyOK, MarkOK, OnceOK, NEW t \in Thread, Kinds(t), stack[t] # <<>>,
           NEW u \in Thread, NEW i \in DOMAIN stack[u], u # t \/ i # 1,
           stack[u][i].at \in Verifying \cup Initializing, stack[u][i].class = Top(t).class
    PROVE  status' = status /\ clinits' = clinits
  <1>0. 1 \in DOMAIN stack[t]
    BY TopTyped
  <1>1. Top(t).class \in Class /\ t # NoThread /\ u # NoThread
        /\ MarkAt(t, 1) /\ MarkAt(u, i) /\ ShapeAt(u, i)
    BY <1>0, TopTyped, ClassAssumption, Zenon DEF MarkOK, ShapeOK
  <1>2. status[Top(t).class].by = u
    BY <1>1, Zenon DEF MarkAt, MarkedBy
  <1>3. Top(t).at \notin Verifying
    <2> SUFFICES ASSUME Top(t).at \in Verifying
                 PROVE  FALSE
      BY Zenon
    <2>1. status[Top(t).class].by = t /\ status[Top(t).class].state = "Unverified"
      BY <1>1, Zenon DEF MarkAt, MarkedBy, Top
    <2>2. u = t /\ i # 1 /\ stack[u][i].at \in Verifying
      BY <1>1, <1>2, <2>1, Zenon DEF MarkAt, MarkedBy
    <2>3. 1 < i /\ i > 1
      BY <2>2, Below, Zenon
    <2>4. stack[u][i].at = "verify"
      BY <1>1, <2>2, <2>3, Zenon DEF ShapeAt, Verifying
    <2>5. VerifyAt(t, 1, i)
      BY <1>0, <2>2, Zenon DEF VerifyOK
    <2>6. <<Top(t).class, Top(t).class>> \in Ancestor
      BY <2>2, <2>3, <2>4, <2>5, Zenon DEF VerifyAt, Top
    <2> QED
      BY <1>1, <2>6, AncestorOrder, Zenon DEF IsAncestry
  <1>4. Top(t).at \notin Initializing
    <2> SUFFICES ASSUME Top(t).at \in Initializing
                 PROVE  FALSE
      BY Zenon
    <2>1. status[Top(t).class].by = t /\ status[Top(t).class].state = "NotInitialized"
      BY <1>1, Zenon DEF MarkAt, MarkedBy, Top
    <2>2. u = t /\ i # 1 /\ stack[u][i].at \in Initializing
      BY <1>1, <1>2, <2>1, Zenon DEF MarkAt, MarkedBy
    <2>3. 1 < i /\ OnceAt(t, 1, i)
      BY <1>0, <2>2, Below, Zenon DEF OnceOK
    <2> QED
      BY <2>2, <2>3, Zenon DEF OnceAt, Top
  <1>5. ~Marks(t)
    BY <1>1, <1>2, Zenon DEF Marks
  <1>6. ~Advances(t)
    <2>1. Advances(t) => status[Top(t).class].by = NoThread
      BY <1>3, Zenon DEF Advances, MarkedBy
    <2> QED
      BY <1>1, <1>2, <2>1, Zenon
  <1>7. ~Finishes(t) /\ ~RunsClinit(t)
    BY <1>3, <1>4, Zenon DEF Finishes, RunsClinit, Verifying, Initializing
  <1> QED
    BY <1>5, <1>6, <1>7, LeftAsTheyWere, Zenon

(* An activation that a step does not move keeps its mark. *)
LEMMA MarkStays ==
    ASSUME TypeOK, ShapeOK, VerifyOK, MarkOK, OnceOK, NEW t \in Thread, Kinds(t),
           NEW u \in Thread, NEW k \in DOMAIN stack[u], stack[t] = <<>> \/ u # t \/ k # 1,
           NEW f, f = stack[u][k]
    PROVE  MarkOf(u, f)'
  <1>1. f.class \in Class /\ MarkOf(u, f)
    BY FrameTyped, Zenon DEF MarkOK, MarkAt, MarkOf
  <1>2. CASE f.at \in Verifying \cup Initializing
    <2>1. status'[f.class] = status[f.class] /\ clinits'[f.class] = clinits[f.class]
      <3>1. CASE stack[t] = <<>> \/ f.class # Top(t).class
        BY <1>1, <3>1, OneStatus, Zenon
      <3>2. CASE stack[t] # <<>> /\ f.class = Top(t).class
        BY <1>2, <3>2, MarkKept, Zenon
      <3> QED
        BY <3>1, <3>2, Zenon
    <2> QED
      BY <1>1, <2>1, Zenon DEF MarkOf, MarkedBy
  <1>3. CASE f.at \notin Verifying \cup Initializing
    BY <1>3, Zenon DEF MarkOf, Initializing
  <1> QED
    BY <1>2, <1>3, Zenon

(* The activation that the step is of has made the mark, or finds it. *)
LEMMA MarkMoves ==
    ASSUME TypeOK, StatusOK, MarkOK, NEW t \in Thread, Kinds(t), NEW i \in DOMAIN stack'[t], Moved(t, t, i),
           NEW f, f = stack'[t][i]
    PROVE  MarkOf(t, f)'
  <1>1. f.class = Top(t).class /\ MoverKind(t, i) /\ MarkAt(t, 1)
    BY MoverKinds, Zenon DEF Moved, MarkOK
  <1>2. Top(t).class \in Class
    BY FrameTyped, Zenon DEF Moved, Top
  <1>3. CASE f.at \notin Verifying \cup Initializing
    BY <1>3, Zenon DEF MarkOf, Initializing
  <1>4. CASE f.at \in Verifying /\ GoesOn(t) /\ MarkedBy(Top(t).class, "Unverified", t)
    <2>1. status' = status /\ f.at \notin Initializing /\ f.at # "initialize"
      BY <1>4, Zenon DEF GoesOn, Verifying, Initializing
    <2> QED
      BY <1>1, <1>4, <2>1, Zenon DEF MarkOf, MarkedBy
  <1>5. CASE Marks(t) /\ f.at = "verifySuper" /\ status[Top(t).class].state = "Unverified"
    <2>1. NewStatus(t, status[Top(t).class].state, t) /\ f.at \notin Initializing /\ f.at # "initialize"
      BY <1>5, SetBy, Zenon DEF Initializing
    <2>2. status'[Top(t).class].state = "Unverified" /\ status'[Top(t).class].by = t
      BY <1>2, <1>5, <2>1, Zenon DEF NewStatus
    <2> QED
      BY <1>1, <2>1, <2>2, Zenon DEF MarkOf, MarkedBy
  <1>6. CASE Marks(t) /\ f.at = "initialize" /\ status[Top(t).class].state = "NotInitialized"
    <2>1. NewStatus(t, status[Top(t).class].state, t) /\ f.at \notin Verifying
      BY <1>6, SetBy, Zenon DEF Verifying
    <2>2. status'[Top(t).class].state = "NotInitialized" /\ status'[Top(t).class].by = t
      BY <1>2, <1>6, <2>1, Zenon DEF NewStatus
    <2>3. clinits'[Top(t).class] = 0
      <3>1. clinits' = clinits /\ status[Top(t).class].by = NoThread
        BY <1>6, Zenon DEF Marks
      <3> QED
        BY <1>2, <1>6, <3>1, Zenon DEF StatusOK
    <2> QED
      BY <1>1, <2>1, <2>2, <2>3, Zenon DEF MarkOf, MarkedBy
  <1>7. CASE CallsFor(t) /\ Top(t).at = "verifySuper" /\ f.at = "verify"
    <2>1. status' = status /\ Top(t).at \in Verifying /\ f.at \notin Initializing
      BY <1>7, Zenon DEF CallsFor, Verifying, Initializing
    <2> QED
      BY <1>1, <1>7, <2>1, Zenon DEF MarkOf, MarkAt, MarkedBy, Top
  <1>8. CASE Top(t).at \in Initializing /\ f.at \in Initializing /\ f.at # "clinit" /\ Top(t).at # "clinit"
             /\ (CallsFor(t) \/ PassesOver(t))
    <2>1. status' = status /\ clinits' = clinits /\ f.at \notin Verifying /\ Top(t).at = "initialize"
      BY <1>8, Zenon DEF CallsFor, PassesOver, Verifying, Initializing
    <2> QED
      BY <1>1, <1>8, <2>1, Zenon DEF MarkOf, MarkAt, MarkedBy, Top
  <1>9. CASE Top(t).at \in Initializing /\ f.at = "clinit" /\ (CallsFor(t) \/ RunsClinit(t))
    <2>1. status' = status /\ f.at \notin Verifying
      BY <1>9, Zenon DEF CallsFor, RunsClinit, Verifying
    <2> QED
      BY <1>1, <1>9, <2>1, Zenon DEF MarkOf, MarkAt, MarkedBy, Top
  <1>10. "initialize" \in Initializing /\ "clinit" \in Initializing /\ "prepare" \notin Verifying \cup Initializing
         /\ "check" \notin Verifying \cup Initializing /\ "markVerify" \notin Verifying \cup Initializing
         /\ "inProgress" \notin Verifying \cup Initializing /\ "wait" \notin Verifying \cup Initializing
         /\ "markInit" \notin Verifying \cup Initializing /\ "initialize" # "clinit"
    BY Zenon DEF Verifying, Initializing
  <1>11. (RunsClinit(t) \/ PassesOver(t)) => Top(t).at = "initialize"
    BY Zenon DEF RunsClinit, PassesOver
  <1> QED
    BY <1>1, <1>3, <1>4, <1>5, <1>6, <1>7, <1>8, <1>9, <1>10, <1>11, Zenon DEF MoverKind

(* Marks stay where they are while their activations do. *)
LEMMA MarkStep ==
    ASSUME TypeOK, StatusOK, ShapeOK, VerifyOK, MarkOK, OnceOK, NEW t \in Thread, Kinds(t)
    PROVE  MarkOK'
  <1> SUFFICES ASSUME NEW u \in Thread, NEW i \in DOMAIN stack'[u], NEW f, f = stack'[u][i]
               PROVE  MarkOf(u, f)'
    BY Zenon DEF MarkOK, MarkAt, MarkOf
  <1>1. CASE Kept(t, u, i)
    <2>1. Was(u, i) \in DOMAIN stack[u] /\ f = stack[u][Was(u, i)] /\ (u # t \/ Was(u, i) # 1)
      BY <1>1, Zenon DEF Kept
    <2> QED
      BY <2>1, MarkStays, Zenon
  <1>2. CASE Moved(t, u, i)
    <2>1. u = t
      BY <1>2, Zenon DEF Moved
    <2> QED
      BY <1>2, <2>1, MarkMoves, Zenon
  <1>3. CASE Fresh(t, u, i)
    BY <1>3, Zenon DEF Fresh, MarkOf, Verifying, Initializing
  <1> QED
    BY <1>1, <1>2, <1>3, StackKind, Origins, Zenon

(* An activation initializes a class that no activation below it initializes. *)
LEMMA OnceStep ==
    ASSUME TypeOK, MarkOK, OnceOK, NEW t \in Thread, Kinds(t)
    PROVE  OnceOK'
  <1> SUFFICES ASSUME NEW u \in Thread, NEW i \in DOMAIN stack'[u], NEW j \in DOMAIN stack'[u], i < j,
                      stack'[u][i].at \in Initializing, stack'[u][j].at \in Initializing
               PROVE  stack'[u][i].class # stack'[u][j].class
    BY Zenon DEF OnceOK, OnceAt
  <1>0. StackStep(t)
    BY StackKind, Zenon
  <1>1. ~Fresh(t, u, i)
    BY Zenon DEF Fresh, Initializing
  <1>2. Was(u, i) < Was(u, j) /\ Kept(t, u, j) /\ Was(u, i) \in DOMAIN stack[u]
    BY <1>0, <1>1, Ordered, Origins, Zenon
  <1>3. stack'[u][j] = stack[u][Was(u, j)] /\ Was(u, j) \in DOMAIN stack[u]
    BY <1>2, Zenon DEF Kept
  <1>4. OnceAt(u, Was(u, i), Was(u, j)) /\ stack[u][Was(u, j)].at \in Initializing
    BY <1>2, <1>3, Zenon DEF OnceOK
  <1>5. CASE Kept(t, u, i)
    <2>1. stack'[u][i] = stack[u][Was(u, i)]
      BY <1>5, Zenon DEF Kept
    <2> QED
      BY <1>2, <1>3, <1>4, <2>1, Zenon DEF OnceAt
  <1>6. CASE Moved(t, u, i)
    <2>1. u = t /\ Was(t, i) = 1 /\ stack'[t][i].class = Top(t).class /\ MoverKind(t, i)
      BY <1>6, MoverKinds, Zenon DEF Moved
    <2>2. Top(t).at \in Initializing \/ Marks(t)
      BY <2>1, Zenon DEF MoverKind, Verifying, Initializing, RunsClinit, PassesOver
    <2>3. CASE Top(t).at \in Initializing
      BY <1>2, <1>3, <1>4, <2>1, <2>3, Zenon DEF OnceAt, Top
    <2>4. CASE Marks(t)
      <3>1. status[Top(t).class].by = NoThread /\ t # NoThread
        BY <2>4, ClassAssumption, Zenon DEF Marks
      <3>2. MarkAt(t, Was(t, j))
        BY <1>3, <2>1, Zenon DEF MarkOK
      <3>3. status[stack[t][Was(t, j)].class].by = t
        BY <1>4, <2>1, <3>2, Zenon DEF MarkAt, MarkedBy
      <3> QED
        BY <1>3, <2>1, <3>1, <3>3, Zenon
    <2> QED
      BY <2>2, <2>3, <2>4, Zenon
  <1> QED
    BY <1>0, <1>1, <1>5, <1>6, Origins, Zenon

(* The supertypes of a class are classes. *)
LEMMA ParentsTyped ==
    ASSUME NEW c \in Class
    PROVE  Parents(c) \subseteq Class
  BY SupertypesTyped DEF Parents

(* A supertype to see to is the next one, or to be seen to later. *)
LEMMA HeadOrTail ==
    ASSUME NEW ps \in Seq(Class), ps # <<>>, NEW n \in DOMAIN ps
    PROVE  ps[n] = Head(ps) \/ \E m \in DOMAIN Tail(ps) : Tail(ps)[m] = ps[n]
  <1>1. CASE n = 1
    BY <1>1
  <1>2. CASE n # 1
    <2>1. n - 1 \in DOMAIN Tail(ps) /\ Tail(ps)[n - 1] = ps[n]
      BY <1>2
    <2> QED
      BY <2>1, Zenon
  <1> QED
    BY <1>1, <1>2, Zenon

(* A step of one thread neither throws nor handles an exception of another. *)
LEMMA OwnException ==
    ASSUME NEW t \in Thread, Kinds(t), NEW u \in Thread, u # t
    PROVE  u \in exc' <=> u \in exc
  <1>1. Starts(t) \/ Finishes(t) => (exc' = exc \cup {t} \/ exc' = exc \ {t})
    BY Zenon DEF Starts, Finishes
  <1>2. Leaves(t) => exc \subseteq exc' /\ exc' \subseteq exc \cup {t}
    BY Zenon DEF Leaves
  <1> QED
    BY <1>1, <1>2, LeftAsTheyWere, Zenon

(* An activation that returns leaves the class it was asked to initialize settled, unless
   it throws. *)
LEMMA ReturnSettles ==
    ASSUME TypeOK, NEW t \in Thread, stack[t] # <<>>, Leaves(t) \/ Finishes(t), NEW p \in Class,
           p = Top(t).class, Top(t).desired = "INITIALIZED"
    PROVE  Settled(p)' \/ t \in exc'
  <1>1. CASE Leaves(t)
    BY <1>1, Zenon DEF Leaves
  <1>2. CASE Finishes(t)
    <2>1. t \in exc' \/ NewStatus(t, "Succeeded", NoThread)
      BY <1>2, SetBy, Zenon
    <2>2. NewStatus(t, "Succeeded", NoThread) => status'[p].state = "Succeeded"
      BY Zenon DEF NewStatus
    <2> QED
      BY <2>1, <2>2, Zenon DEF Settled
  <1> QED
    BY <1>1, <1>2, Zenon

(* Who has to see to a supertype of the class of an activation that the step left as it
   was. *)
LEMMA ParentStays ==
    ASSUME TypeOK, MarkOK, ParentOK, NEW t \in Thread, Kinds(t), NEW u \in Thread, NEW i \in DOMAIN stack'[u],
           Kept(t, u, i), NEW p \in Parents(stack'[u][i].class), p \in Class
    PROVE  ParentAt(u, i, p)'
  <1>0. StackStep(t)
    BY StackKind, Zenon
  <1>1. Was(u, i) \in DOMAIN stack[u] /\ stack'[u][i] = stack[u][Was(u, i)]
    BY Zenon DEF Kept
  <1>2. ParentAt(u, Was(u, i), p)
    BY <1>1, Zenon DEF ParentOK
  <1>3. Settled(p) => Settled(p)'
    BY SettledStays, Zenon
  <1>4. ASSUME Was(u, i) = 1, u \in exc
        PROVE  i = 1 /\ u \in exc'
    BY <1>4, OwnException, Zenon DEF Kept
  <1>5. ASSUME NEW k \in DOMAIN stack[u], k + 1 = Was(u, i), stack[u][k].class = p, stack[u][k].desired = "INITIALIZED"
        PROVE  \/ Settled(p)' \/ (i = 1 /\ u \in exc')
               \/ \E h \in DOMAIN stack'[u] : h + 1 = i /\ stack'[u][h].class = p /\ stack'[u][h].desired = "INITIALIZED"
    <2>1. CASE u = t /\ k = 1 /\ i = 1 /\ Returns(t)
      <3>1. stack[t] # <<>> /\ p = Top(t).class /\ Top(t).desired = "INITIALIZED"
        <4>1. stack[t] # <<>>
          BY <2>1
        <4> QED
          BY <1>5, <2>1, <4>1, Zenon DEF Top
      <3>2. Leaves(t) \/ Finishes(t)
        <4>1. Len(stack[t]) \in Nat
          BY <3>1, TopTyped, Zenon
        <4>2. (\A l, ps : ~Moves(t, l, ps)) /\ (\A c, d, l, ps : ~Calls(t, c, d, l, ps))
          BY <2>1, <4>1 DEF Returns, Moves, Calls
        <4> QED
          BY <3>1, <4>2, Zenon DEF Kinds, Starts, GoesOn, Marks, Advances, CallsFor, RunsClinit, PassesOver
      <3> QED
        BY <2>1, <3>1, <3>2, ReturnSettles, Zenon
    <2>2. CASE \E h \in DOMAIN stack'[u] :
                 h + 1 = i /\ stack'[u][h].class = stack[u][k].class /\ stack'[u][h].desired = stack[u][k].desired
      BY <1>5, <2>2, Zenon
    <2>3. \/ u = t /\ k = 1 /\ i = 1 /\ Returns(t)
          \/ \E h \in DOMAIN stack'[u] :
                h + 1 = i /\ stack'[u][h].class = stack[u][k].class /\ stack'[u][h].desired = stack[u][k].desired
      BY <1>0, <1>5, Callees, Zenon
    <2> QED
      BY <2>1, <2>2, <2>3, Zenon
  <1>6. CASE stack'[u][i].at \notin {"initialize", "clinit"}
    BY <1>6, Zenon DEF ParentAt
  <1>7. CASE stack'[u][i].at = "clinit"
    BY <1>1, <1>2, <1>3, <1>7, Zenon DEF ParentAt
  <1>8. CASE stack'[u][i].at = "initialize"
    <2>1. \/ Settled(p)
          \/ \E n \in DOMAIN stack'[u][i].todo : stack'[u][i].todo[n] = p
          \/ Was(u, i) = 1 /\ u \in exc
          \/ \E k \in DOMAIN stack[u] : k + 1 = Was(u, i) /\ stack[u][k].class = p /\ stack[u][k].desired = "INITIALIZED"
      BY <1>1, <1>2, <1>8, Zenon DEF ParentAt
    <2>2. \/ Settled(p)'
          \/ \E n \in DOMAIN stack'[u][i].todo : stack'[u][i].todo[n] = p
          \/ i = 1 /\ u \in exc'
          \/ \E h \in DOMAIN stack'[u] : h + 1 = i /\ stack'[u][h].class = p /\ stack'[u][h].desired = "INITIALIZED"
      BY <1>3, <1>4, <1>5, <2>1, Zenon
    <2>3. stack'[u][i].at # "clinit"
      BY <1>8, Zenon
    <2> QED
      BY <2>2, <2>3, Zenon DEF ParentAt
  <1> QED
    BY <1>6, <1>7, <1>8, Zenon

(* And of the class of the activation that the step was of. *)
LEMMA ParentMoves ==
    ASSUME TypeOK, MarkOK, ParentOK, NEW t \in Thread, Kinds(t), NEW i \in DOMAIN stack'[t], Moved(t, t, i),
           NEW p \in Parents(stack'[t][i].class), p \in Class
    PROVE  ParentAt(t, i, p)'
  <1>1. stack'[t][i].class = Top(t).class /\ MoverKind(t, i) /\ 1 \in DOMAIN stack[t]
    BY MoverKinds, Zenon DEF Moved
  <1>2. ParentAt(t, 1, p) /\ Top(t).todo \in Seq(Class)
    BY <1>1, FrameTyped, Zenon DEF ParentOK, Top
  <1>3. Settled(p) => Settled(p)'
    BY SettledStays, Zenon
  <1>4. CASE stack'[t][i].at \notin {"initialize", "clinit"}
    BY <1>4, Zenon DEF ParentAt
  <1>0. ~\E k \in DOMAIN stack[t] : k + 1 = 1
    <2>1. \A k \in DOMAIN stack[t] : k \in Nat /\ k >= 1
      BY FrameTyped, Zenon
    <2> QED
      BY <2>1
  <1>5. ASSUME Top(t).at = "initialize", t \notin exc
        PROVE  Settled(p)' \/ \E n \in DOMAIN Top(t).todo : Top(t).todo[n] = p
    BY <1>0, <1>2, <1>3, <1>5, Zenon DEF ParentAt, Top
  <1>6. CASE stack'[t][i].at = "clinit"
    <2>1. stack'[t][i].at # "initialize"
      BY <1>6, Zenon
    <2>2. CASE Top(t).at = "clinit"
      BY <1>2, <1>3, <2>1, <2>2, Zenon DEF ParentAt, Top
    <2>3. CASE RunsClinit(t)
      <3>1. Top(t).at = "initialize" /\ t \notin exc /\ Top(t).todo = <<>>
        BY <2>3, Zenon DEF RunsClinit
      <3>2. ~\E n \in DOMAIN Top(t).todo : Top(t).todo[n] = p
        BY <3>1
      <3> QED
        BY <1>5, <2>1, <3>1, <3>2, Zenon DEF ParentAt
    <2> QED
      BY <1>1, <1>6, <2>2, <2>3, Zenon DEF MoverKind, Verifying
  <1>7. ASSUME stack'[t][i].at = "initialize",
               \/ Settled(p)' \/ (\E n \in DOMAIN stack'[t][i].todo : stack'[t][i].todo[n] = p)
               \/ (i = 1 /\ t \in exc')
               \/ \E k \in DOMAIN stack'[t] : k + 1 = i /\ stack'[t][k].class = p /\ stack'[t][k].desired = "INITIALIZED"
        PROVE  ParentAt(t, i, p)'
    <2>1. stack'[t][i].at # "clinit"
      BY <1>7, Zenon
    <2> QED
      BY <1>7, <2>1, Zenon DEF ParentAt
  <1>8. CASE stack'[t][i].at = "initialize"
    <2>1. CASE stack'[t][i].todo = ToInitialize(Top(t).class)
      BY <1>1, <1>7, <1>8, <2>1, Zenon DEF Parents
    <2>2. CASE /\ CallsFor(t) /\ Top(t).at = "initialize" /\ t \notin exc /\ Top(t).todo # <<>>
               /\ stack'[t][i].todo = Tail(Top(t).todo)
               /\ \E k \in DOMAIN stack'[t] : k + 1 = i /\ stack'[t][k].class = Head(Top(t).todo)
                                              /\ stack'[t][k].desired = "INITIALIZED"
      <3>1. Settled(p)' \/ p = Head(Top(t).todo) \/ \E m \in DOMAIN Tail(Top(t).todo) : Tail(Top(t).todo)[m] = p
        <4>1. \A n \in DOMAIN Top(t).todo :
                \/ Top(t).todo[n] = Head(Top(t).todo)
                \/ \E m \in DOMAIN Tail(Top(t).todo) : Tail(Top(t).todo)[m] = Top(t).todo[n]
          BY <1>2, <2>2, HeadOrTail, Zenon
        <4> QED
          BY <1>5, <2>2, <4>1, Zenon
      <3> QED
        BY <1>7, <1>8, <2>2, <3>1, Zenon
    <2>3. CASE PassesOver(t) /\ stack'[t][i].todo = Tail(Top(t).todo)
      <3>1. Top(t).at = "initialize" /\ Top(t).todo # <<>> /\ LeftAlone(Head(Top(t).todo)) /\ exc' = exc
            /\ Moves(t, "initialize", Tail(Top(t).todo))
        BY <2>3, Zenon DEF PassesOver
      <3>2. \/ Settled(p)' \/ t \in exc \/ p = Head(Top(t).todo)
            \/ \E m \in DOMAIN Tail(Top(t).todo) : Tail(Top(t).todo)[m] = p
        BY <1>2, <1>5, <3>1, HeadOrTail, Zenon
      <3>3. p = Head(Top(t).todo) => Settled(p)'
        BY <3>1, Zenon DEF Settled
      <3>4. i = 1
        <4>1. i \in Nat /\ i >= 1 /\ ~(i > 1)
          <5>1. stack[t] # <<>>
            BY <1>1
          <5>2. MovedTo(t, i, "initialize", Tail(Top(t).todo))
            BY <3>1, <5>1, StackKind, Mover, Zenon DEF Moved
          <5>3. ~(i > 1)
            BY <5>2, Zenon DEF MovedTo
          <5>4. DOMAIN stack'[t] = 1..Len(stack'[t])
            BY StackKind, Lengths, Zenon
          <5> QED
            BY <5>3, <5>4
        <4> QED
          BY <4>1
      <3> QED
        BY <1>7, <1>8, <2>3, <3>1, <3>2, <3>3, <3>4, Zenon
    <2> QED
      BY <1>1, <1>8, <2>1, <2>2, <2>3, Zenon DEF MoverKind, Verifying
  <1> QED
    BY <1>4, <1>6, <1>8, Zenon

(* A supertype is not lost on the way to <clinit>. *)
LEMMA ParentStep ==
    ASSUME TypeOK, MarkOK, ParentOK, NEW t \in Thread, Kinds(t)
    PROVE  ParentOK'
  <1> SUFFICES ASSUME NEW u \in Thread, NEW i \in DOMAIN stack'[u], NEW p \in Parents(stack'[u][i].class)
               PROVE  ParentAt(u, i, p)'
    BY Zenon DEF ParentOK
  <1>1. p \in Class
    <2>1. stack'[u] \in Seq(FrameType)
      BY TypeStep, Zenon DEF TypeOK
    <2>2. stack'[u][i] \in FrameType
      BY <2>1
    <2>3. stack'[u][i].class \in Class
      BY <2>2, Zenon DEF FrameType
    <2> QED
      BY <2>3, ParentsTyped, Zenon
  <1>2. CASE Kept(t, u, i)
    BY <1>1, <1>2, ParentStays, Zenon
  <1>3. CASE Moved(t, u, i)
    <2>1. u = t
      BY <1>3, Zenon DEF Moved
    <2> QED
      BY <1>1, <1>3, <2>1, ParentMoves, Zenon
  <1>4. CASE Fresh(t, u, i)
    BY <1>4, Zenon DEF Fresh, ParentAt
  <1> QED
    BY <1>2, <1>3, <1>4, StackKind, Origins, Zenon

(* An initialized class has its supertypes settled. *)
LEMMA SupertypesStep ==
    ASSUME TypeOK, MarkOK, ParentOK, SupertypesInitializedFirst, NEW t \in Thread, Kinds(t)
    PROVE  SupertypesInitializedFirst'
  <1> SUFFICES ASSUME NEW c \in Class, status'[c].state = "Succeeded", NEW k \in DOMAIN ToInitialize(c),
                      NEW p, p = ToInitialize(c)[k]
               PROVE  Settled(p)'
    BY Zenon DEF SupertypesInitializedFirst, Settled
  <1>1. p \in Class /\ p \in Parents(c)
    BY ParentsTyped, Zenon DEF Parents
  <1>2. CASE status[c].state = "Succeeded"
    <2>1. Settled(p)
      BY <1>2, Zenon DEF SupertypesInitializedFirst, Settled
    <2> QED
      BY <1>1, <2>1, SettledStays, Zenon
  <1>3. CASE status[c].state # "Succeeded"
    <2>1. stack[t] # <<>> /\ c = Top(t).class
      BY <1>3, OneStatus, Zenon
    <2>2. 1 \in DOMAIN stack[t] /\ ~(Top(t).at = "clinit" /\ Top(t).at \in Verifying)
      BY <2>1, TopTyped DEF Verifying
    <2>3. ~Marks(t)
      BY <1>3, <2>1, SetBy, Zenon DEF NewStatus
    <2>4. ~Advances(t)
      BY <2>1, SetBy, Zenon DEF NewStatus
    <2>5. Finishes(t)
      BY <1>3, <2>3, <2>4, LeftAsTheyWere, Zenon
    <2>6. Top(t).at = "clinit"
      BY <2>1, <2>5, SetBy, Zenon DEF NewStatus
    <2>7. ParentAt(t, 1, p)
      BY <1>1, <2>1, <2>2, Zenon DEF ParentOK, Top
    <2>8. Settled(p)
      BY <2>6, <2>7, Zenon DEF ParentAt, Top
    <2> QED
      BY <1>1, <2>8, SettledStays, Zenon
  <1> QED
    BY <1>2, <1>3, Zenon

(* The activations of t that are at work on class c. *)
AtWork(t, i, c) == stack[t][i].class = c /\ stack[t][i].at \in Verifying \cup Initializing

(* An activation at work on a class that is still marked, and that its thread has not given
   up on, is at work after the step, if perhaps at another place of the stack. *)
LEMMA WorkGoesOn ==
    ASSUME TypeOK, NEW t \in Thread, Kinds(t), NEW c \in Class \ abandoned', NEW u \in Thread,
           status'[c].by = u, NEW k \in DOMAIN stack[u], AtWork(u, k, c)
    PROVE  \E i \in DOMAIN stack'[u] : AtWork(u, i, c)'
  <1>0. u # NoThread /\ StackStep(t)
    BY ClassAssumption, StackKind, Zenon
  <1>1. ASSUME Advances(t) \/ Finishes(t)
        PROVE  c # Top(t).class
    <2>1. \E s : NewStatus(t, s, NoThread)
      BY <1>1, SetBy, Zenon
    <2> QED
      BY <1>0, <2>1, Zenon DEF NewStatus
  <1>2. CASE u = t /\ k = 1 /\ Returns(t)
    <2>1. stack[t] # <<>> /\ Top(t).class = c /\ Top(t).at \in Verifying \cup Initializing
      <3>1. stack[t] # <<>>
        BY <1>2
      <3> QED
        BY <1>2, <3>1, Zenon DEF AtWork, Top
    <2>2. Len(stack[t]) \in Nat
      BY <2>1, TopTyped, Zenon
    <2>3. (\A l, ps : ~Moves(t, l, ps)) /\ (\A d, e, l, ps : ~Calls(t, d, e, l, ps))
      BY <1>2, <2>2 DEF Returns, Moves, Calls
    <2>4. Leaves(t)
      BY <1>1, <2>1, <2>3, Zenon DEF Kinds, Starts, GoesOn, Marks, Advances, CallsFor, RunsClinit, PassesOver
    <2> QED
      BY <2>1, <2>4, Zenon DEF Leaves
  <1>3. ASSUME NEW i \in DOMAIN stack'[u], Was(u, i) = k, Kept(t, u, i)
        PROVE  AtWork(u, i, c)'
    BY <1>3, Zenon DEF Kept, AtWork
  <1>4. ASSUME NEW i \in DOMAIN stack'[u], Was(u, i) = k, Moved(t, u, i)
        PROVE  AtWork(u, i, c)'
    <2>1. u = t /\ MoverKind(t, i) /\ stack'[t][i].class = Top(t).class /\ Top(t).class = c
          /\ Top(t).at \in Verifying \cup Initializing
      BY <1>4, MoverKinds, Zenon DEF Moved, AtWork, Top
    <2>2. ~Advances(t)
      BY <1>1, <2>1, Zenon
    <2>3. stack'[t][i].at \in Verifying \cup Initializing
      BY <2>1, <2>2, Zenon DEF MoverKind, Verifying, Initializing
    <2> QED
      BY <2>1, <2>3, Zenon DEF AtWork
  <1>5. Lives(t, u, k) \/ (u = t /\ k = 1 /\ Returns(t))
    BY <1>0, Survives, Zenon
  <1> QED
    BY <1>2, <1>3, <1>4, <1>5, Zenon DEF Lives

(* A class that a thread has marked has an activation of that thread at work on it. *)
LEMMA InProgressStep ==
    ASSUME TypeOK, InProgressHasThread, NEW t \in Thread, Kinds(t)
    PROVE  InProgressHasThread'
  <1> SUFFICES ASSUME NEW c \in Class \ abandoned', NEW u, u = status'[c].by, u # NoThread
               PROVE  \E i \in DOMAIN stack'[u] : AtWork(u, i, c)'
    BY DEF InProgressHasThread, AtWork, Verifying, Initializing
  <1>1. u \in Thread /\ abandoned \subseteq abandoned'
    <2>1. status'[c] \in StatusType
      BY OneStatus, Zenon
    <2>2. u \in Thread
      BY <2>1, Zenon DEF StatusType
    <2> QED
      BY <2>2, LeftAsTheyWere, Zenon
  <1>2. CASE status[c].by = u
    <2>1. PICK k \in DOMAIN stack[u] : AtWork(u, k, c)
      <3>1. c \in Class \ abandoned
        BY <1>1, Zenon
      <3>2. PICK k \in DOMAIN stack[u] :
              /\ stack[u][k].class = c
              /\ stack[u][k].at \in {"verifySuper", "verify", "verified", "initialize", "clinit"}
        BY <1>1, <1>2, <3>1 DEF InProgressHasThread
      <3> QED
        BY <3>2, Zenon DEF AtWork, Verifying, Initializing
    <2> QED
      BY <1>1, <2>1, WorkGoesOn, Zenon
  <1>3. CASE status[c].by # u
    <2>1. stack[t] # <<>> /\ c = Top(t).class
      BY <1>3, OneStatus, Zenon
    <2>2. 1 \in DOMAIN stack[t]
      BY <2>1, TopTyped
    <2>3. ~Advances(t) /\ ~Finishes(t)
      <3>1. Advances(t) \/ Finishes(t) => \E s : NewStatus(t, s, NoThread)
        BY SetBy, Zenon
      <3> QED
        BY <2>1, <3>1, Zenon DEF NewStatus
    <2>4. Marks(t)
      BY <1>3, <2>3, LeftAsTheyWere, Zenon
    <2>5. u = t
      <3>1. NewStatus(t, status[Top(t).class].state, t)
        BY <2>4, SetBy, Zenon
      <3> QED
        BY <2>1, <3>1, Zenon DEF NewStatus
    <2>6. PICK l, ps : Moves(t, l, ps) /\ l \in Verifying \cup Initializing
      BY <2>4, Zenon DEF Marks, Verifying, Initializing
    <2>7. ~Returns(t)
      <3>1. Len(stack[t]) \in Nat
        BY <2>1, TopTyped, Zenon
      <3> QED
        BY <2>6, <3>1 DEF Moves, Returns
    <2>8. PICK i \in DOMAIN stack'[t] : Was(t, i) = 1 /\ (Kept(t, t, i) \/ Moved(t, t, i))
      BY <2>2, <2>7, StackKind, Survives, Zenon DEF Lives
    <2>9. MovedTo(t, i, l, ps) /\ stack'[t][i].class = Top(t).class
      BY <2>1, <2>6, <2>8, StackKind, Mover, Zenon DEF Kept, Moved
    <2> QED
      BY <2>1, <2>5, <2>6, <2>9, Zenon DEF AtWork, MovedTo
  <1> QED
    BY <1>2, <1>3, Zenon

-----------------------------------------------------------------------------
(* What is asked of an activation, as a comparison of levels. *)
LEMMA WantsLevel ==
    ASSUME TypeOK, NEW t \in Thread, stack[t] # <<>>
    PROVE  /\ Wants(t, "PREPARED") <=> Top(t).desired # "VERIFIED"
           /\ Wants(t, "INITIALIZED") <=> Top(t).desired = "INITIALIZED"
  <1>1. Level["VERIFIED"] = 0 /\ Level["PREPARED"] = 1 /\ Level["INITIALIZED"] = 2
    BY Zenon DEF Level
  <1> QED
    BY <1>1, TopTyped DEF Wants

(* The innermost activation is at one place. *)
LEMMA AtTop ==
    ASSUME NEW t, NEW l, At(t, l)
    PROVE  stack[t] # <<>> /\ Top(t).at = l
  BY Zenon DEF At

(* A class is known by state and thread. *)
LEMMA StatusFields ==
    ASSUME TypeOK, NEW c \in Class, NEW s, NEW t
    PROVE  /\ status[c] = [state |-> s, by |-> t] <=> MarkedBy(c, s, t)
           /\ status[c] = State(s) <=> MarkedBy(c, s, NoThread)
  BY DEF TypeOK, StatusType, MarkedBy, State

(* enterInitializationLock failing is a return that abandons the class. *)
LEMMA GiveUpLeaves ==
    ASSUME TypeOK, NEW t \in Thread, stack[t] # <<>>, GiveUp(t)
    PROVE  Leaves(t)
  <1>1. Returns(t)
    BY TailReturns, Zenon DEF GiveUp, Return
  <1>2. abandoned' = abandoned \cup {Top(t).class} /\ Top(t).class \in Class /\ abandoned \subseteq Class
    BY TopTyped, Zenon DEF GiveUp, TypeOK
  <1>3. \A c \in Class : c = Top(t).class => Settled(c)'
    BY <1>2, Zenon DEF Settled
  <1>4. UNCHANGED <<status, clinits, exc>> /\ t \in pop
    BY Zenon DEF GiveUp, Return
  <1> QED
    BY <1>1, <1>2, <1>3, <1>4, Zenon DEF Leaves

(* Each action is of one of the kinds. *)
LEMMA BeginKind ==
    ASSUME TypeOK, NEW t \in Thread, Begin(t)
    PROVE  Starts(t)
  <1>1. PICK c \in Asks[t], d \in {"PREPARED", "INITIALIZED"} : stack' = [stack EXCEPT ![t] = <<Frame(c, d)>>]
    BY Zenon DEF Begin
  <1>2. c \in Class
    BY ClassAssumption, Zenon
  <1>3. IsFrame(Frame(c, d), c, d, "check", <<>>) /\ Frame(c, d) \in FrameType
    BY <1>2 DEF Frame, FrameType, Labels, IsFrame
  <1>4. OthersKeep(t) /\ stack'[t] = <<Frame(c, d)>>
    BY <1>1, <1>3 DEF OthersKeep, TypeOK
  <1> QED
    BY <1>2, <1>3, <1>4 DEF Starts, Begin

(* Check sends an activation on to what its class needs next, or returns. *)
LEMMA CheckKind ==
    ASSUME TypeOK, StatusOK, NEW t \in Thread, Check(t)
    PROVE  GoesOn(t) \/ Leaves(t)
  <1>1. stack[t] # <<>> /\ Top(t).at = "check" /\ Top(t).class \in Class
        /\ Top(t).at \notin Verifying \cup Initializing
    BY AtTop, TopTyped DEF Check, Verifying, Initializing
  <1>2. UNCHANGED <<status, clinits, abandoned>>
    BY Zenon DEF Check
  <1>3. ASSUME NEW l \in {"inProgress", "markVerify"}, Goto(t, l), UNCHANGED <<exc, pop>>
        PROVE  GoesOn(t)
    <2>1. l \in Labels /\ Moves(t, l, Top(t).todo) /\ Top(t).todo \in Seq(Class)
      BY <1>1, <1>3, GotoMoves, TopTyped, Zenon DEF Labels
    <2> QED
      BY <1>1, <1>2, <1>3, <2>1, Zenon DEF GoesOn
  <1>4. ASSUME Wants(t, "PREPARED"), GotoWith(t, "prepare", ToPrepare(Top(t).class)), UNCHANGED <<exc, pop>>
        PROVE  GoesOn(t)
    <2>1. "prepare" \in Labels /\ ToPrepare(Top(t).class) \in Seq(Class)
      BY <1>1, SupertypesTyped, Zenon DEF Labels
    <2>2. Moves(t, "prepare", ToPrepare(Top(t).class)) /\ Top(t).desired # "VERIFIED"
      BY <1>1, <1>4, <2>1, GotoWithMoves, WantsLevel, Zenon
    <2> QED
      BY <1>1, <1>2, <1>4, <2>1, <2>2, Zenon DEF GoesOn
  <1>5. ASSUME Wants(t, "INITIALIZED"), Goto(t, "markInit"), UNCHANGED <<exc, pop>>
        PROVE  GoesOn(t)
    <2>1. "markInit" \in Labels /\ Moves(t, "markInit", Top(t).todo) /\ Top(t).todo \in Seq(Class)
      BY <1>1, <1>5, GotoMoves, TopTyped, Zenon DEF Labels
    <2>2. Top(t).desired = "INITIALIZED"
      BY <1>1, <1>5, WantsLevel, Zenon
    <2> QED
      BY <1>1, <1>2, <1>5, <2>1, <2>2, Zenon DEF GoesOn
  <1>6. ASSUME Return(t), status[Top(t).class].state = "Succeeded" \/ ~Wants(t, "INITIALIZED")
        PROVE  Leaves(t)
    <2>1. Returns(t) /\ UNCHANGED exc
      BY <1>1, <1>6, TailReturns, Zenon DEF Return
    <2>2. \A c \in Class : c = Top(t).class /\ Top(t).desired = "INITIALIZED" => Settled(c)'
      BY <1>1, <1>2, <1>6, WantsLevel, Zenon DEF Settled
    <2> QED
      BY <1>1, <1>2, <1>6, <2>1, <2>2, WantsLevel, Zenon DEF Leaves, TypeOK
  <1>7. ASSUME Throw(t)
        PROVE  Leaves(t)
    <2>1. Returns(t) /\ exc' = exc \cup {t}
      BY <1>1, <1>7, TailReturns, Zenon DEF Throw
    <2> QED
      BY <1>1, <1>2, <2>1, Zenon DEF Leaves, TypeOK
  <1>8. ~Wants(t, "PREPARED") => ~Wants(t, "INITIALIZED")
    BY <1>1, WantsLevel, Zenon
  <1> QED
    BY <1>3, <1>4, <1>5, <1>6, <1>7, <1>8, Zenon DEF Check

(* MarkVerifying marks the class for this thread, or looks again when the lock shows a change. *)
LEMMA MarkVerifyingKind ==
    ASSUME TypeOK, NEW t \in Thread, MarkVerifying(t)
    PROVE  Leaves(t) \/ GoesOn(t) \/ Marks(t)
  <1>1. stack[t] # <<>> /\ Top(t).at = "markVerify" /\ Top(t).class \in Class /\ Top(t).todo \in Seq(Class)
        /\ Top(t).at \notin Verifying \cup Initializing /\ "check" \in Labels /\ "verifySuper" \in Labels
    BY AtTop, TopTyped DEF MarkVerifying, Verifying, Initializing, Labels
  <1>2. CASE GiveUp(t)
    BY <1>1, <1>2, GiveUpLeaves, Zenon
  <1>3. CASE status[Top(t).class] # State("Unverified") /\ ~GiveUp(t)
    <2>1. Goto(t, "check") /\ UNCHANGED <<status, clinits, abandoned, exc>>
      BY <1>3, Zenon DEF MarkVerifying
    <2>2. Moves(t, "check", Top(t).todo)
      BY <1>1, <2>1, GotoMoves, Zenon
    <2> QED
      BY <1>1, <2>1, <2>2, Zenon DEF GoesOn
  <1>4. CASE status[Top(t).class] = State("Unverified") /\ ~GiveUp(t)
    <2>1. Goto(t, "verifySuper") /\ Mark(Top(t).class, t) /\ UNCHANGED <<clinits, abandoned, exc>>
      BY <1>4, Zenon DEF MarkVerifying
    <2>2. Moves(t, "verifySuper", Top(t).todo)
      BY <1>1, <2>1, GotoMoves, Zenon
    <2> QED
      BY <1>1, <1>4, <2>1, <2>2 DEF Marks, State
  <1> QED
    BY <1>2, <1>3, <1>4, Zenon

(* VerifySuperclass calls for the superclass, or goes on when there is none to verify. *)
LEMMA VerifySuperclassKind ==
    ASSUME TypeOK, ShapeOK, MarkOK, NEW t \in Thread, VerifySuperclass(t)
    PROVE  GoesOn(t) \/ CallsFor(t)
  <1>1. stack[t] # <<>> /\ Top(t).at = "verifySuper" /\ Top(t).class \in Class /\ Top(t).todo \in Seq(Class)
        /\ "verify" \in Labels /\ "verify" \in Verifying /\ "verifySuper" \in Verifying
    BY AtTop, TopTyped, Zenon DEF VerifySuperclass, Verifying, Labels
  <1>2. UNCHANGED <<status, clinits, abandoned, exc>>
    BY Zenon DEF VerifySuperclass
  <1>3. CASE Super[Top(t).class] = NoClass
    <2>1. Moves(t, "verify", Top(t).todo)
      BY <1>1, <1>3, GotoMoves, Zenon DEF VerifySuperclass
    <2>2. MarkedBy(Top(t).class, "Unverified", t)
      BY <1>1, TopTyped DEF MarkOK, MarkAt, Top
    <2> QED
      BY <1>1, <1>2, <2>1, <2>2, Zenon DEF GoesOn
  <1>4. CASE Super[Top(t).class] # NoClass
    <2> DEFINE g == [Top(t) EXCEPT !.at = "verify"]
    <2>1. Super[Top(t).class] \in Class
      BY <1>1, <1>4, ClassAssumption, Zenon
    <2>2. IsFrame(g, Top(t).class, Top(t).desired, "verify", Top(t).todo)
      BY <1>1, TopTyped, FrameFields, Zenon
    <2>3. stack' = [stack EXCEPT ![t] = <<Frame(Super[Top(t).class], "VERIFIED")>> \o [stack[t] EXCEPT ![1] = g]]
      BY <1>4, TopTyped, Zenon DEF VerifySuperclass, Call, Top, TypeOK
    <2> HIDE DEF g
    <2>4. Calls(t, Super[Top(t).class], "VERIFIED", "verify", Top(t).todo)
      BY <1>1, <2>1, <2>2, <2>3, PushCalls, Zenon
    <2> QED
      BY <1>1, <1>2, <2>1, <2>4, Zenon DEF CallsFor
  <1> QED
    BY <1>3, <1>4, Zenon

(* VerifyFailed finishes: the class becomes unverified again, and the thread throws. *)
LEMMA VerifyFailedKind ==
    ASSUME TypeOK, NEW t \in Thread, VerifyFailed(t)
    PROVE  Finishes(t)
  <1>1. stack[t] # <<>> /\ Top(t).at = "verify"
    BY AtTop, Zenon DEF VerifyFailed
  <1>2. Returns(t) /\ exc' = exc \cup {t}
    BY <1>1, TailReturns, Zenon DEF VerifyFailed, Throw
  <1> QED
    BY <1>1, <1>2, Zenon DEF Finishes, VerifyFailed, setInitStatus

(* performVerification goes on under the mark. *)
LEMMA performVerificationKind ==
    ASSUME TypeOK, MarkOK, NEW t \in Thread, performVerification(t)
    PROVE  GoesOn(t)
  <1>1. stack[t] # <<>> /\ Top(t).at = "verify" /\ Top(t).todo \in Seq(Class)
        /\ "verified" \in Labels /\ "verify" \in Verifying /\ "verified" \in Verifying
    BY AtTop, TopTyped, Zenon DEF performVerification, Verifying, Labels
  <1>2. Moves(t, "verified", Top(t).todo)
    BY <1>1, GotoMoves, Zenon DEF performVerification
  <1>3. MarkedBy(Top(t).class, "Unverified", t)
    BY <1>1, TopTyped DEF MarkOK, MarkAt, Top
  <1> QED
    BY <1>1, <1>2, <1>3, Zenon DEF GoesOn, performVerification

(* Verified makes the class unprepared, the next state, with no thread. *)
LEMMA VerifiedKind ==
    ASSUME TypeOK, MarkOK, NEW t \in Thread, Verified(t)
    PROVE  Leaves(t) \/ Advances(t)
  <1>1. stack[t] # <<>> /\ Top(t).at = "verified" /\ Top(t).class \in Class /\ Top(t).todo \in Seq(Class)
        /\ Top(t).at \in Verifying /\ "check" \in Labels
    BY AtTop, TopTyped, Zenon DEF Verified, Verifying, Labels
  <1>2. CASE GiveUp(t)
    BY <1>1, <1>2, GiveUpLeaves, Zenon
  <1>3. CASE ~GiveUp(t)
    <2>1. MarkedBy(Top(t).class, "Unverified", t)
      BY <1>1, TopTyped DEF MarkOK, MarkAt, Top
    <2>2. status[Top(t).class] = [state |-> "Unverified", by |-> t]
      BY <1>1, <2>1, StatusFields
    <2>3. Goto(t, "check") /\ UNCHANGED <<clinits, abandoned, exc>>
          /\ status' = [status EXCEPT ![Top(t).class] = State("Unprepared")]
      BY <1>3, <2>2, Zenon DEF Verified, setInitStatus
    <2>4. Moves(t, "check", Top(t).todo)
      BY <1>1, <2>3, GotoMoves, Zenon
    <2> QED
      BY <1>1, <2>1, <2>3, <2>4, Zenon DEF Advances
  <1> QED
    BY <1>2, <1>3, Zenon

(* PrepareParent calls for the next supertype. *)
LEMMA PrepareParentKind ==
    ASSUME TypeOK, NEW t \in Thread, PrepareParent(t)
    PROVE  CallsFor(t)
  <1>1. stack[t] # <<>> /\ Top(t).at = "prepare" /\ Top(t).todo # <<>>
    BY AtTop, Zenon DEF PrepareParent
  <1>2. Head(Top(t).todo) \in Class /\ Tail(Top(t).todo) \in Seq(Class)
        /\ Calls(t, Head(Top(t).todo), "PREPARED", "prepare", Tail(Top(t).todo))
    BY <1>1, CallNextCalls, Zenon DEF PrepareParent
  <1> QED
    BY <1>1, <1>2, Zenon DEF CallsFor, PrepareParent

(* PrepareFailed returns with the exception. *)
LEMMA PrepareFailedKind ==
    ASSUME TypeOK, NEW t \in Thread, PrepareFailed(t)
    PROVE  Leaves(t)
  <1>1. stack[t] # <<>> /\ Top(t).at \notin Verifying \cup Initializing
    BY AtTop DEF PrepareFailed, Verifying, Initializing
  <1>2. Returns(t) /\ exc' = exc \cup {t}
    BY <1>1, TailReturns, Zenon DEF PrepareFailed, Throw
  <1> QED
    BY <1>1, <1>2, Zenon DEF Leaves, PrepareFailed, TypeOK

(* Prepared makes the class not initialized, the next state, unless another thread has. *)
LEMMA PreparedKind ==
    ASSUME TypeOK, NEW t \in Thread, Prepared(t)
    PROVE  Leaves(t) \/ Advances(t) \/ GoesOn(t)
  <1>1. stack[t] # <<>> /\ Top(t).at = "prepare" /\ Top(t).class \in Class /\ Top(t).todo \in Seq(Class)
        /\ Top(t).at \notin Verifying \cup Initializing /\ "check" \in Labels
    BY AtTop, TopTyped DEF Prepared, Verifying, Initializing, Labels
  <1>2. CASE GiveUp(t)
    BY <1>1, <1>2, GiveUpLeaves, Zenon
  <1>3. CASE ~GiveUp(t)
    <2>1. Goto(t, "check") /\ UNCHANGED <<clinits, abandoned, exc>>
      BY <1>3, Zenon DEF Prepared
    <2>2. Moves(t, "check", Top(t).todo)
      BY <1>1, <2>1, GotoMoves, Zenon
    <2>3. CASE status[Top(t).class] = State("Unprepared")
      <3>1. status' = [status EXCEPT ![Top(t).class] = State("NotInitialized")]
        BY <1>3, <2>3, Zenon DEF Prepared, setInitStatus
      <3>2. MarkedBy(Top(t).class, "Unprepared", NoThread)
        BY <1>1, <2>3, StatusFields, Zenon
      <3> QED
        BY <1>1, <2>1, <2>2, <3>1, <3>2, Zenon DEF Advances
    <2>4. CASE status[Top(t).class] # State("Unprepared")
      <3>1. UNCHANGED status
        BY <1>3, <2>4, Zenon DEF Prepared
      <3> QED
        BY <1>1, <2>1, <2>2, <3>1, Zenon DEF GoesOn
    <2> QED
      BY <2>3, <2>4, Zenon
  <1> QED
    BY <1>2, <1>3, Zenon

(* MarkInitializing marks the class for this thread, or looks again when the lock shows a change. *)
LEMMA MarkInitializingKind ==
    ASSUME TypeOK, ShapeOK, NEW t \in Thread, MarkInitializing(t)
    PROVE  Leaves(t) \/ GoesOn(t) \/ Marks(t)
  <1>1. stack[t] # <<>> /\ Top(t).at = "markInit" /\ Top(t).class \in Class /\ Top(t).todo \in Seq(Class)
        /\ Top(t).at \notin Verifying \cup Initializing /\ "check" \in Labels /\ "initialize" \in Labels
    BY AtTop, TopTyped DEF MarkInitializing, Verifying, Initializing, Labels
  <1>2. CASE GiveUp(t)
    BY <1>1, <1>2, GiveUpLeaves, Zenon
  <1>3. CASE status[Top(t).class] # State("NotInitialized") /\ ~GiveUp(t)
    <2>1. Goto(t, "check") /\ UNCHANGED <<status, clinits, abandoned, exc>>
      BY <1>3, Zenon DEF MarkInitializing
    <2>2. Moves(t, "check", Top(t).todo)
      BY <1>1, <2>1, GotoMoves, Zenon
    <2> QED
      BY <1>1, <2>1, <2>2, Zenon DEF GoesOn
  <1>4. CASE status[Top(t).class] = State("NotInitialized") /\ ~GiveUp(t)
    <2>1. GotoWith(t, "initialize", ToInitialize(Top(t).class)) /\ Mark(Top(t).class, t)
          /\ UNCHANGED <<clinits, abandoned, exc>>
      BY <1>4, Zenon DEF MarkInitializing
    <2>2. Moves(t, "initialize", ToInitialize(Top(t).class))
      BY <1>1, <2>1, GotoWithMoves, SupertypesTyped, Zenon
    <2>3. Top(t).desired = "INITIALIZED"
      BY <1>1, TopTyped DEF ShapeOK, ShapeAt, Top
    <2> QED
      BY <1>1, <1>4, <2>1, <2>2, <2>3 DEF Marks, State
  <1> QED
    BY <1>2, <1>3, <1>4, Zenon

(* InitializeParent calls for the next supertype, or passes over an interface left alone. *)
LEMMA InitializeParentKind ==
    ASSUME TypeOK, NEW t \in Thread, InitializeParent(t)
    PROVE  CallsFor(t) \/ PassesOver(t)
  <1>1. stack[t] # <<>> /\ Top(t).at = "initialize" /\ Top(t).todo \in Seq(Class) /\ "initialize" \in Labels
        /\ Top(t).todo # <<>> /\ t \notin exc /\ UNCHANGED <<status, clinits, abandoned, exc>>
    BY AtTop, TopTyped, Zenon DEF InitializeParent, Labels
  <1>2. Head(Top(t).todo) \in Class /\ Tail(Top(t).todo) \in Seq(Class)
    BY <1>1
  <1>3. CASE LeftAlone(Head(Top(t).todo))
    <2>1. Moves(t, "initialize", Tail(Top(t).todo))
      BY <1>1, <1>2, <1>3, GotoWithMoves, Zenon DEF InitializeParent
    <2> QED
      BY <1>1, <1>3, <2>1, Zenon DEF PassesOver
  <1>4. CASE ~LeftAlone(Head(Top(t).todo))
    <2>1. Calls(t, Head(Top(t).todo), "INITIALIZED", "initialize", Tail(Top(t).todo))
      BY <1>1, <1>4, CallNextCalls, Zenon DEF InitializeParent
    <2> QED
      BY <1>1, <1>2, <2>1, Zenon DEF CallsFor
  <1> QED
    BY <1>3, <1>4, Zenon

(* initializeImpl runs <clinit> of the class. *)
LEMMA initializeImplKind ==
    ASSUME TypeOK, NEW t \in Thread, initializeImpl(t)
    PROVE  RunsClinit(t)
  <1>1. stack[t] # <<>> /\ Top(t).at = "initialize" /\ "clinit" \in Labels
    BY AtTop, Zenon DEF initializeImpl, Labels
  <1>2. Moves(t, "clinit", Top(t).todo)
    BY <1>1, GotoMoves, Zenon DEF initializeImpl
  <1> QED
    BY <1>1, <1>2, Zenon DEF RunsClinit, initializeImpl

(* A use within <clinit> calls for another class. *)
LEMMA UseKind ==
    ASSUME TypeOK, NEW t \in Thread, Use(t)
    PROVE  CallsFor(t)
  <1>1. stack[t] # <<>> /\ Top(t).at = "clinit" /\ Top(t).class \in Class /\ Top(t).todo \in Seq(Class)
        /\ "clinit" \in Labels /\ UNCHANGED <<status, clinits, abandoned, exc>>
    BY AtTop, TopTyped, Zenon DEF Use, Labels
  <1>2. PICK c \in Uses[Top(t).class] : Call(t, c, "INITIALIZED", "clinit")
    BY Zenon DEF Use
  <1>3. c \in Class
    BY <1>1, ClassAssumption, Zenon
  <1> DEFINE g == [Top(t) EXCEPT !.at = "clinit"]
  <1>4. IsFrame(g, Top(t).class, Top(t).desired, "clinit", Top(t).todo)
    BY <1>1, TopTyped, FrameFields, Zenon
  <1>5. stack' = [stack EXCEPT ![t] = <<Frame(c, "INITIALIZED")>> \o [stack[t] EXCEPT ![1] = g]]
    BY <1>2, TopTyped, Zenon DEF Call, Top, TypeOK
  <1> HIDE DEF g
  <1>6. Calls(t, c, "INITIALIZED", "clinit", Top(t).todo)
    BY <1>1, <1>3, <1>4, <1>5, PushCalls, Zenon
  <1> QED
    BY <1>1, <1>3, <1>6, Zenon DEF CallsFor

(* InitFailed finishes with the class marked as failed. *)
LEMMA InitFailedKind ==
    ASSUME TypeOK, NEW t \in Thread, InitFailed(t)
    PROVE  Finishes(t)
  <1>1. stack[t] # <<>> /\ Top(t).at \in Initializing
    BY AtTop, Zenon DEF InitFailed, Initializing
  <1>2. Returns(t) /\ exc' = exc \cup {t}
    BY <1>1, TailReturns, Zenon DEF InitFailed, Throw
  <1> QED
    BY <1>1, <1>2, Zenon DEF Finishes, InitFailed, setInitStatus

(* Initialized finishes with the class marked as succeeded. *)
LEMMA InitializedKind ==
    ASSUME TypeOK, NEW t \in Thread, Initialized(t)
    PROVE  Finishes(t)
  <1>1. stack[t] # <<>> /\ Top(t).at = "clinit"
    BY AtTop, Zenon DEF Initialized
  <1>2. Returns(t)
    BY <1>1, TailReturns, Zenon DEF Initialized
  <1> QED
    BY <1>1, <1>2, Zenon DEF Finishes, Initialized, setInitStatus

(* InProgress returns to a thread that initializes the class itself, and otherwise waits or looks again. *)
LEMMA InProgressKind ==
    ASSUME TypeOK, StatusOK, NEW t \in Thread, InProgress(t)
    PROVE  Leaves(t) \/ GoesOn(t)
  <1>1. stack[t] # <<>> /\ Top(t).at = "inProgress" /\ Top(t).class \in Class /\ Top(t).todo \in Seq(Class)
        /\ Top(t).at \notin Verifying \cup Initializing
        /\ {"check", "verifySuper", "wait"} \subseteq Labels /\ "verifySuper" \in Verifying
    BY AtTop, TopTyped DEF InProgress, Verifying, Initializing, Labels
  <1>2. CASE GiveUp(t)
    BY <1>1, <1>2, GiveUpLeaves, Zenon
  <1>3. CASE ~GiveUp(t)
    <2> DEFINE s == status[Top(t).class]
    <2>1. UNCHANGED <<status, clinits, abandoned>>
      BY <1>3, Zenon DEF InProgress
    <2>2. ASSUME NEW l \in {"check", "wait"}, Goto(t, l), UNCHANGED exc
          PROVE  GoesOn(t)
      <3>1. l \in Labels /\ Moves(t, l, Top(t).todo)
        BY <1>1, <2>2, GotoMoves, Zenon
      <3> QED
        BY <1>1, <2>1, <2>2, <3>1, Zenon DEF GoesOn
    <2>3. ASSUME s.state = "Unverified", s.by = t, Goto(t, "verifySuper"), UNCHANGED exc
          PROVE  GoesOn(t)
      <3>1. "verifySuper" \in Labels /\ Moves(t, "verifySuper", Top(t).todo)
        BY <1>1, <2>3, GotoMoves, Zenon
      <3> QED
        BY <1>1, <2>1, <2>3, <3>1, Zenon DEF GoesOn, MarkedBy
    <2>4. ASSUME s.by # NoThread, s.state # "Unverified", ~Wants(t, "INITIALIZED") \/ s.by = t, Return(t)
          PROVE  Leaves(t)
      <3>1. Returns(t) /\ UNCHANGED exc
        BY <1>1, <2>4, TailReturns, Zenon DEF Return
      <3>2. s.state = "NotInitialized"
        BY <1>1, <2>4, Zenon DEF StatusOK
      <3>3. \A c \in Class : c = Top(t).class => Settled(c)'
        BY <2>1, <2>4, <3>2, Zenon DEF Settled
      <3> QED
        BY <1>1, <2>1, <2>4, <3>1, <3>3, WantsLevel, Zenon DEF Leaves, TypeOK
    <2> QED
      BY <1>3, <2>2, <2>3, <2>4, Zenon DEF InProgress
  <1> QED
    BY <1>2, <1>3, Zenon

(* WaitEnds looks again, or gives up when a frame is to be popped. *)
LEMMA WaitEndsKind ==
    ASSUME TypeOK, NEW t \in Thread, WaitEnds(t)
    PROVE  Leaves(t) \/ GoesOn(t)
  <1>1. stack[t] # <<>> /\ Top(t).at = "wait" /\ Top(t).todo \in Seq(Class)
        /\ Top(t).at \notin Verifying \cup Initializing /\ "check" \in Labels
    BY AtTop, TopTyped DEF WaitEnds, Verifying, Initializing, Labels
  <1>2. CASE GiveUp(t)
    BY <1>1, <1>2, GiveUpLeaves, Zenon
  <1>3. CASE ~GiveUp(t)
    <2>1. Goto(t, "check") /\ UNCHANGED <<status, clinits, abandoned, exc>>
      BY <1>3, Zenon DEF WaitEnds
    <2>2. Moves(t, "check", Top(t).todo)
      BY <1>1, <2>1, GotoMoves, Zenon
    <2> QED
      BY <1>1, <2>1, <2>2, Zenon DEF GoesOn
  <1> QED
    BY <1>2, <1>3, Zenon


(* Every step is of one of the kinds. *)
LEMMA EveryKind ==
    ASSUME TypeOK, StatusOK, ShapeOK, MarkOK, [Next]_vars
    PROVE  \/ \E t \in Thread : Kinds(t)
           \/ UNCHANGED <<status, stack, exc, clinits, abandoned>>
  <1>1. CASE UNCHANGED vars
    BY <1>1, Zenon DEF vars
  <1>2. ASSUME NEW t \in Thread, Begin(t) \/ Use(t)
        PROVE  Kinds(t)
    BY <1>2, BeginKind, UseKind, Zenon DEF Kinds
  <1>3. ASSUME NEW t \in Thread, PopFrame(t)
        PROVE  UNCHANGED <<status, stack, exc, clinits, abandoned>>
    BY <1>3, Zenon DEF PopFrame
  <1>4. ASSUME NEW t \in Thread, Work(t)
        PROVE  Kinds(t)
    BY <1>4, CheckKind, MarkVerifyingKind, VerifySuperclassKind, VerifyFailedKind, performVerificationKind,
       VerifiedKind, PrepareParentKind, PrepareFailedKind, PreparedKind, MarkInitializingKind,
       InitializeParentKind, initializeImplKind, InitFailedKind, InitializedKind, InProgressKind, WaitEndsKind, Zenon
       DEF Work, Kinds
  <1> QED
    BY <1>1, <1>2, <1>3, <1>4, Zenon DEF Next

-----------------------------------------------------------------------------
(* No class is loaded into any thread's stack at first: the invariant holds. *)
LEMMA InitInv == Init => IInv
  <1> SUFFICES ASSUME Init
               PROVE  IInv
    OBVIOUS
  <1>1. \A c \in Class : status[c] = State("Unverified") /\ status[c].state = "Unverified" /\ status[c].by = NoThread
                         /\ clinits[c] = 0
    BY Zenon DEF Init, State
  <1>2. \A t \in Thread : DOMAIN stack[t] = {}
    <2>1. \A t \in Thread : stack[t] = <<>>
      BY Zenon DEF Init
    <2>2. DOMAIN <<>> = {}
      OBVIOUS
    <2> QED
      BY <2>1, <2>2, Zenon
  <1>3. TypeOK
    BY DEF Init, TypeOK, State, StatusType
  <1>4. StatusOK
    BY <1>1 DEF StatusOK
  <1>5. ShapeOK /\ VerifyOK /\ MarkOK /\ OnceOK /\ ParentOK
    BY <1>2, Zenon DEF ShapeOK, VerifyOK, MarkOK, OnceOK, ParentOK
  <1>6. SupertypesInitializedFirst
    BY <1>1, Zenon DEF SupertypesInitializedFirst
  <1>7. InProgressHasThread
    BY <1>1, Zenon DEF InProgressHasThread
  <1> QED
    BY <1>3, <1>4, <1>5, <1>6, <1>7, Zenon DEF IInv

(* No step of classInitStateMachine, of Java code or of a debugger breaks it. *)
LEMMA StepInv == IInv /\ [Next]_vars => IInv'
  <1> SUFFICES ASSUME IInv, [Next]_vars
               PROVE  IInv'
    OBVIOUS
  <1>1. CASE UNCHANGED <<status, stack, exc, clinits, abandoned>>
    <2>0. status' = status /\ stack' = stack /\ exc' = exc /\ clinits' = clinits /\ abandoned' = abandoned
      BY <1>1, Zenon
    <2>1. TypeOK' /\ StatusOK'
      BY <1>1, Zenon DEF IInv, TypeOK, StatusOK
    <2>2. ShapeOK' /\ VerifyOK'
      BY <2>0, Zenon DEF IInv, ShapeOK, ShapeAt, VerifyOK, VerifyAt
    <2>3. MarkOK' /\ OnceOK'
      BY <2>0 DEF IInv, MarkOK, MarkAt, MarkedBy, OnceOK, OnceAt
    <2>5. ParentOK'
      <3> SUFFICES ASSUME NEW u \in Thread, NEW i \in DOMAIN stack'[u], NEW p \in Parents(stack'[u][i].class)
                   PROVE  ParentAt(u, i, p)'
        BY Zenon DEF ParentOK
      <3>1. ParentAt(u, i, p)
        BY <2>0, Zenon DEF IInv, ParentOK
      <3> QED
        BY <2>0, <3>1, Zenon DEF ParentAt, Settled
    <2>4. SupertypesInitializedFirst' /\ InProgressHasThread'
      BY <2>0, Zenon DEF IInv, SupertypesInitializedFirst, InProgressHasThread
    <2> QED
      BY <2>1, <2>2, <2>3, <2>4, <2>5, Zenon DEF IInv
  <1>2. ASSUME NEW t \in Thread, Kinds(t)
        PROVE  IInv'
    <2>1. TypeOK' /\ StatusOK' /\ ShapeOK' /\ VerifyOK'
      BY <1>2, TypeStep, StatusStep, ShapeStep, VerifyStep, Zenon DEF IInv
    <2>2. MarkOK' /\ OnceOK' /\ ParentOK'
      BY <1>2, MarkStep, OnceStep, ParentStep, Zenon DEF IInv
    <2>3. SupertypesInitializedFirst' /\ InProgressHasThread'
      BY <1>2, SupertypesStep, InProgressStep, Zenon DEF IInv
    <2> QED
      BY <2>1, <2>2, <2>3, Zenon DEF IInv
  <1> QED
    BY <1>1, <1>2, EveryKind, Zenon DEF IInv

(* The invariant always holds. *)
LEMMA Invariant == Spec => []IInv
  BY InitInv, StepInv, PTL DEF Spec

(* <clinit> of a class is run at most once, whatever threads race for it, fail, wait, or are
   told to pop their frames. *)
THEOREM ClinitOnce == Spec => []ClinitRunsOnce
  <1>1. IInv => ClinitRunsOnce
    BY Zenon DEF IInv, StatusOK, ClinitRunsOnce
  <1> QED
    BY <1>1, Invariant, PTL

(* A class is initialized when its superclass and its interfaces with defaults have been
   dealt with. *)
THEOREM SupertypesFirst == Spec => []SupertypesInitializedFirst
  <1>1. IInv => SupertypesInitializedFirst
    BY Zenon DEF IInv
  <1> QED
    BY <1>1, Invariant, PTL

(* Whoever waits for a class waits for a thread that is at work on it. *)
THEOREM MarkedHasThread == Spec => []InProgressHasThread
  <1>1. IInv => InProgressHasThread
    BY Zenon DEF IInv
  <1> QED
    BY <1>1, Invariant, PTL

(* What an activation asked to initialize a class has done when it returns. *)
LEMMA ReturnStep == IInv /\ [Next]_vars => \A t \in Thread : ReturnsWhenInitialized(t)
  <1> SUFFICES ASSUME IInv, [Next]_vars, NEW u \in Thread, stack[u] # <<>>, stack'[u] = Tail(stack[u]),
                      Top(u).desired = "INITIALIZED", u \notin exc' \cup pop
               PROVE  status'[Top(u).class].state = "Succeeded" \/ status'[Top(u).class].by = u
    BY Zenon DEF ReturnsWhenInitialized
  <1>1. Len(stack[u]) \in Nat /\ Len(stack[u]) >= 1 /\ Len(stack'[u]) = Len(stack[u]) - 1 /\ Top(u).class \in Class
    BY TopTyped DEF IInv
  <1>2. Len(stack'[u]) # Len(stack[u]) /\ Len(stack'[u]) # Len(stack[u]) + 1
    BY <1>1
  <1>3. stack' # stack /\ stack'[u] # stack[u]
    BY <1>2, Zenon
  <1>4. ~UNCHANGED <<status, stack, exc, clinits, abandoned>>
    BY <1>3, Zenon
  <1>5. PICK t \in Thread : Kinds(t)
    BY <1>4, EveryKind, Zenon DEF IInv
  <1>6. u = t
    BY <1>3, <1>5, StackKind, Lengths, Zenon DEF IInv
  <1>7. (\A l, ps : ~Moves(u, l, ps)) /\ (\A c, d, l, ps : ~Calls(u, c, d, l, ps))
    BY <1>2, Zenon DEF Moves, Calls
  <1>8. Leaves(u) \/ Finishes(u)
    BY <1>5, <1>6, <1>7, Zenon DEF Kinds, Starts, GoesOn, Marks, Advances, CallsFor, RunsClinit, PassesOver
  <1>9. CASE Leaves(u)
    BY <1>9, Zenon DEF Leaves
  <1>10. CASE Finishes(u)
    <2>1. NewStatus(u, "Succeeded", NoThread)
      BY <1>10, SetBy, Zenon DEF IInv
    <2> QED
      BY <1>1, <2>1, Zenon DEF NewStatus
  <1> QED
    BY <1>8, <1>9, <1>10, Zenon

(* initializeClass returns, unless it throws or a frame is to be popped, when the class is
   initialized or is being initialized by this very thread. *)
THEOREM ReturnIsInitialized == Spec => ReturnsInitialized
  BY Invariant, ReturnStep, PTL DEF Spec, ReturnsInitialized
=============================================================================
