-------------------------- MODULE LogConfigProofs --------------------------
(***************************************************************************)
(* Reloading the loggers and telling the listeners of a variable, for any  *)
(* documents, names, logging threads, listener keys and values.            *)
(***************************************************************************)
EXTENDS LogConfig, WellFoundedInduction, TLAPS

Confs == [name : Names, level : 0 .. 5, appenders : Seq(Types)]
Objects == [name : Names, max : 0 .. 5, appenders : Seq(Types)]
Nodes == UNION {{doc[i] : i \in DOMAIN doc} : doc \in Docs}

ThreadStates == [pc : {"idle", "wrapper", "name", "log"}, via : Vias, level : 1 .. 5,
                 obj : Nat, calm : BOOLEAN,
                 out : {"none", "thrown", "filtered", "lost", "written", "dropped"}]

\* The object is what the listener makes of a LoggerConf when it has come to apps:
\* exactly these appenders, or more in a logger that an earlier reload left behind.
Made(obj, c, apps) ==
    /\ obj.name = c.name /\ obj.max = c.level
    /\ c.name \notin strays => obj.appenders = apps
    /\ apps # <<>> => obj.appenders # <<>>

-----------------------------------------------------------------------------
(* The inductive invariant.                                                *)

Types1 ==
    /\ heap \in Seq(Objects)
    /\ loggers \in [Names -> 0 .. Len(heap)]
    /\ root \in 1 .. Len(heap)
    /\ threads \in [Threads -> ThreadStates]

Types2 ==
    /\ LogSet(logs)
    /\ list \in Seq(Nodes)
    /\ strays \in SUBSET Names

\* The listener is at an element that is there.
AtOK ==
    /\ LogSet(at.new)
    /\ at = Position(at.pc, at.i, at.j, at.new)
    /\ at.i \in Nat /\ at.j \in Nat
    /\ at.pc \in {"idle", "del", "new", "level", "appender", "root", "store"}
    /\ at.pc = "del" => at.i \in 1 .. Len(logs)
    /\ at.pc \in {"new", "level", "appender", "root"} => at.i \in 1 .. Len(at.new)
    /\ at.pc = "appender" => at.j \in 1 .. Len(at.new[at.i].appenders)
    /\ at.pc \in {"level", "appender", "root"} => lg \in 1 .. Len(heap)
    /\ at.pc = "root" => at.new[at.i].name = "root"

\* The map has the strays and the names of s[lo .. hi], and no other.
Present(s, lo, hi) ==
    \A n \in Names : loggers[n] # 0 <=> n \in strays \/ \E k \in lo .. hi : s[k].name = n

OnlyStrays == \A n \in Names : loggers[n] # 0 <=> n \in strays

\* The first n of s have been built.
Built(s, n) ==
    \A k \in 1 .. n : Made(heap[loggers[s[k].name]], s[k], Used(s[k].appenders))

Named == \A n \in Names : loggers[n] # 0 => heap[loggers[n]].name = n

\* What is there at each position of the listener.
Progress ==
    /\ at.pc \in {"idle", "del"} /\ torn => OnlyStrays
    /\ at.pc \in {"idle", "del"} /\ ~torn =>
         Present(logs, IF at.pc = "del" THEN at.i ELSE 1, Len(logs))
    /\ (at.pc = "idle" \/ (at.pc = "del" /\ at.i = 1)) /\ ~torn => Built(logs, Len(logs))
    /\ at.pc \in {"new", "level", "appender", "root"} => Built(at.new, at.i - 1)
    /\ at.pc = "new" => Present(at.new, 1, at.i - 1)
    /\ at.pc \in {"level", "appender", "root"} =>
         Present(at.new, 1, at.i) /\ lg = loggers[at.new[at.i].name]
    /\ at.pc = "level" /\ at.new[at.i].name \notin strays => heap[lg].appenders = <<>>
    /\ at.pc = "appender" =>
         Made(heap[lg], at.new[at.i], Kept(at.new[at.i].appenders, UsedTypes)[at.j - 1])
    /\ at.pc = "root" => Made(heap[lg], at.new[at.i], Used(at.new[at.i].appenders))
    /\ at.pc = "store" =>
         Present(at.new, 1, Len(at.new)) /\ Built(at.new, Len(at.new))

\* No listener step has been taken since the configuration was idle.
Undisturbed == at.pc = "idle" \/ (at.pc = "del" /\ at.i = 1) \/ logs = <<>>

\* A thread that has not been disturbed logs to the configured logger.
CalmOK(x) ==
    x.calm =>
      /\ Undisturbed
      /\ ~torn => \A i \in 1 .. Len(logs) : x.via = logs[i].name =>
           /\ x.pc \in {"name", "log"} => x.obj = loggers[logs[i].name]
           /\ x.out # "thrown"
           /\ x.out = "lost" => Used(logs[i].appenders) = <<>>

CalmInv == \A t \in Threads : CalmOK(threads[t])

\* The object that a thread has got hold of is there still.
HasObj(x) == x.pc \in {"name", "log"} => x.obj \in 1 .. Len(heap)
ObjInv == \A t \in Threads : HasObj(threads[t])

LInv == Types1 /\ Types2 /\ AtOK /\ Named /\ Progress /\ CalmInv /\ ObjInv

\* A root that a document configures has an appender that is used.
RootsUsed ==
    \A n \in Nodes : n.key = "logs" =>
      \A i \in 1 .. Len(n.val) : n.val[i].name = "root" => Used(n.val[i].appenders) # <<>>

Speaks(x) == heap[x].appenders # <<>>

\* A message through SYLAR_LOG_ROOT has a logger with an appender.
RootOK(x) ==
    x.via = "GetRoot" =>
      /\ x.pc \in {"name", "log"} => Speaks(x.obj)
      /\ x.out \notin {"lost", "thrown"}

RInv ==
    /\ Speaks(root)
    /\ \A i \in 1 .. Len(at.new) :
         at.new[i].name = "root" => Used(at.new[i].appenders) # <<>>
    /\ \A t \in Threads : RootOK(threads[t])

\* A variable: those who do not observe have been told nothing.
IsVar(c) ==
    /\ c = [type |-> c.type, value |-> c.value, listeners |-> c.listeners,
            told |-> c.told, crossed |-> c.crossed]
    /\ c.listeners \in [Keys -> AllKinds \cup {None}]
    /\ c.told = [k \in Keys |-> c.told[k]]
    /\ \A k \in Keys : c.listeners[k] # "observe" => c.told[k] = None

\* The invariant of a variable; ObserversAgree is its last part.
VarOK(c) ==
    /\ IsVar(c)
    /\ c.type = "none" => \A k \in Keys : c.told[k] = None
    /\ c.crossed \/ \A k \in Keys : c.told[k] \in {None, c.value}

-----------------------------------------------------------------------------
(* The operators.                                                          *)

\* A set of natural numbers that is not empty has a least element.
LEMMA Least ==
    ASSUME NEW S \in SUBSET Nat, S # {}
    PROVE  \E m \in S : \A n \in S : m <= n
<1>1. PICK m \in S : \A n \in S : ~(<<n, m>> \in OpToRel(<, Nat))
  BY NatLessThanWellFounded, WFMin
<1>2. OpToRel(<, Nat) = {ss \in Nat \X Nat : ss[1] < ss[2]}
  BY DEF OpToRel
<1>3. \A a, b \in Nat : ~(<<a, b>> \in {ss \in Nat \X Nat : ss[1] < ss[2]}) => b <= a
  OBVIOUS
<1> QED
  BY <1>1, <1>2, <1>3

IsKept(f, s, S, l) ==
    f = [n \in 0 .. l |->
           IF n = 0 THEN <<>>
           ELSE IF s[n] \in S THEN Append(f[n - 1], s[n]) ELSE f[n - 1]]

\* The recursive function in Kept exists.
LEMMA KeptExists ==
    ASSUME NEW s, NEW S, NEW l \in Nat
    PROVE  \E f : IsKept(f, s, S, l)
<1> DEFINE Ex(m) == \E f : IsKept(f, s, S, m)
           Bad == {m \in Nat : ~Ex(m)}
<1>1. Ex(0)
  <2>1. [n \in 0 .. 0 |-> <<>>] = [n \in 0 .. 0 |->
              IF n = 0 THEN <<>>
              ELSE IF s[n] \in S THEN Append([i \in 0 .. 0 |-> <<>>][n - 1], s[n])
                   ELSE [i \in 0 .. 0 |-> <<>>][n - 1]]
    OBVIOUS
  <2> QED
    BY <2>1 DEF IsKept
<1>2. ASSUME NEW m \in Nat, m # 0, Ex(m - 1) PROVE Ex(m)
  <2>1. PICK f : f = [n \in 0 .. (m - 1) |->
              IF n = 0 THEN <<>>
              ELSE IF s[n] \in S THEN Append(f[n - 1], s[n]) ELSE f[n - 1]]
    BY <1>2 DEF IsKept
  <2> DEFINE last == IF s[m] \in S THEN Append(f[m - 1], s[m]) ELSE f[m - 1]
             g == [n \in 0 .. m |-> IF n = m THEN last ELSE f[n]]
  <2>2. ASSUME NEW n \in 0 .. m
        PROVE  g[n] = IF n = 0 THEN <<>>
                      ELSE IF s[n] \in S THEN Append(g[n - 1], s[n]) ELSE g[n - 1]
    <3>1. CASE n = m
      <4>1. n - 1 \in 0 .. m /\ n - 1 # m /\ n \in 0 .. m /\ n # 0
        BY <1>2, <3>1
      <4>2. g[n - 1] = f[m - 1] /\ g[n] = last
        BY <4>1, <3>1
      <4> QED
        BY <4>1, <4>2, <3>1
    <3>2. CASE n # m /\ n # 0
      <4>1. n \in 0 .. (m - 1) /\ n - 1 \in 0 .. m /\ n - 1 # m
        BY <1>2, <3>2
      <4>2. g[n] = f[n] /\ g[n - 1] = f[n - 1]
        BY <4>1, <3>2
      <4>3. f[n] = IF s[n] \in S THEN Append(f[n - 1], s[n]) ELSE f[n - 1]
        BY <4>1, <3>2, <2>1
      <4> QED
        BY <4>2, <4>3, <3>2
    <3>3. CASE n # m /\ n = 0
      <4>1. n \in 0 .. (m - 1)
        BY <1>2, <3>3
      <4>2. g[n] = f[n] /\ f[n] = <<>>
        BY <4>1, <3>3, <2>1
      <4> QED
        BY <4>2, <3>3
    <3> QED
      BY <3>1, <3>2, <3>3
  <2>3. g = [n \in 0 .. m |-> g[n]]
    OBVIOUS
  <2> HIDE DEF g
  <2>4. g = [n \in 0 .. m |->
              IF n = 0 THEN <<>>
              ELSE IF s[n] \in S THEN Append(g[n - 1], s[n]) ELSE g[n - 1]]
    BY <2>2, <2>3
  <2> QED
    BY <2>4 DEF IsKept
<1> HIDE DEF Ex
<1>3. Bad = {}
  <2> SUFFICES ASSUME Bad # {} PROVE FALSE
    OBVIOUS
  <2>1. PICK m \in Bad : \A n \in Bad : m <= n
    BY Least
  <2>2. m \in Nat /\ m # 0 /\ ~Ex(m)
    BY <2>1, <1>1
  <2>3. m - 1 \in Nat /\ ~(m <= m - 1)
    BY <2>2
  <2>4. Ex(m - 1)
    BY <2>1, <2>3
  <2> QED
    BY <2>2, <2>4, <1>2
<1>4. Ex(l)
  BY <1>3
<1> QED
  BY <1>4 DEF Ex

\* What Kept says of each prefix.
LEMMA KeptIs ==
    ASSUME NEW s, NEW S, Len(s) \in Nat, NEW n \in 0 .. Len(s)
    PROVE  Kept(s, S)[n] =
             IF n = 0 THEN <<>>
             ELSE IF s[n] \in S THEN Append(Kept(s, S)[n - 1], s[n])
             ELSE Kept(s, S)[n - 1]
<1> DEFINE F == Kept(s, S)
<1>1. F = CHOOSE f : IsKept(f, s, S, Len(s))
  BY DEF Kept, IsKept
<1>2. \E f : IsKept(f, s, S, Len(s))
  BY KeptExists
<1>3. IsKept(F, s, S, Len(s))
  <2> HIDE DEF F
  <2> QED
    BY <1>1, <1>2
<1> HIDE DEF F
<1>4. F[n] = IF n = 0 THEN <<>>
             ELSE IF s[n] \in S THEN Append(F[n - 1], s[n]) ELSE F[n - 1]
  BY <1>3 DEF IsKept
<1> QED
  BY <1>4 DEF F

\* The kept elements are elements of the sequence.
LEMMA KeptType ==
    ASSUME NEW T, NEW S, NEW s \in Seq(T), NEW n \in 0 .. Len(s)
    PROVE  Kept(s, S)[n] \in Seq(T)
<1> DEFINE Bad == {m \in 0 .. Len(s) : Kept(s, S)[m] \notin Seq(T)}
<1>1. SUFFICES ASSUME Bad # {} PROVE FALSE
  OBVIOUS
<1>2. PICK m \in Bad : \A i \in Bad : m <= i
  <2>1. Bad \in SUBSET Nat
    OBVIOUS
  <2> HIDE DEF Bad
  <2> QED
    BY <1>1, <2>1, Least
<1>3. m \in 0 .. Len(s) /\ Kept(s, S)[m] \notin Seq(T) /\ Len(s) \in Nat
  BY <1>2
<1>4. Kept(s, S)[m] = IF m = 0 THEN <<>>
             ELSE IF s[m] \in S THEN Append(Kept(s, S)[m - 1], s[m])
             ELSE Kept(s, S)[m - 1]
  BY <1>3, KeptIs
<1>5. m # 0
  <2>1. <<>> \in Seq(T)
    OBVIOUS
  <2> QED
    BY <1>3, <1>4, <2>1
<1>6. m - 1 \in 0 .. Len(s) /\ ~(m <= m - 1) /\ s[m] \in T
  BY <1>3, <1>5
<1>7. Kept(s, S)[m - 1] \in Seq(T)
  BY <1>2, <1>6
<1>8. Append(Kept(s, S)[m - 1], s[m]) \in Seq(T)
  BY <1>6, <1>7
<1> QED
  BY <1>3, <1>4, <1>5, <1>7, <1>8

-----------------------------------------------------------------------------
(* SetValue and its listeners.                                             *)

CallStep(f, c, v, n) ==
    IF n = 0 THEN [var |-> [c EXCEPT !.crossed = FALSE], thrown |-> FALSE]
    ELSE IF c.listeners[n] = None THEN f[n - 1] ELSE Call(f[n - 1], n, v)

IsCalled(f, c, v, l) == f = [n \in 0 .. l |-> CallStep(f, c, v, n)]

\* The recursive function in Called exists.
LEMMA CalledExists ==
    ASSUME NEW c, NEW v, NEW l \in Nat
    PROVE  \E f : IsCalled(f, c, v, l)
<1> DEFINE Ex(m) == \E f : IsCalled(f, c, v, m)
           Bad == {m \in Nat : ~Ex(m)}
<1>1. Ex(0)
  <2> DEFINE g == [n \in 0 .. 0 |-> [var |-> [c EXCEPT !.crossed = FALSE], thrown |-> FALSE]]
  <2>1. \A n \in 0 .. 0 : g[n] = CallStep(g, c, v, n)
    BY DEF CallStep
  <2>2. g = [n \in 0 .. 0 |-> g[n]]
    OBVIOUS
  <2> HIDE DEF g
  <2>3. IsCalled(g, c, v, 0)
    BY <2>1, <2>2 DEF IsCalled
  <2> QED
    BY <2>3
<1>2. ASSUME NEW m \in Nat, m # 0, Ex(m - 1) PROVE Ex(m)
  <2>1. PICK f : IsCalled(f, c, v, m - 1)
    BY <1>2
  <2> DEFINE g == [n \in 0 .. m |-> IF n = m THEN CallStep(f, c, v, m) ELSE f[n]]
  <2>2. ASSUME NEW n \in 0 .. m
        PROVE  g[n] = CallStep(g, c, v, n)
    <3>1. CASE n = m
      <4>1. n - 1 \in 0 .. m /\ n - 1 # m /\ n \in 0 .. m /\ n # 0
        BY <1>2, <3>1
      <4>2. g[n - 1] = f[n - 1] /\ g[n] = CallStep(f, c, v, n)
        BY <4>1, <3>1
      <4> HIDE DEF g
      <4> QED
        BY <4>1, <4>2 DEF CallStep
    <3>2. CASE n # m /\ n # 0
      <4>1. n \in 0 .. (m - 1) /\ n - 1 \in 0 .. m /\ n - 1 # m
        BY <1>2, <3>2
      <4>2. g[n] = f[n] /\ g[n - 1] = f[n - 1]
        BY <4>1, <3>2
      <4>3. f[n] = CallStep(f, c, v, n)
        BY <4>1, <3>2, <2>1 DEF IsCalled
      <4> HIDE DEF g
      <4> QED
        BY <4>2, <4>3 DEF CallStep
    <3>3. CASE n # m /\ n = 0
      <4>1. n \in 0 .. (m - 1)
        BY <1>2, <3>3
      <4>2. g[n] = f[n] /\ f[n] = CallStep(f, c, v, n)
        BY <4>1, <3>3, <2>1 DEF IsCalled
      <4> HIDE DEF g
      <4> QED
        BY <4>2, <3>3 DEF CallStep
    <3> QED
      BY <3>1, <3>2, <3>3
  <2>3. g = [n \in 0 .. m |-> g[n]]
    OBVIOUS
  <2> HIDE DEF g
  <2>4. IsCalled(g, c, v, m)
    BY <2>2, <2>3 DEF IsCalled
  <2> QED
    BY <2>4
<1> HIDE DEF Ex
<1>3. Bad = {}
  <2> SUFFICES ASSUME Bad # {} PROVE FALSE
    OBVIOUS
  <2>1. PICK m \in Bad : \A n \in Bad : m <= n
    BY Least
  <2>2. m \in Nat /\ m # 0 /\ ~Ex(m)
    BY <2>1, <1>1
  <2>3. m - 1 \in Nat /\ ~(m <= m - 1)
    BY <2>2
  <2>4. Ex(m - 1)
    BY <2>1, <2>3
  <2> QED
    BY <2>2, <2>4, <1>2
<1>4. Ex(l)
  BY <1>3
<1> QED
  BY <1>4 DEF Ex

\* What Called says of each key.
LEMMA CalledIs ==
    ASSUME NEW c, NEW v, NEW n \in 0 .. MaxKey
    PROVE  Called(c, v)[n] = CallStep(Called(c, v), c, v, n)
<1> DEFINE F == Called(c, v)
<1>1. F = CHOOSE f : IsCalled(f, c, v, MaxKey)
  BY DEF Called, IsCalled, CallStep
<1>2. \E f : IsCalled(f, c, v, MaxKey)
  BY CalledExists, ConfigAssumption
<1>3. IsCalled(F, c, v, MaxKey)
  <2> HIDE DEF F
  <2> QED
    BY <1>1, <1>2
<1> HIDE DEF F
<1>4. F[n] = CallStep(F, c, v, n)
  BY <1>3 DEF IsCalled
<1> QED
  BY <1>4 DEF F

\* What the listeners of keys up to n have made of the variable c: as long as no
\* listener has acted against the change, each observer of such a key, and no
\* other, has been told v.
CalledInv(s, c, v, n) ==
    /\ s = [var |-> s.var, thrown |-> s.thrown]
    /\ IsVar(s.var)
    /\ s.var.listeners = c.listeners
    /\ s.var.type = c.type
    /\ s.thrown => s.var.crossed
    /\ ~s.var.crossed =>
         \A k \in Keys : s.var.told[k] =
           IF k <= n /\ c.listeners[k] = "observe" THEN v ELSE c.told[k]

\* Updates of a variable, field by field.
LEMMA CrossedIs ==
    ASSUME NEW c, NEW b,
           c = [type |-> c.type, value |-> c.value, listeners |-> c.listeners,
                told |-> c.told, crossed |-> c.crossed]
    PROVE  [c EXCEPT !.crossed = b] =
             [type |-> c.type, value |-> c.value, listeners |-> c.listeners,
              told |-> c.told, crossed |-> b]
<1>1. PICK p, q, l, t, r : c = [type |-> p, value |-> q, listeners |-> l, told |-> t,
                                crossed |-> r]
  BY Zenon
<1> QED
  BY <1>1

\* What a nested SetValue makes of the variable x.
NestedIs(x, w, th, u, q) ==
    /\ NestedSet(x) = [var |-> w, thrown |-> th]
    /\ w = [type |-> x.type, value |-> q, listeners |-> x.listeners, told |-> u,
            crossed |-> x.crossed]
    /\ u = [k \in Keys |-> u[k]]
    /\ \A k \in Keys : x.listeners[k] # "observe" => u[k] = None

\* A listener keeps the invariant.
LEMMA CallKeeps ==
    ASSUME NEW c, NEW v, IsVar(c), NEW n \in Keys, NEW s,
           CalledInv(s, c, v, n - 1), c.listeners[n] # None
    PROVE  CalledInv(Call(s, n, v), c, v, n)
<1> DEFINE x == s.var
<1>0. /\ x = [type |-> x.type, value |-> x.value, listeners |-> x.listeners,
              told |-> x.told, crossed |-> x.crossed]
      /\ x.listeners \in [Keys -> AllKinds \cup {None}]
      /\ x.told = [k \in Keys |-> x.told[k]]
      /\ \A k \in Keys : x.listeners[k] # "observe" => x.told[k] = None
      /\ x.listeners = c.listeners
      /\ x.type = c.type
  BY DEF CalledInv, IsVar
<1>k. n \in Nat /\ Keys \subseteq Nat
  BY ConfigAssumption DEF Keys
<1>1. CASE s.thrown
  BY <1>1, <1>k DEF Call, CalledInv
<1>2. CASE /\ ~s.thrown
           /\ ~(x.listeners[n] = "empty" \/ (x.listeners[n] = "reject" /\ v > Limit))
           /\ ~(x.listeners[n] = "clamp" /\ v > Limit)
  <2> DEFINE y == Tell(x, n, v)
  <2>1. Call(s, n, v) = [var |-> y, thrown |-> s.thrown]
    BY <1>2 DEF Call, CalledInv
  <2>2. CASE c.listeners[n] = "observe"
    <3>1. y = [type |-> x.type, value |-> x.value, listeners |-> x.listeners,
               told |-> [x.told EXCEPT ![n] = v], crossed |-> x.crossed]
      BY <1>0, <2>2 DEF Tell
    <3> HIDE DEF x, y
    <3>2. /\ y.type = x.type /\ y.value = x.value /\ y.listeners = x.listeners
          /\ y.told = [x.told EXCEPT ![n] = v] /\ y.crossed = x.crossed
      BY <3>1
    <3>3. \A k \in Keys : y.told[k] = IF k = n THEN v ELSE x.told[k]
      BY <3>2, <1>0
    <3>4. IsVar(y)
      <4>1. y = [type |-> y.type, value |-> y.value, listeners |-> y.listeners,
                 told |-> y.told, crossed |-> y.crossed]
        BY <3>1, <3>2
      <4>2. y.told = [k \in Keys |-> y.told[k]]
        BY <3>2, <1>0
      <4> QED
        BY <4>1, <4>2, <3>2, <3>3, <1>0, <2>2 DEF IsVar
    <3>5. ~y.crossed => \A k \in Keys : y.told[k] =
           IF k <= n /\ c.listeners[k] = "observe" THEN v ELSE c.told[k]
      <4> SUFFICES ASSUME ~y.crossed, NEW k \in Keys
                   PROVE  y.told[k] =
                     IF k <= n /\ c.listeners[k] = "observe" THEN v ELSE c.told[k]
        OBVIOUS
      <4>1. x.told[k] = IF k <= n - 1 /\ c.listeners[k] = "observe" THEN v ELSE c.told[k]
        BY <3>2 DEF CalledInv, x
      <4>2. k \in Nat /\ (k # n => (k <= n <=> k <= n - 1)) /\ n <= n
        BY <1>k
      <4> QED
        BY <4>1, <4>2, <3>3, <2>2
    <3>6. PICK z : z = [var |-> y, thrown |-> s.thrown]
      OBVIOUS
    <3>7. z.var = y /\ z.thrown = s.thrown /\ z = [var |-> z.var, thrown |-> z.thrown]
      BY <3>6
    <3>8. CalledInv(z, c, v, n)
      BY <3>7, <3>4, <3>5, <3>2, <1>0, <1>2 DEF CalledInv
    <3> QED
      BY <3>6, <3>8, <2>1
  <2>3. CASE c.listeners[n] # "observe"
    <3>1. y = x
      BY <1>0, <2>3 DEF Tell
    <3>2. Call(s, n, v) = s
      BY <2>1, <3>1 DEF CalledInv
    <3>3. \A k \in Keys : c.listeners[k] = "observe" => (k <= n <=> k <= n - 1)
      <4>1. \A k \in Keys : c.listeners[k] = "observe" => k # n
        BY <2>3
      <4>2. \A k \in Nat : k # n => (k <= n <=> k <= n - 1)
        BY <1>k
      <4> QED
        BY <4>1, <4>2, <1>k
    <3> HIDE DEF x, y
    <3> QED
      BY <3>2, <3>3 DEF CalledInv
  <2> QED
    BY <2>2, <2>3
<1>3. CASE /\ ~s.thrown
           /\ ~(x.listeners[n] = "empty" \/ (x.listeners[n] = "reject" /\ v > Limit))
           /\ x.listeners[n] = "clamp" /\ v > Limit
  <2>0. PICK w, th, u, q : NestedIs(x, w, th, u, q)
    <3>1. CASE x.value = Limit
      <4>1. NestedSet(x) = [var |-> x, thrown |-> FALSE]
        BY <3>1 DEF NestedSet
      <4>2. PICK w, th, u, q : w = x /\ th = FALSE /\ u = x.told /\ q = x.value
        OBVIOUS
      <4> HIDE DEF x
      <4>3. NestedSet(x) = [var |-> w, thrown |-> th]
        BY <4>1, <4>2
      <4>4. w = [type |-> x.type, value |-> q, listeners |-> x.listeners, told |-> u,
                 crossed |-> x.crossed]
        BY <4>2, <1>0
      <4>5. u = [k \in Keys |-> u[k]]
            /\ \A k \in Keys : x.listeners[k] # "observe" => u[k] = None
        BY <4>2, <1>0
      <4>6. NestedIs(x, w, th, u, q)
        BY <4>3, <4>4, <4>5, Zenon DEF NestedIs
      <4> QED
        BY <4>6
    <3>2. CASE x.value # Limit
      <4>1. PICK u, q, th : /\ u = ToldUpToEmpty(x, Limit) /\ th = EmptyBelow(x, MaxKey + 1)
                            /\ q = IF EmptyBelow(x, MaxKey + 1) THEN x.value ELSE Limit
        OBVIOUS
      <4>2. PICK w : w = [[x EXCEPT !.told = u] EXCEPT !.value = q]
        OBVIOUS
      <4> HIDE DEF x
      <4>3. NestedSet(x) = [var |-> w, thrown |-> th]
        <5>1. PICK y : y = [x EXCEPT !.told = u]
          OBVIOUS
        <5>2. y.value = x.value
          BY <5>1, <1>0
        <5>3. [x EXCEPT !.told = u,
                        !.value = IF EmptyBelow(x, MaxKey + 1) THEN @ ELSE Limit] =
              [y EXCEPT !.value = IF EmptyBelow(x, MaxKey + 1) THEN @ ELSE Limit]
          BY <5>1, Zenon
        <5>4. [y EXCEPT !.value = IF EmptyBelow(x, MaxKey + 1) THEN @ ELSE Limit] =
              [y EXCEPT !.value = q]
          BY <4>1, <5>2
        <5>5. w = [y EXCEPT !.value = q]
          BY <4>2, <5>1, Zenon
        <5> QED
          BY <3>2, <4>1, <5>3, <5>4, <5>5, Zenon DEF NestedSet
      <4>4. w = [type |-> x.type, value |-> q, listeners |-> x.listeners, told |-> u,
                 crossed |-> x.crossed]
        <5>1. PICK a, b, l, t, r : x = [type |-> a, value |-> b, listeners |-> l,
                                        told |-> t, crossed |-> r]
          BY <1>0, Zenon
        <5> QED
          BY <4>2, <5>1
      <4>5. u = [k \in Keys |-> u[k]]
            /\ \A k \in Keys : x.listeners[k] # "observe" => u[k] = None
        BY <4>1, <1>0 DEF ToldUpToEmpty
      <4>6. NestedIs(x, w, th, u, q)
        BY <4>3, <4>4, <4>5, Zenon DEF NestedIs
      <4> QED
        BY <4>6
    <3> QED
      BY <3>1, <3>2
  <2> HIDE DEF x
  <2>1. /\ NestedSet(x) = [var |-> w, thrown |-> th]
        /\ w = [type |-> x.type, value |-> q, listeners |-> x.listeners, told |-> u,
                crossed |-> x.crossed]
        /\ u = [k \in Keys |-> u[k]]
        /\ \A k \in Keys : x.listeners[k] # "observe" => u[k] = None
    BY <2>0 DEF NestedIs
  <2>2. PICK y : y = [w EXCEPT !.crossed = TRUE]
    OBVIOUS
  <2>3. y = [type |-> x.type, value |-> q, listeners |-> x.listeners, told |-> u,
             crossed |-> TRUE]
    <3>1. PICK b : b = TRUE
      OBVIOUS
    <3>2. PICK a, l, r : w = [type |-> a, value |-> q, listeners |-> l, told |-> u,
                              crossed |-> r] /\ a = x.type /\ l = x.listeners
      BY <2>1, Zenon
    <3>3. [w EXCEPT !.crossed = b] =
            [type |-> a, value |-> q, listeners |-> l, told |-> u, crossed |-> b]
      BY <3>2
    <3> QED
      BY <2>2, <3>1, <3>2, <3>3, Zenon
  <2>4. IsVar(y) /\ y.crossed = TRUE /\ y.listeners = x.listeners /\ y.type = x.type
    BY <1>0, <2>1, <2>3 DEF IsVar
  <2>5. PICK z : z = [var |-> y, thrown |-> th]
    OBVIOUS
  <2>6. Call(s, n, v) = z
    <3>1. Call(s, n, v) = [NestedSet(x) EXCEPT !.var.crossed = TRUE]
      BY <1>3 DEF Call, x
    <3>2. PICK r : r = [var |-> w, thrown |-> th]
      OBVIOUS
    <3>3. [r EXCEPT !.var.crossed = TRUE] = [r EXCEPT !.var = [w EXCEPT !.crossed = TRUE]]
      BY <3>2
    <3>4. [r EXCEPT !.var = y] = z
      BY <3>2, <2>5
    <3> QED
      BY <2>1, <2>2, <3>1, <3>2, <3>3, <3>4, Zenon
  <2>7. z.var = y /\ z.thrown = th /\ z = [var |-> z.var, thrown |-> z.thrown]
    BY <2>5
  <2>8. CalledInv(z, c, v, n)
    BY <2>4, <2>7, <1>0 DEF CalledInv
  <2> QED
    BY <2>6, <2>8
<1>4. CASE /\ ~s.thrown
           /\ x.listeners[n] = "empty" \/ (x.listeners[n] = "reject" /\ v > Limit)
  <2> DEFINE y == [x EXCEPT !.crossed = TRUE]
  <2>1. Call(s, n, v) = [var |-> y, thrown |-> TRUE]
    BY <1>4 DEF Call
  <2>2. y = [type |-> x.type, value |-> x.value, listeners |-> x.listeners,
             told |-> x.told, crossed |-> TRUE]
    <3> HIDE DEF x
    <3> QED
      BY <1>0, CrossedIs, Zenon
  <2> HIDE DEF x, y
  <2>3. IsVar(y) /\ y.crossed = TRUE /\ y.listeners = x.listeners /\ y.type = x.type
    BY <2>2, <1>0 DEF IsVar
  <2>4. PICK z : z = [var |-> y, thrown |-> TRUE]
    OBVIOUS
  <2>5. z.var = y /\ z.thrown = TRUE /\ z = [var |-> z.var, thrown |-> z.thrown]
    BY <2>4
  <2>6. CalledInv(z, c, v, n)
    BY <2>5, <2>3, <1>0 DEF CalledInv
  <2> QED
    BY <2>1, <2>4, <2>6
<1> QED
  BY <1>1, <1>2, <1>3, <1>4

\* So all listeners together do.
LEMMA AllCalled ==
    ASSUME NEW c, NEW v, IsVar(c)
    PROVE  CalledInv(Called(c, v)[MaxKey], c, v, MaxKey)
<1> DEFINE Bad == {m \in 0 .. MaxKey : ~CalledInv(Called(c, v)[m], c, v, m)}
<1>0. MaxKey \in Nat
  BY ConfigAssumption
<1>1. SUFFICES ASSUME Bad # {} PROVE FALSE
  BY <1>0
<1>2. PICK m \in Bad : \A i \in Bad : m <= i
  <2>1. Bad \in SUBSET Nat
    BY <1>0
  <2> HIDE DEF Bad
  <2> QED
    BY <1>1, <2>1, Least
<1>3. m \in 0 .. MaxKey /\ ~CalledInv(Called(c, v)[m], c, v, m)
  BY <1>2
<1>4. Called(c, v)[m] = CallStep(Called(c, v), c, v, m)
  BY <1>3, CalledIs
<1>5. CASE m = 0
  <2> DEFINE x == [c EXCEPT !.crossed = FALSE]
  <2>1. Called(c, v)[m] = [var |-> x, thrown |-> FALSE]
    BY <1>4, <1>5 DEF CallStep
  <2>2. x = [type |-> c.type, value |-> c.value, listeners |-> c.listeners,
             told |-> c.told, crossed |-> FALSE]
    <3>1. c = [type |-> c.type, value |-> c.value, listeners |-> c.listeners,
               told |-> c.told, crossed |-> c.crossed]
      BY DEF IsVar
    <3> QED
      BY <3>1, CrossedIs, Zenon
  <2> HIDE DEF x
  <2>3. IsVar(x) /\ x.listeners = c.listeners /\ x.type = c.type /\ x.told = c.told
    BY <2>2 DEF IsVar
  <2>4. \A k \in Keys : ~(k <= 0)
    BY <1>0 DEF Keys
  <2>5. PICK z : z = [var |-> x, thrown |-> FALSE]
    OBVIOUS
  <2>6. z.var = x /\ z.thrown = FALSE /\ z = [var |-> z.var, thrown |-> z.thrown]
    BY <2>5
  <2>7. CalledInv(z, c, v, m)
    BY <2>3, <2>4, <2>6, <1>5 DEF CalledInv
  <2> QED
    BY <2>1, <2>5, <2>7, <1>3
<1>6. CASE m # 0
  <2>1. m \in Keys /\ m - 1 \in 0 .. MaxKey /\ ~(m <= m - 1)
    BY <1>0, <1>3, <1>6 DEF Keys
  <2>2. CalledInv(Called(c, v)[m - 1], c, v, m - 1)
    BY <2>1, <1>2
  <2>3. CASE c.listeners[m] = None
    <3>1. Called(c, v)[m] = Called(c, v)[m - 1]
      BY <1>4, <1>6, <2>3 DEF CallStep
    <3>2. \A k \in Keys : c.listeners[k] = "observe" => (k <= m <=> k <= m - 1)
      BY <2>3, <2>1, <1>0, ConfigAssumption DEF Keys, Kinds, AllKinds
    <3>3. CalledInv(Called(c, v)[m - 1], c, v, m)
      <4> DEFINE y == Called(c, v)[m - 1]
      <4> HIDE DEF y
      <4>1. CalledInv(y, c, v, m - 1)
        BY <2>2 DEF y
      <4>2. CalledInv(y, c, v, m)
        BY <4>1, <3>2 DEF CalledInv
      <4> QED
        BY <4>2 DEF y
    <3> QED
      BY <3>1, <3>3, <1>3
  <2>4. CASE c.listeners[m] # None
    <3>1. Called(c, v)[m] = Call(Called(c, v)[m - 1], m, v)
      BY <1>4, <1>6, <2>4 DEF CallStep
    <3>2. CalledInv(Call(Called(c, v)[m - 1], m, v), c, v, m)
      BY <2>1, <2>2, <2>4, CallKeeps
    <3> QED
      BY <3>1, <3>2, <1>3
  <2> QED
    BY <2>3, <2>4
<1> QED
  BY <1>5, <1>6

\* SetValue keeps the invariant of the variable, whether a listener throws or not.
LEMMA SetValueKeeps ==
    ASSUME NEW c, NEW v, VarOK(c), c.type # "none"
    PROVE  VarOK(SetValue(c, v).var)
<1> DEFINE s == Called(c, v)[MaxKey]
<1>1. CalledInv(s, c, v, MaxKey)
  BY AllCalled DEF VarOK
<1>2. CASE v = c.value
  <2>1. SetValue(c, v) = [var |-> c, thrown |-> FALSE]
    BY <1>2 DEF SetValue
  <2> QED
    BY <2>1
<1>3. CASE v # c.value /\ s.thrown
  <2>1. SetValue(c, v) = s
    BY <1>3 DEF SetValue
  <2> HIDE DEF s
  <2> QED
    BY <1>1, <1>3, <2>1 DEF VarOK, CalledInv
<1>4. CASE v # c.value /\ ~s.thrown
  <2> DEFINE x == s.var
  <2>1. SetValue(c, v) = [s EXCEPT !.var.value = v]
    BY <1>4 DEF SetValue
  <2> HIDE DEF s
  <2>2. s = [var |-> x, thrown |-> s.thrown] /\ IsVar(x)
        /\ x.listeners = c.listeners /\ x.type = c.type
        /\ (~x.crossed => \A k \in Keys : x.told[k] =
              IF k <= MaxKey /\ c.listeners[k] = "observe" THEN v ELSE c.told[k])
    BY <1>1 DEF CalledInv
  <2> HIDE DEF x
  <2>3. PICK y : y = [x EXCEPT !.value = v]
    OBVIOUS
  <2>4. SetValue(c, v).var = y
    BY <2>1, <2>2, <2>3
  <2>5. y = [type |-> x.type, value |-> v, listeners |-> x.listeners,
             told |-> x.told, crossed |-> x.crossed]
    <3>1. x = [type |-> x.type, value |-> x.value, listeners |-> x.listeners,
               told |-> x.told, crossed |-> x.crossed]
      BY <2>2 DEF IsVar
    <3>2. PICK p, q, l, t, r : x = [type |-> p, value |-> q, listeners |-> l, told |-> t,
                                crossed |-> r]
      BY <3>1, Zenon
    <3> QED
      BY <2>3, <3>2
  <2>6. IsVar(y)
    BY <2>2, <2>5 DEF IsVar
  <2>7. y.crossed \/ \A k \in Keys : y.told[k] \in {None, y.value}
    <3> SUFFICES ASSUME ~y.crossed, NEW k \in Keys PROVE y.told[k] \in {None, y.value}
      OBVIOUS
    <3>1. ~x.crossed /\ y.told = x.told /\ y.value = v
      BY <2>5
    <3>2. k <= MaxKey
      BY ConfigAssumption DEF Keys
    <3>3. c.listeners[k] # "observe" => c.told[k] = None
      BY DEF VarOK, IsVar
    <3> QED
      BY <2>2, <3>1, <3>2, <3>3
  <2>8. y.type # "none"
    BY <2>2, <2>5
  <2> QED
    BY <2>4, <2>6, <2>7, <2>8 DEF VarOK
<1> QED
  BY <1>2, <1>3, <1>4

\* So do the calls that change the listeners.
LEMMA ListenersKeep ==
    ASSUME NEW c, VarOK(c), c.type # "none"
    PROVE  /\ \A k \in Keys, kind \in Kinds : VarOK(AddListener(c, k, kind))
           /\ \A k \in Keys : VarOK(GetListener(c, k))
           /\ \A k \in Keys : VarOK(DelListener(c, k))
           /\ VarOK(ClearListener(c))
<1>1. PICK p, q, l, t, r : c = [type |-> p, value |-> q, listeners |-> l, told |-> t,
                                crossed |-> r]
  BY Zenon DEF VarOK, IsVar
<1>2. /\ p # "none" /\ l \in [Keys -> AllKinds \cup {None}]
      /\ t = [k \in Keys |-> t[k]]
      /\ \A k \in Keys : l[k] # "observe" => t[k] = None
      /\ r \/ \A k \in Keys : t[k] \in {None, q}
  BY <1>1 DEF VarOK, IsVar
<1>3. ASSUME NEW k \in Keys, NEW kind \in AllKinds \cup {None}, NEW d,
             d = [type |-> p, value |-> q, listeners |-> [l EXCEPT ![k] = kind],
                  told |-> [t EXCEPT ![k] = None], crossed |-> r]
      PROVE  VarOK(d)
  <2>1. /\ d.type = p /\ d.value = q /\ d.listeners = [l EXCEPT ![k] = kind]
        /\ d.told = [t EXCEPT ![k] = None] /\ d.crossed = r
    BY <1>3
  <2>2. d = [type |-> d.type, value |-> d.value, listeners |-> d.listeners,
             told |-> d.told, crossed |-> d.crossed]
    BY <1>3
  <2>3. /\ d.listeners \in [Keys -> AllKinds \cup {None}]
        /\ d.told = [j \in Keys |-> d.told[j]]
        /\ \A j \in Keys : d.told[j] = IF j = k THEN None ELSE t[j]
        /\ \A j \in Keys : d.listeners[j] = IF j = k THEN kind ELSE l[j]
    BY <2>1, <1>2
  <2> QED
    BY <2>1, <2>2, <2>3, <1>2 DEF VarOK, IsVar
<1>0. ASSUME NEW k, NEW kind
      PROVE  [c EXCEPT !.listeners[k] = kind, !.told[k] = None] =
               [type |-> p, value |-> q, listeners |-> [l EXCEPT ![k] = kind],
                told |-> [t EXCEPT ![k] = None], crossed |-> r]
  <2>1. PICK e : e = [type |-> p, value |-> q, listeners |-> [l EXCEPT ![k] = kind],
                      told |-> t, crossed |-> r]
    OBVIOUS
  <2>2. [c EXCEPT !.listeners[k] = kind] = e
    BY <1>1, <2>1
  <2>3. [e EXCEPT !.told[k] = None] =
          [type |-> p, value |-> q, listeners |-> [l EXCEPT ![k] = kind],
           told |-> [t EXCEPT ![k] = None], crossed |-> r]
    BY <2>1
  <2>4. [c EXCEPT !.listeners[k] = kind, !.told[k] = None] =
          [[c EXCEPT !.listeners[k] = kind] EXCEPT !.told[k] = None]
    OBVIOUS
  <2> QED
    BY <2>2, <2>3, <2>4, Zenon
<1>4. ASSUME NEW k \in Keys, NEW kind \in Kinds PROVE VarOK(AddListener(c, k, kind))
  <2>1. AddListener(c, k, kind) =
          [type |-> p, value |-> q, listeners |-> [l EXCEPT ![k] = kind],
           told |-> [t EXCEPT ![k] = None], crossed |-> r]
    BY <1>0, Zenon DEF AddListener
  <2>2. kind \in AllKinds \cup {None}
    BY DEF AllKinds
  <2> QED
    BY <2>1, <2>2, <1>3
<1>7. ASSUME NEW k \in Keys PROVE VarOK(GetListener(c, k))
  <2>1. CASE l[k] # None
    <3>1. GetListener(c, k) = c
      BY <1>1, <2>1 DEF GetListener
    <3> QED
      BY <3>1
  <2>2. CASE l[k] = None
    <3>1. PICK d : d = [type |-> p, value |-> q, listeners |-> [l EXCEPT ![k] = "empty"],
                        told |-> t, crossed |-> r]
      OBVIOUS
    <3>2. GetListener(c, k) = d
      BY <1>1, <2>2, <3>1 DEF GetListener
    <3>3. None # "observe" /\ "empty" \in AllKinds
      BY ConfigAssumption DEF AllKinds, Kinds
    <3>4. /\ d.type = p /\ d.value = q /\ d.listeners = [l EXCEPT ![k] = "empty"]
          /\ d.told = t /\ d.crossed = r
      BY <3>1
    <3>5. d.listeners \in [Keys -> AllKinds \cup {None}]
          /\ \A j \in Keys : d.listeners[j] = IF j = k THEN "empty" ELSE l[j]
      BY <1>2, <3>3, <3>4
    <3>6. \A j \in Keys : d.listeners[j] # "observe" => d.told[j] = None
      BY <1>2, <2>2, <3>3, <3>4, <3>5
    <3>7. VarOK(d)
      BY <1>2, <3>1, <3>4, <3>5, <3>6 DEF VarOK, IsVar
    <3> QED
      BY <3>2, <3>7
  <2> QED
    BY <2>1, <2>2
<1>5. ASSUME NEW k \in Keys PROVE VarOK(DelListener(c, k))
  <2>1. DelListener(c, k) =
          [type |-> p, value |-> q, listeners |-> [l EXCEPT ![k] = None],
           told |-> [t EXCEPT ![k] = None], crossed |-> r]
    BY <1>0, Zenon DEF DelListener
  <2> QED
    BY <2>1, <1>3
<1>6. VarOK(ClearListener(c))
  <2>1. PICK d : d = ClearListener(c)
    OBVIOUS
  <2>2. d = [type |-> p, value |-> q, listeners |-> NoListeners, told |-> NoListeners,
             crossed |-> r]
    BY <1>1, <2>1 DEF ClearListener
  <2>3. VarOK(d)
    BY <2>2, <1>2 DEF VarOK, IsVar, NoListeners
  <2> QED
    BY <2>1, <2>3
<1> QED
  BY <1>4, <1>5, <1>6, <1>7

\* And Lookup.
LEMMA LookupKeeps ==
    ASSUME NEW c, VarOK(c)
    PROVE  VarOK(Lookup(c, "int", 0))
<1>1. CASE c.type # "none"
  BY <1>1 DEF Lookup
<1>2. CASE c.type = "none"
  <2>1. PICK p, q, l, t, r : c = [type |-> p, value |-> q, listeners |-> l, told |-> t,
                                  crossed |-> r]
    BY Zenon DEF VarOK, IsVar
  <2>2. /\ l \in [Keys -> AllKinds \cup {None}]
        /\ t = [k \in Keys |-> t[k]]
        /\ \A k \in Keys : t[k] = None
    BY <1>2, <2>1 DEF VarOK, IsVar
  <2>3. PICK d : d = Lookup(c, "int", 0)
    OBVIOUS
  <2>4. d = [type |-> "int", value |-> 0, listeners |-> l, told |-> t, crossed |-> r]
    BY <1>2, <2>1, <2>3 DEF Lookup
  <2>5. VarOK(d)
    BY <2>2, <2>4 DEF VarOK, IsVar
  <2> QED
    BY <2>3, <2>5
<1> QED
  BY <1>1, <1>2

\* The scalar variable starts right.
LEMMA VarInit == VarOK(NewVar)
<1>1. PICK d : d = NewVar
  OBVIOUS
<1>2. d = [type |-> "none", value |-> 0, listeners |-> NoListeners,
           told |-> NoListeners, crossed |-> FALSE]
  BY <1>1 DEF NewVar
<1>3. VarOK(d)
  BY <1>2 DEF VarOK, IsVar, NoListeners
<1> QED
  BY <1>1, <1>3

\* No step spoils the scalar variable.
LEMMA VarStep ==
    ASSUME VarOK(port), [Next]_vars
    PROVE  VarOK(port)'
<1>1. CASE UNCHANGED vars
  BY <1>1 DEF vars, cfgVars, VarOK, IsVar
<1>2. CASE port' = port
  BY <1>2 DEF VarOK, IsVar
<1>3. CASE ListenerStep
  BY <1>2, <1>3 DEF ListenerStep, DelOld, AddNew, SetMaxLevel, AddAppender, AppenderThrows,
                    SetRoot, Store, Does, Reaches
<1>4. ASSUME NEW doc \in Docs, LoadFromYaml(doc) PROVE VarOK(port)'
  BY <1>2, <1>4 DEF LoadFromYaml
<1>5. CASE LoadNode
  <2> DEFINE known == {"logs"} \cup (IF port.type = "none" THEN {} ELSE {"port"})
             outcome == NodeOutcome(Head(list), known)
  <2>1. port' = (IF outcome = "set" /\ Head(list).key = "port"
                 THEN SetValue(port, Head(list).val)
                 ELSE [var |-> port, thrown |-> outcome = "throws"]).var
    BY <1>5 DEF LoadNode
  <2>2. CASE outcome = "set" /\ Head(list).key = "port"
    <3>1. port.type # "none"
      BY <2>2 DEF NodeOutcome
    <3>2. port' = SetValue(port, Head(list).val).var
      BY <2>1, <2>2
    <3>3. VarOK(SetValue(port, Head(list).val).var)
      BY <3>1, SetValueKeeps
    <3> QED
      BY <3>2, <3>3, Zenon DEF VarOK, IsVar
  <2>3. CASE ~(outcome = "set" /\ Head(list).key = "port")
    <3> HIDE DEF outcome
    <3>1. port' = port
      BY <2>1, <2>3
    <3> QED
      BY <3>1, <1>2
  <2> QED
    BY <2>2, <2>3
<1>6. CASE PortCalls
  <2>1. ASSUME NEW new, VarOK(new), UsePort(new) PROVE VarOK(port)'
    <3>1. port' = new
      BY <2>1 DEF UsePort
    <3> QED
      BY <2>1, <3>1, Zenon DEF VarOK, IsVar
  <2>2. CASE UsePort(Lookup(port, "int", 0))
    BY <2>1, <2>2, LookupKeeps
  <2>3. ASSUME port.type # "none", NEW v \in Ports, UsePort(SetValue(port, v).var)
        PROVE  VarOK(port)'
    BY <2>1, <2>3, SetValueKeeps
  <2>4. ASSUME port.type # "none", NEW k \in Keys, NEW kind \in Kinds,
               UsePort(AddListener(port, k, kind))
        PROVE  VarOK(port)'
    BY <2>1, <2>4, ListenersKeep
  <2>5. ASSUME port.type # "none", NEW k \in Keys, UsePort(DelListener(port, k))
        PROVE  VarOK(port)'
    BY <2>1, <2>5, ListenersKeep
  <2>6. CASE port.type # "none" /\ UsePort(ClearListener(port))
    BY <2>1, <2>6, ListenersKeep
  <2>7. ASSUME port.type # "none", NEW k \in Keys, UsePort(GetListener(port, k))
        PROVE  VarOK(port)'
    BY <2>1, <2>7, ListenersKeep
  <2> QED
    BY <1>6, <2>2, <2>3, <2>4, <2>5, <2>6, <2>7 DEF PortCalls
<1>7. CASE LogCalls /\ UNCHANGED cfgVars
  BY <1>2, <1>7 DEF cfgVars
<1> QED
  BY <1>1, <1>3, <1>4, <1>5, <1>6, <1>7 DEF Next

\* Listeners and SetValue: what an observer was last told is the value of the
\* variable, unless a listener threw or set the value in the latest change.
THEOREM ObserversAreTold == Spec => []ObserversAgree
<1>1. Init => VarOK(port)
  BY VarInit DEF Init
<1>2. VarOK(port) /\ [Next]_vars => VarOK(port)'
  BY VarStep
<1>3. VarOK(port) => ObserversAgree
  BY DEF VarOK, ObserversAgree
<1> QED
  BY <1>1, <1>2, <1>3, PTL DEF Spec

-----------------------------------------------------------------------------
(* The listener's positions.                                               *)

\* What a std::set<LoggerConf> is made of.
LEMMA LogSetIs ==
    ASSUME NEW s, LogSet(s)
    PROVE  /\ s \in Seq(Confs) /\ Len(s) \in Nat
           /\ \A i \in 1 .. Len(s) : s[i] \in Confs /\ s[i].name \in Names
                 /\ s[i].appenders \in Seq(Types) /\ Len(s[i].appenders) \in Nat
                 /\ s[i].level \in 0 .. 5
           /\ \A i, j \in 1 .. Len(s) : s[i].name = s[j].name => i = j
<1>1. s \in Seq(Confs)
  BY Zenon DEF LogSet, Confs
<1>2. Len(s) \in Nat /\ DOMAIN s = 1 .. Len(s)
  BY <1>1
<1>3. ASSUME NEW i \in 1 .. Len(s)
      PROVE  s[i] \in Confs /\ s[i].name \in Names /\ s[i].appenders \in Seq(Types)
             /\ Len(s[i].appenders) \in Nat /\ s[i].level \in 0 .. 5
  <2>1. s[i] \in Confs
    BY <1>1
  <2>2. \A c \in Confs : c.name \in Names /\ c.appenders \in Seq(Types) /\ c.level \in 0 .. 5
    BY DEF Confs
  <2>3. \A t \in Seq(Types) : Len(t) \in Nat
    OBVIOUS
  <2> QED
    BY <2>1, <2>2, <2>3
<1>4. \A i, j \in 1 .. Len(s) : s[i].name = s[j].name => i = j
  BY <1>2, Zenon DEF LogSet
<1> QED
  BY <1>1, <1>2, <1>3, <1>4

\* Used is typed.
LEMMA UsedType ==
    ASSUME NEW s \in Seq(Types)
    PROVE  Used(s) \in Seq(Types)
BY KeptType DEF Used

\* The nodes that LoadFromYaml walks over are nodes of the documents.
LEMMA YamlNodes ==
    ASSUME NEW doc \in Docs
    PROVE  YamlToList(doc) \in Seq(Nodes)
<1>1. doc \in Seq({doc[i] : i \in DOMAIN doc})
  BY DocsAssumption
<1>2. doc \in Seq(Nodes) /\ Len(doc) \in 0 .. Len(doc)
  BY <1>1 DEF Nodes
<1> QED
  BY <1>2, KeptType DEF YamlToList

\* A node that configures the loggers has a set of them.
LEMMA NodeLogSet ==
    ASSUME NEW n \in Nodes, n.key = "logs"
    PROVE  LogSet(n.val)
BY DocsAssumption DEF Nodes

\* The head of the loop over new_val, when the first i - 1 are built.
LEMMA ToNewOK ==
    ASSUME NEW new, LogSet(new), NEW i \in 1 .. (Len(new) + 1),
           at' = ToNew(new, i), Present(new, 1, i - 1)', Built(new, i - 1)'
    PROVE  AtOK' /\ Progress'
<1>0. Len(new) \in Nat
  BY LogSetIs
<1>1. CASE i <= Len(new)
  <2>1. at' = [pc |-> "new", i |-> i, j |-> 0, new |-> new]
    BY <1>1 DEF ToNew, Position
  <2>2. at'.pc = "new" /\ at'.i = i /\ at'.j = 0 /\ at'.new = new
    BY <2>1
  <2>3. AtOK'
    BY <2>1, <2>2, <1>0, <1>1 DEF AtOK, Position
  <2>4. Progress'
    BY <2>2 DEF Progress
  <2> QED
    BY <2>3, <2>4
<1>2. CASE ~(i <= Len(new))
  <2>1. at' = [pc |-> "store", i |-> 0, j |-> 0, new |-> new]
    BY <1>2 DEF ToNew, Position
  <2>2. at'.pc = "store" /\ at'.i = 0 /\ at'.j = 0 /\ at'.new = new
    BY <2>1
  <2>3. i - 1 = Len(new)
    BY <1>0, <1>2
  <2>4. AtOK'
    BY <2>1, <2>2 DEF AtOK, Position
  <2>5. Progress'
    BY <2>2, <2>3 DEF Progress
  <2> QED
    BY <2>4, <2>5
<1> QED
  BY <1>1, <1>2

\* After the loop over appenders_.
LEMMA ToRootOK ==
    ASSUME NEW new, LogSet(new), NEW i \in 1 .. Len(new), at' = ToRoot(new, i),
           Present(new, 1, i)', Built(new, i - 1)', lg' = loggers'[new[i].name],
           lg' \in 1 .. Len(heap'), Made(heap[lg], new[i], Used(new[i].appenders))'
    PROVE  AtOK' /\ Progress'
<1>0. Len(new) \in Nat
  BY LogSetIs
<1>1. CASE new[i].name = "root"
  <2>1. at' = [pc |-> "root", i |-> i, j |-> 0, new |-> new]
    BY <1>1 DEF ToRoot, Position
  <2>2. at'.pc = "root" /\ at'.i = i /\ at'.j = 0 /\ at'.new = new
    BY <2>1
  <2>3. AtOK'
    BY <2>1, <2>2, <1>0, <1>1 DEF AtOK, Position
  <2>4. Progress'
    BY <2>2 DEF Progress
  <2> QED
    BY <2>3, <2>4
<1>2. CASE new[i].name # "root"
  <2>1. at' = ToNew(new, i + 1)
    BY <1>2 DEF ToRoot
  <2>2. i + 1 \in 1 .. (Len(new) + 1) /\ (i + 1) - 1 = i
    BY <1>0
  <2>3. Built(new, i)'
    <3>1. \A k \in 1 .. i : k = i \/ k \in 1 .. (i - 1)
      BY <1>0
    <3> QED
      BY <3>1 DEF Built
  <2> QED
    BY <2>1, <2>2, <2>3, ToNewOK
<1> QED
  BY <1>1, <1>2

\* The head of the loop over appenders_, when the first j - 1 have been added.
LEMMA ToAppenderOK ==
    ASSUME NEW new, LogSet(new), NEW i \in 1 .. Len(new),
           NEW j \in 1 .. (Len(new[i].appenders) + 1), at' = ToAppender(new, i, j),
           Present(new, 1, i)', Built(new, i - 1)', lg' = loggers'[new[i].name],
           lg' \in 1 .. Len(heap'),
           Made(heap[lg], new[i], Kept(new[i].appenders, UsedTypes)[j - 1])'
    PROVE  AtOK' /\ Progress'
<1>0. Len(new) \in Nat /\ Len(new[i].appenders) \in Nat
  BY LogSetIs
<1>1. CASE j <= Len(new[i].appenders)
  <2>1. at' = [pc |-> "appender", i |-> i, j |-> j, new |-> new]
    BY <1>1 DEF ToAppender, Position
  <2>2. at'.pc = "appender" /\ at'.i = i /\ at'.j = j /\ at'.new = new
    BY <2>1
  <2>3. AtOK'
    BY <2>1, <2>2, <1>0, <1>1 DEF AtOK, Position
  <2>4. Progress'
    BY <2>2 DEF Progress
  <2> QED
    BY <2>3, <2>4
<1>2. CASE ~(j <= Len(new[i].appenders))
  <2>1. at' = ToRoot(new, i)
    BY <1>2 DEF ToAppender
  <2>2. j - 1 = Len(new[i].appenders)
    BY <1>0, <1>2
  <2>4. Made(heap[lg], new[i], Used(new[i].appenders))'
    BY <2>2 DEF Used
  <2> QED
    BY <2>1, <2>4, ToRootOK
<1> QED
  BY <1>1, <1>2

-----------------------------------------------------------------------------
(* The listener's steps.                                                   *)

\* What every step of the listener does to the threads that log.
LEMMA ReachesKeeps ==
    ASSUME Types1, ObjInv, NEW pc, Reaches(pc), Len(heap') \in Nat, Len(heap) <= Len(heap')
    PROVE  /\ threads' \in [Threads -> ThreadStates]
           /\ CalmInv'
           /\ ObjInv'
           /\ at.pc = pc
           /\ \A t \in Threads : /\ threads'[t].pc = threads[t].pc
                                 /\ threads'[t].via = threads[t].via
                                 /\ threads'[t].obj = threads[t].obj
                                 /\ threads'[t].out = threads[t].out
<1>1. /\ threads' = [t \in Threads |-> [threads[t] EXCEPT !.calm = FALSE]]
      /\ at.pc = pc
  BY DEF Reaches
<1>2. \A t \in Threads : threads[t] \in ThreadStates
  BY DEF Types1
<1>3. \A x \in ThreadStates : /\ [x EXCEPT !.calm = FALSE] \in ThreadStates
                              /\ [x EXCEPT !.calm = FALSE].calm = FALSE
                              /\ [x EXCEPT !.calm = FALSE].pc = x.pc
                              /\ [x EXCEPT !.calm = FALSE].via = x.via
                              /\ [x EXCEPT !.calm = FALSE].obj = x.obj
                              /\ [x EXCEPT !.calm = FALSE].out = x.out
  BY DEF ThreadStates
<1>4. \A t \in Threads : threads'[t] = [threads[t] EXCEPT !.calm = FALSE]
  BY <1>1
<1>5. threads' \in [Threads -> ThreadStates]
  BY <1>1, <1>2, <1>3
<1>6. \A t \in Threads : /\ threads'[t].calm = FALSE
                         /\ threads'[t].pc = threads[t].pc
                         /\ threads'[t].via = threads[t].via
                         /\ threads'[t].obj = threads[t].obj
                         /\ threads'[t].out = threads[t].out
  <2> SUFFICES ASSUME NEW t \in Threads
               PROVE  /\ threads'[t].calm = FALSE
                      /\ threads'[t].pc = threads[t].pc
                      /\ threads'[t].via = threads[t].via
                      /\ threads'[t].obj = threads[t].obj
                      /\ threads'[t].out = threads[t].out
    OBVIOUS
  <2>1. PICK x \in ThreadStates : x = threads[t]
    BY <1>2
  <2>2. threads'[t] = [x EXCEPT !.calm = FALSE]
    BY <1>4, <2>1
  <2> QED
    BY <1>3, <2>1, <2>2
<1>7. CalmInv'
  BY <1>6 DEF CalmInv, CalmOK
<1>8. ObjInv'
  <2> SUFFICES ASSUME NEW t \in Threads, threads'[t].pc \in {"name", "log"}
               PROVE  threads'[t].obj \in 1 .. Len(heap')
    BY DEF ObjInv, HasObj
  <2>1. threads[t].obj \in 1 .. Len(heap) /\ threads'[t].obj = threads[t].obj
    BY <1>6 DEF ObjInv, HasObj
  <2>2. Len(heap) \in Nat
    BY DEF Types1
  <2> QED
    BY <2>1, <2>2
<1> QED
  BY <1>1, <1>5, <1>6, <1>7, <1>8

\* DelLogger of an old name.
LEMMA DelOldKeeps ==
    ASSUME LInv, DelOld
    PROVE  LInv'
<1> USE DEF LInv
<1>1. PICK new, i, h : new = at.new /\ i = at.i /\ h = heap
  OBVIOUS
<1>2. /\ Reaches("del") /\ list' = list /\ torn' = torn
      /\ strays' = strays \ {logs[i].name}
      /\ loggers' = [loggers EXCEPT ![logs[i].name] = 0]
      /\ at' = ToDel(new, i + 1)
      /\ heap' = heap /\ root' = root /\ logs' = logs /\ lg' = lg
  BY <1>1 DEF DelOld, DelLogger, Does
<1>3. Len(heap) \in Nat /\ heap \in Seq(Objects)
  BY DEF Types1
<1>4. threads' \in [Threads -> ThreadStates] /\ CalmInv' /\ ObjInv' /\ list' = list
      /\ at.pc = "del"
  BY <1>2, <1>3, ReachesKeeps
<1>5. i \in 1 .. Len(logs) /\ LogSet(logs) /\ LogSet(new) /\ Len(logs) \in Nat
  BY <1>1, <1>4, LogSetIs DEF AtOK, Types2
<1>6. \A n \in Names : loggers'[n] = IF n = logs[i].name THEN 0 ELSE loggers[n]
  BY <1>2 DEF Types1
<1>7. Types1'
  <2>1. loggers' \in [Names -> 0 .. Len(heap)]
    <3>1. loggers \in [Names -> 0 .. Len(heap)] /\ 0 \in 0 .. Len(heap)
      BY <1>3 DEF Types1
    <3> QED
      BY <3>1, <1>2
  <2> QED
    BY <1>2, <1>4, <2>1 DEF Types1
<1>8. Types2'
  BY <1>2, <1>4, Zenon DEF Types2
<1>9. Named'
  BY <1>2, <1>6 DEF Named
<1>12. ASSUME torn PROVE OnlyStrays'
  <2>1. OnlyStrays
    BY <1>4, <1>12 DEF Progress
  <2> QED
    BY <1>2, <1>6, <2>1 DEF OnlyStrays
<1>10. ASSUME ~torn
       PROVE  \A n \in Names : loggers'[n] # 0 <=>
                n \in strays' \/ \E k \in (i + 1) .. Len(logs) : logs[k].name = n
  <2>1. Present(logs, i, Len(logs))
    BY <1>1, <1>4, <1>10 DEF Progress
  <2>2. ASSUME NEW n \in Names, loggers'[n] # 0, n \notin strays'
        PROVE  \E k \in (i + 1) .. Len(logs) : logs[k].name = n
    <3>0. n # logs[i].name /\ loggers[n] # 0 /\ n \notin strays
      BY <2>2, <1>2, <1>6
    <3>1. PICK k \in i .. Len(logs) : logs[k].name = n
      BY <2>1, <3>0 DEF Present
    <3>2. k # i
      BY <3>0, <3>1
    <3>3. k \in (i + 1) .. Len(logs)
      BY <3>2, <1>5
    <3> QED
      BY <3>1, <3>3
  <2>3. ASSUME NEW n \in Names, NEW k \in (i + 1) .. Len(logs), logs[k].name = n
        PROVE  loggers'[n] # 0
    <3>1. k \in i .. Len(logs) /\ k \in 1 .. Len(logs) /\ k # i
      BY <1>5
    <3>2. n # logs[i].name
      BY <2>3, <3>1, <1>5, LogSetIs
    <3>3. loggers[n] # 0
      BY <2>1, <2>3, <3>1 DEF Present
    <3> QED
      BY <3>2, <3>3, <1>6
  <2>4. ASSUME NEW n \in Names, n \in strays' PROVE loggers'[n] # 0
    <3>1. n \in strays /\ n # logs[i].name
      BY <2>4, <1>2
    <3>2. loggers[n] # 0
      BY <2>1, <3>1 DEF Present
    <3> QED
      BY <3>1, <3>2, <1>6
  <2> QED
    BY <2>2, <2>3, <2>4
<1>11. AtOK' /\ Progress'
  <2>1. CASE i + 1 <= Len(logs)
    <3>1. at' = [pc |-> "del", i |-> i + 1, j |-> 0, new |-> new]
      BY <1>2, <2>1 DEF ToDel, Position
    <3>2. at'.pc = "del" /\ at'.i = i + 1 /\ at'.j = 0 /\ at'.new = new /\ i + 1 # 1
      BY <3>1, <1>5
    <3>3. AtOK'
      BY <3>1, <3>2, <1>2, <1>5, <2>1 DEF AtOK, Position
    <3>4. ~torn => Present(logs, i + 1, Len(logs))'
      BY <1>2, <1>10, <1>1 DEF Present
    <3>5. (at'.pc = "del") /\ (~torn => Present(logs, at.i, Len(logs))')
      BY <3>2, <3>4 DEF Present
    <3>6. Progress'
      BY <3>2, <3>5, <1>2, <1>12 DEF Progress
    <3> QED
      BY <3>3, <3>6
  <2>2. CASE ~(i + 1 <= Len(logs))
    <3>1. at' = ToNew(new, 1)
      BY <1>2, <2>2 DEF ToDel
    <3>2. Present(new, 1, 1 - 1)'
      <4>1. \A n \in Names : loggers'[n] # 0 <=> n \in strays'
        <5>1. ASSUME torn PROVE \A n \in Names : loggers'[n] # 0 <=> n \in strays'
          BY <5>1, <1>12 DEF OnlyStrays
        <5>2. ASSUME ~torn PROVE \A n \in Names : loggers'[n] # 0 <=> n \in strays'
          <6>1. \A k \in (i + 1) .. Len(logs) : FALSE
            BY <2>2, <1>5
          <6> QED
            BY <5>2, <6>1, <1>10
        <5> QED
          BY <5>1, <5>2
      <4> QED
        BY <4>1 DEF Present
    <3>3. Built(new, 1 - 1)'
      BY DEF Built
    <3>4. 1 \in 1 .. (Len(new) + 1)
      BY <1>5, LogSetIs
    <3> QED
      BY <3>1, <3>2, <3>3, <3>4, <1>5, ToNewOK
  <2> QED
    BY <2>1, <2>2
<1> QED
  BY <1>4, <1>7, <1>8, <1>9, <1>11

\* NewLogger and GetLogger of a new name, which is not there or a stray.
LEMMA AddNewKeeps ==
    ASSUME LInv, AddNew
    PROVE  LInv'
<1> USE DEF LInv
<1>1. PICK new, i, name : new = at.new /\ i = at.i /\ name = new[i].name
  OBVIOUS
<1>2. /\ Reaches("new") /\ list' = list /\ torn' = torn /\ strays' = strays
      /\ NewLogger(name) /\ lg' = loggers'[name]
      /\ at' = [pc |-> "level", i |-> i, j |-> 0, new |-> new]
      /\ root' = root /\ logs' = logs
  BY <1>1 DEF AddNew, Position, Does
<1>3. Len(heap) \in Nat /\ heap \in Seq(Objects) /\ loggers \in [Names -> 0 .. Len(heap)]
  BY DEF Types1
<1>4. at.pc = "new"
  BY <1>2 DEF Reaches
<1>5. /\ i \in 1 .. Len(new) /\ LogSet(new) /\ Len(new) \in Nat /\ name \in Names
      /\ \A k \in 1 .. Len(new) : new[k].name \in Names /\ (new[k].name = name => k = i)
  BY <1>1, <1>4, LogSetIs DEF AtOK
<1>6. Present(new, 1, i - 1) /\ Built(new, i - 1)
  BY <1>1, <1>4 DEF Progress
<1>24. \A n \in Names : loggers[n] # 0 => loggers[n] \in 1 .. Len(heap)
  BY <1>3
<1>25. CASE loggers[name] # 0
  <2>1. heap' = heap /\ loggers' = loggers
    BY <1>2, <1>25 DEF NewLogger
  <2>2. name \in strays
    <3>1. \A k \in 1 .. (i - 1) : k \in 1 .. Len(new) /\ k # i
      BY <1>5
    <3> QED
      BY <1>5, <1>6, <1>25, <3>1 DEF Present
  <2>3. threads' \in [Threads -> ThreadStates] /\ CalmInv' /\ ObjInv'
    BY <1>2, <1>3, <2>1, ReachesKeeps
  <2>4. Types1' /\ Types2' /\ Named'
    BY <1>2, <2>1, <2>3 DEF Types1, Types2, Named
  <2>5. /\ at'.pc = "level" /\ at'.i = i /\ at'.j = 0 /\ at'.new = new
        /\ at' = Position(at'.pc, at'.i, at'.j, at'.new)
    BY <1>2 DEF Position
  <2>6. lg' = loggers[name] /\ lg' \in 1 .. Len(heap')
    BY <1>2, <1>5, <1>24, <1>25, <2>1
  <2>7. AtOK'
    BY <1>5, <2>5, <2>6 DEF AtOK
  <2>8. Built(new, i - 1)'
    BY <1>2, <1>6, <2>1 DEF Built, Made
  <2>9. Present(new, 1, i)'
    <3>1. \A k \in 1 .. i : k = i \/ k \in 1 .. (i - 1)
      BY <1>5
    <3>2. \A k \in 1 .. (i - 1) : k \in 1 .. i
      BY <1>5
    <3>3. ASSUME NEW n \in Names
          PROVE  loggers[n] # 0 <=> n \in strays \/ \E k \in 1 .. i : new[k].name = n
      BY <1>1, <1>6, <2>2, <3>1, <3>2, Zenon DEF Present
    <3> QED
      BY <1>2, <2>1, <3>3 DEF Present
  <2>10. Progress'
    <3>1. at'.new[at'.i].name \in strays'
      BY <1>1, <1>2, <2>2, <2>5
    <3>2. lg' = loggers'[new[i].name]
      BY <1>1, <1>2
    <3> QED
      BY <2>5, <2>8, <2>9, <3>1, <3>2 DEF Progress
  <2> QED
    BY <2>3, <2>4, <2>7, <2>10
<1>26. SUFFICES ASSUME loggers[name] = 0 PROVE LInv'
  BY <1>25
<1>7. loggers[name] = 0 /\ name \notin strays
  BY <1>5, <1>6, <1>26 DEF Present
<1>8. PICK o : o = [name |-> name, max |-> 1, appenders |-> <<>>]
  OBVIOUS
<1>9. /\ heap' = Append(heap, o)
      /\ loggers' = [loggers EXCEPT ![name] = Len(heap) + 1]
  BY <1>2, <1>7, <1>8 DEF NewLogger
<1>10. o \in Objects /\ o.name = name /\ o.appenders = <<>>
  BY <1>5, <1>8 DEF Objects
<1>11. /\ heap' \in Seq(Objects) /\ Len(heap') = Len(heap) + 1
       /\ heap'[Len(heap) + 1] = o
       /\ \A x \in 1 .. Len(heap) : heap'[x] = heap[x]
  BY <1>3, <1>9, <1>10
<1>12. \A n \in Names : loggers'[n] = IF n = name THEN Len(heap) + 1 ELSE loggers[n]
  BY <1>3, <1>9
<1>13. threads' \in [Threads -> ThreadStates] /\ CalmInv' /\ ObjInv' /\ list' = list
  BY <1>2, <1>3, <1>11, ReachesKeeps
<1>14. Types1'
  <2>1. loggers' \in [Names -> 0 .. Len(heap')]
    <3>1. Len(heap) + 1 \in 0 .. Len(heap') /\ \A x \in 0 .. Len(heap) : x \in 0 .. Len(heap')
      BY <1>3, <1>11
    <3>2. loggers \in [Names -> 0 .. Len(heap')]
      BY <3>1, <1>3
    <3> QED
      BY <3>1, <3>2, <1>9
  <2>2. root' \in 1 .. Len(heap')
    BY <1>2, <1>3, <1>11 DEF Types1
  <2> QED
    BY <1>11, <1>13, <2>1, <2>2 DEF Types1
<1>15. Types2'
  BY <1>2, <1>13 DEF Types2
<1>16. \A n \in Names : loggers[n] # 0 => loggers[n] \in 1 .. Len(heap)
  BY <1>3
<1>17. Named'
  BY <1>10, <1>11, <1>12, <1>16 DEF Named
<1>18. /\ at'.pc = "level" /\ at'.i = i /\ at'.j = 0 /\ at'.new = new
       /\ at' = Position(at'.pc, at'.i, at'.j, at'.new)
  BY <1>2 DEF Position
<1>19. lg' = Len(heap) + 1 /\ lg' \in 1 .. Len(heap')
  BY <1>2, <1>3, <1>5, <1>11, <1>12
<1>20. AtOK'
  BY <1>5, <1>18, <1>19 DEF AtOK
<1>21. Built(new, i - 1)'
  <2> SUFFICES ASSUME NEW k \in 1 .. (i - 1)
               PROVE  Made(heap[loggers[new[k].name]], new[k], Used(new[k].appenders))'
    BY DEF Built
  <2>1. k \in 1 .. Len(new) /\ k # i
    BY <1>5
  <2>2. new[k].name \in Names /\ new[k].name # name
    BY <1>5, <2>1
  <2>3. loggers[new[k].name] # 0
    BY <1>6, <2>2, Zenon DEF Present
  <2>4. loggers'[new[k].name] = loggers[new[k].name]
    BY <1>12, <2>2
  <2>5. Made(heap[loggers[new[k].name]], new[k], Used(new[k].appenders))
    BY <1>6 DEF Built
  <2>6. heap'[loggers'[new[k].name]] = heap[loggers[new[k].name]]
    BY <1>11, <1>16, <2>2, <2>3, <2>4
  <2> QED
    BY <1>2, <2>5, <2>6 DEF Made
<1>22. Present(new, 1, i)'
  <2>1. \A k \in 1 .. i : k = i \/ k \in 1 .. (i - 1)
    BY <1>5
  <2>2. i \in 1 .. i /\ \A k \in 1 .. (i - 1) : k \in 1 .. i
    BY <1>5
  <2>3. Len(heap) + 1 # 0
    BY <1>3
  <2>4. \A n \in Names :
          loggers'[n] # 0 <=> n \in strays \/ \E k \in 1 .. i : new[k].name = n
    BY <1>1, <1>6, <1>12, <2>1, <2>2, <2>3 DEF Present
  <2> QED
    BY <1>2, <2>4 DEF Present
<1>23. Progress'
  BY <1>1, <1>2, <1>10, <1>11, <1>18, <1>19, <1>21, <1>22 DEF Progress
<1> QED
  BY <1>13, <1>14, <1>15, <1>17, <1>20, <1>23

\* A step that changes the object lg only, and not its name.
LEMMA ChangeOne ==
    ASSUME LInv, at.pc \in {"level", "appender"}, loggers' = loggers, lg' = lg,
           strays' = strays,
           NEW new, new = at.new, NEW i, i = at.i,
           heap' \in Seq(Objects), Len(heap') = Len(heap), heap'[lg].name = heap[lg].name,
           \A x \in 1 .. Len(heap) : x # lg => heap'[x] = heap[x]
    PROVE  /\ LogSet(new) /\ i \in 1 .. Len(new)
           /\ lg \in 1 .. Len(heap) /\ lg = loggers[new[i].name]
           /\ heap[lg].name = new[i].name
           /\ Named' /\ Present(new, 1, i)' /\ Built(new, i - 1)'
<1> USE DEF LInv
<1>1. LogSet(new) /\ i \in 1 .. Len(new) /\ lg \in 1 .. Len(heap) /\ Len(new) \in Nat
  BY LogSetIs DEF AtOK
<1>2. lg = loggers[new[i].name] /\ Present(new, 1, i) /\ Built(new, i - 1)
  BY DEF Progress
<1>3. \A k \in 1 .. Len(new) : new[k].name \in Names /\ (new[k].name = new[i].name => k = i)
  BY <1>1, LogSetIs, SMTT(40)
<1>4. heap[lg].name = new[i].name
  <2>1. loggers[new[i].name] # 0
    BY <1>1, <1>2
  <2> QED
    BY <1>1, <1>2, <1>3, <2>1, SMTT(40) DEF Named
<1>5. \A n \in Names : loggers[n] # 0 => loggers[n] \in 1 .. Len(heap)
  BY DEF Types1
<1>6. Named'
  <2> SUFFICES ASSUME NEW n \in Names, loggers[n] # 0 PROVE heap'[loggers[n]].name = n
    BY DEF Named
  <2>1. heap[loggers[n]].name = n /\ loggers[n] \in 1 .. Len(heap)
    BY <1>5 DEF Named
  <2>2. CASE loggers[n] = lg
    BY <2>1, <2>2
  <2>3. CASE loggers[n] # lg
    BY <2>1, <2>3, SMTT(40)
  <2> QED
    BY <2>2, <2>3
<1>7. Present(new, 1, i)'
  BY <1>2 DEF Present
<1>8. Built(new, i - 1)'
  <2> SUFFICES ASSUME NEW k \in 1 .. (i - 1)
               PROVE  Made(heap[loggers[new[k].name]], new[k], Used(new[k].appenders))'
    BY DEF Built
  <2>1. k \in 1 .. Len(new) /\ k # i /\ k \in 1 .. i
    BY <1>1, SMTT(40)
  <2>2. loggers[new[k].name] # 0
    BY <1>2, <1>3, <2>1 DEF Present
  <2>3. heap[loggers[new[k].name]].name = new[k].name /\ loggers[new[k].name] \in 1 .. Len(heap)
    BY <1>3, <1>5, <2>1, <2>2 DEF Named
  <2>4. loggers[new[k].name] # lg
    BY <1>3, <1>4, <2>1, <2>3, SMTT(40)
  <2>5. Made(heap[loggers[new[k].name]], new[k], Used(new[k].appenders))
    BY <1>2 DEF Built
  <2>6. heap'[loggers'[new[k].name]] = heap[loggers[new[k].name]]
    BY <2>3, <2>4
  <2> QED
    BY <2>5, <2>6 DEF Made
<1> QED
  BY <1>1, <1>2, <1>4, <1>6, <1>7, <1>8

\* SetMaxLevel.
LEMMA SetMaxLevelKeeps ==
    ASSUME LInv, SetMaxLevel
    PROVE  LInv'
<1> USE DEF LInv
<1>1. PICK new, i, level, o : new = at.new /\ i = at.i /\ level = new[i].level
                              /\ o = [heap[lg] EXCEPT !.max = level]
  OBVIOUS
<1>2. /\ Reaches("level") /\ list' = list /\ torn' = torn /\ strays' = strays
      /\ heap' = [heap EXCEPT ![lg] = o]
      /\ at' = ToAppender(new, i, 1)
      /\ loggers' = loggers /\ root' = root /\ logs' = logs /\ lg' = lg
  BY <1>1 DEF SetMaxLevel, Does
<1>3. Len(heap) \in Nat /\ heap \in Seq(Objects)
  BY DEF Types1
<1>4. at.pc = "level"
  BY <1>2 DEF Reaches
<1>5. lg \in 1 .. Len(heap) /\ heap[lg] \in Objects /\ level \in 0 .. 5
      /\ (new[i].name \notin strays => heap[lg].appenders = <<>>)
  BY <1>1, <1>3, <1>4, LogSetIs DEF AtOK, Progress
<1>6. /\ o \in Objects
      /\ o.name = heap[lg].name /\ o.max = level /\ o.appenders = heap[lg].appenders
  BY <1>1, <1>5 DEF Objects
<1>7. /\ heap' \in Seq(Objects) /\ Len(heap') = Len(heap)
      /\ heap'[lg] = o
      /\ \A x \in 1 .. Len(heap) : x # lg => heap'[x] = heap[x]
  BY <1>2, <1>3, <1>5, <1>6
<1>8. o.name = heap[lg].name
  BY <1>6
<1>9. /\ LogSet(new) /\ i \in 1 .. Len(new)
      /\ lg \in 1 .. Len(heap) /\ lg = loggers[new[i].name]
      /\ heap[lg].name = new[i].name
      /\ Named' /\ Present(new, 1, i)' /\ Built(new, i - 1)'
  BY <1>1, <1>2, <1>4, <1>7, <1>8, ChangeOne
<1>10. threads' \in [Threads -> ThreadStates] /\ CalmInv' /\ ObjInv' /\ list' = list
  BY <1>2, <1>3, <1>7, ReachesKeeps
<1>11. Types1' /\ Types2'
  BY <1>2, <1>7, <1>10 DEF Types1, Types2
<1>12. AtOK' /\ Progress'
  <2>1. Len(new[i].appenders) \in Nat
    BY <1>9, LogSetIs
  <2>2. Kept(new[i].appenders, UsedTypes)[1 - 1] = <<>>
    BY <2>1, KeptIs
  <2>3. heap'[lg'] = o
    BY <1>2, <1>7, SMTT(40)
  <2>4. Made(heap[lg], new[i], Kept(new[i].appenders, UsedTypes)[1 - 1])'
    BY <1>1, <1>2, <1>5, <1>6, <1>9, <2>2, <2>3 DEF Made
  <2>5. 1 \in 1 .. (Len(new[i].appenders) + 1)
    BY <2>1
  <2> QED
    BY <1>2, <1>7, <1>9, <2>4, <2>5, ToAppenderOK
<1> QED
  BY <1>9, <1>10, <1>11, <1>12

\* AddAppender, or the appender that is not used.
LEMMA AddAppenderKeeps ==
    ASSUME LInv, AddAppender
    PROVE  LInv'
<1> USE DEF LInv
<1>1. PICK new, i, j, apps, o :
        /\ new = at.new /\ i = at.i /\ j = at.j /\ apps = new[i].appenders
        /\ o = IF apps[j] \in UsedTypes
               THEN [heap[lg] EXCEPT !.appenders = Append(@, apps[j])] ELSE heap[lg]
  OBVIOUS
<1>2. /\ Reaches("appender") /\ list' = list /\ torn' = torn /\ strays' = strays
      /\ heap' = IF apps[j] \in UsedTypes
                 THEN [heap EXCEPT ![lg] = [heap[lg] EXCEPT !.appenders = Append(@, apps[j])]]
                 ELSE heap
      /\ at' = ToAppender(new, i, j + 1)
      /\ loggers' = loggers /\ root' = root /\ logs' = logs /\ lg' = lg
  BY <1>1 DEF AddAppender, Does
<1>3. Len(heap) \in Nat /\ heap \in Seq(Objects)
  BY DEF Types1
<1>4. at.pc = "appender"
  BY <1>2 DEF Reaches
<1>5. /\ lg \in 1 .. Len(heap) /\ heap[lg] \in Objects
      /\ LogSet(new) /\ i \in 1 .. Len(new)
      /\ j \in 1 .. Len(apps) /\ apps \in Seq(Types) /\ Len(apps) \in Nat
      /\ Made(heap[lg], new[i], Kept(apps, UsedTypes)[j - 1])
  BY <1>1, <1>3, <1>4, LogSetIs DEF AtOK, Progress
<1>6. apps[j] \in Types /\ j \in 0 .. Len(apps) /\ j # 0
  BY <1>5
<1>7. Kept(apps, UsedTypes)[j] =
        IF apps[j] \in UsedTypes THEN Append(Kept(apps, UsedTypes)[j - 1], apps[j])
        ELSE Kept(apps, UsedTypes)[j - 1]
  BY <1>5, <1>6, KeptIs, SMTT(40)
<1>8. /\ o \in Objects /\ o.name = heap[lg].name /\ o.max = heap[lg].max
      /\ apps[j] \in UsedTypes => o.appenders = Append(heap[lg].appenders, apps[j])
      /\ apps[j] \notin UsedTypes => o.appenders = heap[lg].appenders
  <2>1. PICK x \in Objects, a \in Types : x = heap[lg] /\ a = apps[j]
    BY <1>5, <1>6
  <2>2. /\ [x EXCEPT !.appenders = Append(@, a)] \in Objects
        /\ [x EXCEPT !.appenders = Append(@, a)].name = x.name
        /\ [x EXCEPT !.appenders = Append(@, a)].max = x.max
        /\ [x EXCEPT !.appenders = Append(@, a)].appenders = Append(x.appenders, a)
    BY SMTT(40) DEF Objects
  <2> QED
    BY <1>1, <2>1, <2>2
<1>9. Made(o, new[i], Kept(apps, UsedTypes)[j])
  <2>1. PICK r : r = heap[lg].appenders /\ r \in Seq(Types)
    BY <1>5 DEF Objects
  <2>2. Append(r, apps[j]) # <<>>
    BY <1>6, <2>1
  <2> QED
    BY <1>5, <1>7, <1>8, <2>1, <2>2 DEF Made
<1>11. heap' = [heap EXCEPT ![lg] = o]
  <2>1. CASE apps[j] \in UsedTypes
    BY <1>1, <1>2, <2>1
  <2>2. CASE apps[j] \notin UsedTypes
    BY <1>1, <1>2, <1>3, <1>5, <2>2
  <2> QED
    BY <2>1, <2>2
<1>12. /\ heap' \in Seq(Objects) /\ Len(heap') = Len(heap)
       /\ heap'[lg] = o
       /\ \A x \in 1 .. Len(heap) : x # lg => heap'[x] = heap[x]
  BY <1>3, <1>5, <1>8, <1>11
<1>13. o.name = heap[lg].name
  BY <1>8
<1>14. /\ lg \in 1 .. Len(heap) /\ lg = loggers[new[i].name]
       /\ Named' /\ Present(new, 1, i)' /\ Built(new, i - 1)'
  <2>1. heap'[lg].name = heap[lg].name
    BY <1>12, <1>13, Zenon
  <2>2. new = at.new /\ i = at.i /\ at.pc \in {"level", "appender"}
    BY <1>1, <1>4
  <2>3. LInv
    OBVIOUS
  <2> HIDE DEF LInv
  <2> QED
    BY <1>2, <1>12, <2>1, <2>2, <2>3, ChangeOne
<1>15. threads' \in [Threads -> ThreadStates] /\ CalmInv' /\ ObjInv' /\ list' = list
  BY <1>2, <1>3, <1>12, ReachesKeeps
<1>16. Types1' /\ Types2'
  BY <1>2, <1>12, <1>15, SMTT(40) DEF Types1, Types2
<1>17. AtOK' /\ Progress'
  <2>1. (j + 1) - 1 = j /\ j + 1 \in 1 .. (Len(apps) + 1)
    BY <1>5, SMTT(40)
  <2>2. heap'[lg'] = o
    BY <1>2, <1>12
  <2>3. Made(heap[lg], new[i], Kept(new[i].appenders, UsedTypes)[(j + 1) - 1])'
    BY <1>1, <1>2, <1>9, <2>1, <2>2 DEF Made
  <2> QED
    BY <1>1, <1>2, <1>5, <1>12, <1>14, <2>1, <2>3, ToAppenderOK
<1> QED
  BY <1>14, <1>15, <1>16, <1>17

\* The constructor of an appender throws.
LEMMA AppenderThrowsKeeps ==
    ASSUME LInv, AppenderThrows
    PROVE  LInv'
<1> USE DEF LInv
<1>1. PICK new, i : new = at.new /\ i = at.i
  OBVIOUS
<1>2. /\ Reaches("appender") /\ torn' = TRUE /\ list' = <<>>
      /\ strays' = strays \cup {new[k].name : k \in 1 .. i}
      /\ at' = [pc |-> "idle", i |-> 0, j |-> 0, new |-> <<>>]
      /\ loggers' = loggers /\ heap' = heap /\ root' = root /\ logs' = logs
  BY <1>1 DEF AppenderThrows, Resting, Position
<1>3. Len(heap) \in Nat
  BY DEF Types1
<1>4. threads' \in [Threads -> ThreadStates] /\ CalmInv' /\ ObjInv' /\ at.pc = "appender"
  BY <1>2, <1>3, ReachesKeeps
<1>5. Present(new, 1, i) /\ LogSet(new) /\ i \in 1 .. Len(new) /\ Len(new) \in Nat
  BY <1>1, <1>4, LogSetIs DEF AtOK, Progress
<1>6. \A k \in 1 .. i : new[k].name \in Names
  <2>1. \A k \in 1 .. i : k \in 1 .. Len(new)
    BY <1>5
  <2> QED
    BY <1>5, <2>1, LogSetIs
<1>7. Types1' /\ Named'
  BY <1>2, <1>4 DEF Types1, Named
<1>8. Types2'
  <2>1. strays' \in SUBSET Names
    BY <1>2, <1>6 DEF Types2
  <2>2. list' \in Seq(Nodes)
    BY <1>2
  <2> QED
    BY <1>2, <2>1, <2>2 DEF Types2
<1>9. at'.pc = "idle" /\ at'.i = 0 /\ at'.j = 0 /\ at'.new = <<>>
      /\ at' = Position(at'.pc, at'.i, at'.j, at'.new)
  BY <1>2 DEF Position
<1>10. LogSet(<<>>)
  BY DEF LogSet
<1>11. AtOK'
  BY <1>9, <1>10 DEF AtOK
<1>12. OnlyStrays'
  <2>1. \A n : n \in strays' <=> n \in strays \/ \E k \in 1 .. i : new[k].name = n
    BY <1>2
  <2> QED
    BY <1>2, <1>5, <2>1, Zenon DEF OnlyStrays, Present
<1>13. Progress'
  BY <1>2, <1>9, <1>12 DEF Progress
<1> QED
  BY <1>4, <1>7, <1>8, <1>11, <1>13

\* SetRoot.
LEMMA SetRootKeeps ==
    ASSUME LInv, SetRoot
    PROVE  LInv'
<1> USE DEF LInv
<1>1. PICK new, i : new = at.new /\ i = at.i
  OBVIOUS
<1>2. /\ Reaches("root") /\ list' = list /\ torn' = torn /\ strays' = strays
      /\ root' = lg
      /\ at' = ToNew(new, i + 1)
      /\ loggers' = loggers /\ heap' = heap /\ logs' = logs /\ lg' = lg
  BY <1>1 DEF SetRoot, Does
<1>3. Len(heap) \in Nat
  BY DEF Types1
<1>4. threads' \in [Threads -> ThreadStates] /\ CalmInv' /\ ObjInv' /\ list' = list
      /\ at.pc = "root"
  BY <1>2, <1>3, ReachesKeeps
<1>5. /\ lg \in 1 .. Len(heap) /\ LogSet(new) /\ i \in 1 .. Len(new) /\ Len(new) \in Nat
      /\ Present(new, 1, i) /\ Built(new, i - 1) /\ lg = loggers[new[i].name]
      /\ Made(heap[lg], new[i], Used(new[i].appenders))
  BY <1>1, <1>4, LogSetIs DEF AtOK, Progress
<1>6. Types1' /\ Types2' /\ Named'
  BY <1>2, <1>4, <1>5 DEF Types1, Types2, Named
<1>7. i + 1 \in 1 .. (Len(new) + 1) /\ (i + 1) - 1 = i
      /\ \A k \in 1 .. i : k = i \/ k \in 1 .. (i - 1)
  BY <1>5
<1>8. Present(new, 1, (i + 1) - 1)' /\ Built(new, (i + 1) - 1)'
  BY <1>2, <1>5, <1>7 DEF Present, Built, Made
<1>9. AtOK' /\ Progress'
  BY <1>2, <1>5, <1>7, <1>8, ToNewOK
<1> QED
  BY <1>4, <1>6, <1>9

\* The store of the new value.
LEMMA StoreKeeps ==
    ASSUME LInv, Store
    PROVE  LInv'
<1> USE DEF LInv
<1>1. PICK new : new = at.new
  OBVIOUS
<1>2. /\ Reaches("store") /\ list' = list /\ torn' = FALSE /\ strays' = strays
      /\ logs' = new
      /\ at' = [pc |-> "idle", i |-> 0, j |-> 0, new |-> <<>>]
      /\ loggers' = loggers /\ heap' = heap /\ root' = root
  BY <1>1 DEF Store, Resting, Position, Does
<1>3. Len(heap) \in Nat
  BY DEF Types1
<1>4. threads' \in [Threads -> ThreadStates] /\ CalmInv' /\ ObjInv' /\ list' = list
      /\ at.pc = "store"
  BY <1>2, <1>3, ReachesKeeps
<1>5. LogSet(new) /\ Present(new, 1, Len(new)) /\ Built(new, Len(new))
  BY <1>1, <1>4 DEF AtOK, Progress
<1>6. Types1' /\ Types2' /\ Named'
  BY <1>2, <1>4, <1>5 DEF Types1, Types2, Named
<1>7. at'.pc = "idle" /\ at'.i = 0 /\ at'.j = 0 /\ at'.new = <<>>
      /\ at' = Position(at'.pc, at'.i, at'.j, at'.new)
  BY <1>2 DEF Position
<1>8. LogSet(<<>>)
  BY DEF LogSet
<1>9. AtOK'
  BY <1>7, <1>8 DEF AtOK
<1>10. Present(logs, 1, Len(logs))' /\ Built(logs, Len(logs))'
  BY <1>2, <1>5 DEF Present, Built, Made
<1>11. Progress'
  BY <1>2, <1>7, <1>10 DEF Progress
<1> QED
  BY <1>4, <1>6, <1>9, <1>11

-----------------------------------------------------------------------------
(* The other steps.                                                        *)

\* A step that leaves the loggers, their configuration and the threads alone.
LEMMA QuietKeeps ==
    ASSUME LInv, UNCHANGED <<logVars, logs, at, lg, torn, strays>>, list' \in Seq(Nodes)
    PROVE  LInv'
<1>1. /\ heap' = heap /\ loggers' = loggers /\ root' = root /\ threads' = threads
      /\ logs' = logs /\ at' = at /\ lg' = lg /\ torn' = torn /\ strays' = strays
  BY DEF logVars
<1>2. Types1' /\ Types2' /\ Named'
  BY <1>1 DEF LInv, Types1, Types2, Named
<1>3. AtOK'
  BY <1>1, SMTT(40) DEF LInv, AtOK, Position
<1>4. Progress'
  BY <1>1 DEF LInv, Progress, Present, Built, Made, OnlyStrays
<1>5. CalmInv' /\ ObjInv'
  BY <1>1 DEF LInv, CalmInv, CalmOK, Undisturbed, ObjInv, HasObj
<1> QED
  BY <1>2, <1>3, <1>4, <1>5 DEF LInv

\* SetValue of the loggers' configuration, up to the first step of its listener.
LEMMA SetLogsKeeps ==
    ASSUME LInv, at.pc = "idle", NEW new, LogSet(new), SetLogs(new),
           UNCHANGED <<logVars, logs, lg, torn, strays>>, list' \in Seq(Nodes)
    PROVE  LInv'
<1>1. /\ heap' = heap /\ loggers' = loggers /\ root' = root /\ threads' = threads
      /\ logs' = logs /\ lg' = lg /\ torn' = torn /\ strays' = strays
  BY DEF logVars
<1>2. Types1' /\ Types2' /\ Named' /\ ObjInv'
  BY <1>1 DEF LInv, Types1, Types2, Named, ObjInv, HasObj
<1>7. ASSUME ~torn
      PROVE  /\ Present(logs, 1, Len(logs))
             /\ Present(logs, 1, Len(logs))' /\ Built(logs, Len(logs))'
  <2>1. Present(logs, 1, Len(logs)) /\ Built(logs, Len(logs))
    BY <1>7 DEF LInv, Progress
  <2>2. Present(logs, 1, Len(logs))'
    BY <1>1, <2>1 DEF Present
  <2>3. Built(logs, Len(logs))'
    BY <1>1, <2>1 DEF Built, Made
  <2> QED
    BY <2>1, <2>2, <2>3
<1>8. ASSUME torn PROVE OnlyStrays /\ OnlyStrays'
  <2>1. OnlyStrays
    BY <1>8 DEF LInv, Progress
  <2> QED
    BY <1>1, <2>1 DEF OnlyStrays
<1>4. LogSet(logs) /\ Len(logs) \in Nat /\ logs \in Seq(Confs) /\ Len(new) \in Nat
  BY LogSetIs DEF LInv, Types2
<1>5. AtOK' /\ Progress' /\ Undisturbed'
  <2>1. CASE new = logs
    <3>1. at' = [pc |-> "idle", i |-> 0, j |-> 0, new |-> <<>>]
      BY <2>1 DEF SetLogs, Resting, Position
    <3>2. at'.pc = "idle" /\ at'.i = 0 /\ at'.j = 0 /\ at'.new = <<>>
          /\ at' = Position(at'.pc, at'.i, at'.j, at'.new)
      BY <3>1 DEF Position
    <3>3. LogSet(<<>>)
      BY DEF LogSet
    <3>4. AtOK'
      BY <3>2, <3>3 DEF AtOK
    <3>5. Progress'
      BY <3>2, <1>1, <1>7, <1>8 DEF Progress
    <3> QED
      BY <3>2, <3>4, <3>5 DEF Undisturbed
  <2>2. CASE new # logs /\ 1 <= Len(logs)
    <3>1. at' = [pc |-> "del", i |-> 1, j |-> 0, new |-> new]
      BY <2>2 DEF SetLogs, ToDel, Position
    <3>2. at'.pc = "del" /\ at'.i = 1 /\ at'.j = 0 /\ at'.new = new
          /\ at' = Position(at'.pc, at'.i, at'.j, at'.new)
      BY <3>1 DEF Position
    <3>3. AtOK'
      BY <3>2, <2>2, <1>1, <1>4 DEF AtOK
    <3>4. Progress'
      BY <3>2, <1>1, <1>7, <1>8 DEF Progress
    <3> QED
      BY <3>2, <3>3, <3>4 DEF Undisturbed
  <2>3. CASE new # logs /\ ~(1 <= Len(logs))
    <3>1. at' = ToNew(new, 1)
      BY <2>3 DEF SetLogs, ToDel
    <3>2. Len(logs) = 0
      BY <1>4, <2>3
    <3>3. logs = <<>>
      BY <1>4, <3>2
    <3>4. Present(new, 1, 1 - 1)'
      <4>1. \A n \in Names : loggers[n] # 0 <=> n \in strays
        <5>1. ASSUME torn PROVE \A n \in Names : loggers[n] # 0 <=> n \in strays
          BY <5>1, <1>8 DEF OnlyStrays
        <5>2. ASSUME ~torn PROVE \A n \in Names : loggers[n] # 0 <=> n \in strays
          BY <5>2, <1>7, <3>2 DEF Present
        <5> QED
          BY <5>1, <5>2
      <4> QED
        BY <4>1, <1>1 DEF Present
    <3>5. Built(new, 1 - 1)'
      BY DEF Built
    <3>6. AtOK' /\ Progress'
      BY <1>4, <3>1, <3>4, <3>5, ToNewOK
    <3> QED
      BY <3>3, <3>6, <1>1 DEF Undisturbed
  <2> QED
    BY <2>1, <2>2, <2>3
<1>6. CalmInv'
  BY <1>1, <1>5 DEF LInv, CalmInv, CalmOK
<1> QED
  BY <1>2, <1>5, <1>6 DEF LInv

\* LoadFromYaml and one turn of its loop.
LEMMA LoadKeeps ==
    ASSUME LInv, LoadNode \/ \E doc \in Docs : LoadFromYaml(doc)
    PROVE  LInv'
<1>1. ASSUME NEW doc \in Docs, LoadFromYaml(doc) PROVE LInv'
  <2>1. list' = YamlToList(doc) /\ UNCHANGED <<logVars, logs, at, lg, torn, strays>>
    BY <1>1 DEF LoadFromYaml
  <2> QED
    BY <2>1, YamlNodes, QuietKeeps
<1>2. CASE LoadNode
  <2>1. PICK n, outcome : n = Head(list) /\ outcome = NodeOutcome(n,
          {"logs"} \cup (IF port.type = "none" THEN {} ELSE {"port"}))
    OBVIOUS
  <2>2. /\ at.pc = "idle" /\ list # <<>>
        /\ list' = IF status' = "ok" THEN Tail(list) ELSE <<>>
        /\ IF outcome = "set" /\ n.key = "logs" THEN SetLogs(n.val) ELSE UNCHANGED at
        /\ UNCHANGED <<logVars, logs, lg, torn, strays>>
    BY <1>2, <2>1, Zenon DEF LoadNode
  <2>3. list \in Seq(Nodes)
    BY DEF LInv, Types2
  <2>4. n \in Nodes /\ list' \in Seq(Nodes)
    BY <2>1, <2>2, <2>3
  <2>5. CASE outcome = "set" /\ n.key = "logs"
    <3>1. SetLogs(n.val) /\ LogSet(n.val)
      BY <2>2, <2>4, <2>5, NodeLogSet
    <3> QED
      BY <2>2, <2>4, <3>1, SetLogsKeeps
  <2>6. CASE ~(outcome = "set" /\ n.key = "logs")
    <3>1. UNCHANGED at
      BY <2>2, <2>6
    <3> QED
      BY <2>2, <2>4, <3>1, QuietKeeps
  <2> QED
    BY <2>5, <2>6
<1> QED
  BY <1>1, <1>2

\* A step of one thread that logs.
LEMMA ThreadKeeps ==
    ASSUME LInv, UNCHANGED <<heap, loggers, root, cfgVars>>, NEW t \in Threads,
           NEW x \in ThreadStates, threads' = [threads EXCEPT ![t] = x],
           CalmOK(x), HasObj(x)
    PROVE  LInv'
<1>1. /\ heap' = heap /\ loggers' = loggers /\ root' = root
      /\ logs' = logs /\ at' = at /\ lg' = lg /\ list' = list
      /\ torn' = torn /\ strays' = strays
  BY DEF cfgVars
<1>2. threads \in [Threads -> ThreadStates]
  BY DEF LInv, Types1
<1>3. /\ threads' \in [Threads -> ThreadStates]
      /\ \A u \in Threads : threads'[u] = IF u = t THEN x ELSE threads[u]
  BY <1>2
<1>4. Types1' /\ Types2' /\ Named'
  BY <1>1, <1>3 DEF LInv, Types1, Types2, Named
<1>5. AtOK'
  BY <1>1, SMTT(40) DEF LInv, AtOK, Position
<1>6. Progress'
  BY <1>1 DEF LInv, Progress, Present, Built, Made, OnlyStrays
<1>7. \A u \in Threads : CalmOK(threads'[u]) /\ HasObj(threads'[u])
  BY <1>3 DEF LInv, CalmInv, ObjInv
<1>8. CalmInv'
  BY <1>1, <1>7 DEF CalmInv, CalmOK, Undisturbed
<1>9. ObjInv'
  BY <1>1, <1>7 DEF ObjInv, HasObj
<1> QED
  BY <1>4, <1>5, <1>6, <1>8, <1>9 DEF LInv

\* In a calm state the logger of a configured name is the one that was built.
LEMMA CalmLogger ==
    ASSUME LInv, Undisturbed, ~torn, NEW i \in 1 .. Len(logs)
    PROVE  /\ loggers[logs[i].name] # 0
           /\ Used(logs[i].appenders) # <<>> => heap[loggers[logs[i].name]].appenders # <<>>
           /\ logs[i].name # "GetRoot"
<1>1. LogSet(logs)
  BY DEF LInv, Types2
<1>2. logs # <<>> /\ Len(logs) \in Nat /\ logs[i].name \in Names
  BY <1>1, LogSetIs
<1>3. at.pc = "idle" \/ (at.pc = "del" /\ at.i = 1)
  BY <1>2 DEF Undisturbed
<1>4. Present(logs, 1, Len(logs)) /\ Built(logs, Len(logs))
  BY <1>3 DEF LInv, Progress
<1>5. loggers[logs[i].name] # 0
  BY <1>2, <1>4 DEF Present
<1>6. Made(heap[loggers[logs[i].name]], logs[i], Used(logs[i].appenders))
  BY <1>4 DEF Built
<1> QED
  BY <1>2, <1>5, <1>6, LogAssumption DEF Made

\* What a thread is after the end of the macro.
LEMMA EndsIs ==
    ASSUME LInv, NEW t \in Threads, NEW out, Ends(t, out),
           out \in {"thrown", "filtered", "lost", "written", "dropped"}
    PROVE  \E x \in ThreadStates :
             /\ threads' = [threads EXCEPT ![t] = x]
             /\ x.pc = "idle" /\ x.out = out
             /\ x.via = threads[t].via /\ x.calm = threads[t].calm
<1>1. PICK y : y = threads[t]
  OBVIOUS
<1>2. y \in ThreadStates /\ threads \in [Threads -> ThreadStates]
  BY <1>1 DEF LInv, Types1
<1>3. PICK x : x = [[y EXCEPT !.pc = "idle"] EXCEPT !.out = out]
  OBVIOUS
<1>4. x \in ThreadStates /\ x.pc = "idle" /\ x.out = out /\ x.via = y.via /\ x.calm = y.calm
  BY <1>2, <1>3 DEF ThreadStates
<1>5. threads' = [[threads EXCEPT ![t].pc = "idle"] EXCEPT ![t].out = out]
  BY DEF Ends
<1>6. PICK z : z = [threads EXCEPT ![t].pc = "idle"]
  OBVIOUS
<1>7. z[t] = [y EXCEPT !.pc = "idle"] /\ z = [threads EXCEPT ![t] = [y EXCEPT !.pc = "idle"]]
  BY <1>1, <1>2, <1>6
<1>8. threads' = [z EXCEPT ![t] = [z[t] EXCEPT !.out = out]]
  BY <1>5, <1>6
<1>9. threads' = [z EXCEPT ![t] = x]
  BY <1>3, <1>7, <1>8
<1>10. threads' = [threads EXCEPT ![t] = x]
  <2>1. PICK w : w = [y EXCEPT !.pc = "idle"]
    OBVIOUS
  <2>2. z = [threads EXCEPT ![t] = w]
    BY <1>7, <2>1
  <2> QED
    BY <1>2, <1>9, <2>2
<1> QED
  BY <1>1, <1>4, <1>10

\* The logger an expression gives: an object, or none for a name that is not there.
LEMMA EvaluatedIs ==
    ASSUME LInv, NEW via \in Vias
    PROVE  /\ Evaluated(via) \in 0 .. Len(heap) /\ Len(heap) \in Nat
           /\ via = "GetRoot" => Evaluated(via) = root /\ root # 0
           /\ via # "GetRoot" => Evaluated(via) = loggers[via]
BY DEF Evaluated, LInv, Types1, Vias

\* One evaluation of the macro's argument, or the write, by a thread.
LEMMA LogStepIs ==
    ASSUME LInv, NEW t \in Threads,
           \/ \E via \in Vias, level \in Levels : LogCheck(t, via, level, at.pc = "idle")
           \/ LogArgument(t)
           \/ LogWrite(t)
    PROVE  /\ UNCHANGED <<heap, loggers, root>>
           /\ \E x \in ThreadStates :
                /\ threads' = [threads EXCEPT ![t] = x]
                /\ CalmOK(x) /\ HasObj(x) /\ (RInv => RootOK(x))
<1>0. PICK y : y = threads[t]
  OBVIOUS
<1>1. /\ y \in ThreadStates /\ threads \in [Threads -> ThreadStates]
      /\ CalmOK(y) /\ HasObj(y) /\ (RInv => RootOK(y))
  BY <1>0 DEF LInv, Types1, CalmInv, ObjInv, RInv
<1>2. y.via \in Vias
  BY <1>1 DEF ThreadStates
<1>3. ASSUME NEW via \in Vias, NEW level \in Levels, LogCheck(t, via, level, at.pc = "idle")
      PROVE  /\ UNCHANGED <<heap, loggers, root>>
             /\ \E x \in ThreadStates :
                  /\ threads' = [threads EXCEPT ![t] = x]
                  /\ CalmOK(x) /\ HasObj(x) /\ (RInv => RootOK(x))
  <2>1. PICK obj, quiet, start : obj = Evaluated(via) /\ quiet = (at.pc = "idle")
          /\ start = [pc |-> "idle", via |-> via, level |-> level, obj |-> 0,
                      calm |-> quiet, out |-> "none"]
    OBVIOUS
  <2>2. start = [Idle EXCEPT !.via = via, !.level = level, !.calm = (at.pc = "idle")]
    <3>1. start = [pc |-> "idle", via |-> via, level |-> level, obj |-> 0,
                   calm |-> quiet, out |-> "none"]
      BY <2>1
    <3>2. [[[Idle EXCEPT !.via = via] EXCEPT !.level = level] EXCEPT !.calm = quiet] =
            [pc |-> "idle", via |-> via, level |-> level, obj |-> 0,
             calm |-> quiet, out |-> "none"]
      <4>1. PICK a : a = [Idle EXCEPT !.via = via]
        OBVIOUS
      <4>2. a = [pc |-> "idle", via |-> via, level |-> 1, obj |-> 0, calm |-> FALSE,
                 out |-> "none"]
        BY <4>1 DEF Idle
      <4>3. PICK b : b = [a EXCEPT !.level = level]
        OBVIOUS
      <4>4. b = [pc |-> "idle", via |-> via, level |-> level, obj |-> 0, calm |-> FALSE,
                 out |-> "none"]
        BY <4>2, <4>3
      <4>5. [b EXCEPT !.calm = quiet] =
              [pc |-> "idle", via |-> via, level |-> level, obj |-> 0,
               calm |-> quiet, out |-> "none"]
        <5>1. PICK f : f = FALSE
          OBVIOUS
        <5>2. b = [pc |-> "idle", via |-> via, level |-> level, obj |-> 0, calm |-> f,
                   out |-> "none"]
          BY <4>4, <5>1, Zenon
        <5> QED
          BY <5>2
      <4> QED
        BY <4>1, <4>3, <4>5, Zenon
    <3> QED
      BY <2>1, <3>1, <3>2, Zenon
  <2>3. PICK x : x = IF obj = 0 THEN [start EXCEPT !.out = "thrown"]
                     ELSE IF heap[obj].max < level THEN [start EXCEPT !.out = "filtered"]
                     ELSE [start EXCEPT !.pc = "wrapper"]
    OBVIOUS
  <2>4. threads' = [threads EXCEPT ![t] = x] /\ UNCHANGED <<heap, loggers, root>>
    BY <1>3, <2>1, <2>2, <2>3, Zenon DEF LogCheck
  <2>5. quiet \in BOOLEAN /\ (quiet <=> at.pc = "idle") /\ level \in 1 .. 5
    BY <2>1, LogAssumption
  <2>6. /\ x \in ThreadStates /\ x.via = via /\ x.calm = quiet
        /\ x.pc \in {"idle", "wrapper"} /\ x.out # "lost"
        /\ x.out = "thrown" => obj = 0
    BY <2>1, <2>3, <2>5 DEF ThreadStates
  <2>7. HasObj(x)
    BY <2>6 DEF HasObj
  <2>8. CalmOK(x)
    <3> SUFFICES ASSUME x.calm
                 PROVE  /\ Undisturbed
                        /\ ~torn => \A i \in 1 .. Len(logs) :
                                      x.via = logs[i].name => x.out # "thrown"
      BY <2>6 DEF CalmOK
    <3>1. Undisturbed
      BY <2>5, <2>6 DEF Undisturbed
    <3>2. ASSUME ~torn, NEW i \in 1 .. Len(logs), x.via = logs[i].name PROVE obj # 0
      BY <2>1, <2>6, <3>1, <3>2, CalmLogger, EvaluatedIs
    <3> QED
      BY <3>1, <3>2, <2>6
  <2>9. RInv => RootOK(x)
    BY <2>1, <2>6, EvaluatedIs DEF RootOK
  <2> QED
    BY <2>4, <2>6, <2>7, <2>8, <2>9
<1>4. CASE LogArgument(t)
  <2>1. PICK obj : obj = Evaluated(y.via)
    OBVIOUS
  <2>2. /\ y.pc \in {"wrapper", "name"}
        /\ UNCHANGED <<heap, loggers, root>>
    BY <1>0, <1>4 DEF LogArgument
  <2>3. CASE obj = 0
    <3>1. Ends(t, "thrown")
      BY <1>0, <1>4, <2>1, <2>3 DEF LogArgument
    <3>2. PICK x \in ThreadStates : /\ threads' = [threads EXCEPT ![t] = x]
             /\ x.pc = "idle" /\ x.out = "thrown" /\ x.via = y.via /\ x.calm = y.calm
      BY <3>1, <1>0, EndsIs
    <3>3. HasObj(x)
      BY <3>2 DEF HasObj
    <3>4. CalmOK(x)
      <4>1. ASSUME y.calm, ~torn, NEW i \in 1 .. Len(logs), y.via = logs[i].name PROVE FALSE
        BY <4>1, <1>1, <1>2, <2>1, <2>3, CalmLogger, EvaluatedIs DEF CalmOK
      <4> QED
        BY <4>1, <3>2, <1>1 DEF CalmOK
    <3>5. x.via # "GetRoot"
      BY <3>2, <1>2, <2>1, <2>3, EvaluatedIs
    <3> QED
      BY <2>2, <3>2, <3>3, <3>4, <3>5 DEF RootOK
  <2>4. CASE obj # 0
    <3>1. PICK x : x = [[y EXCEPT !.pc = IF y.pc = "wrapper" THEN "name" ELSE "log"]
                          EXCEPT !.obj = IF y.pc = "wrapper" THEN obj ELSE y.obj]
      OBVIOUS
    <3>2. threads' = [threads EXCEPT ![t] = x]
      <4>1. threads' = [threads EXCEPT
                  ![t].pc = IF @ = "wrapper" THEN "name" ELSE "log",
                  ![t].obj = IF threads[t].pc = "wrapper" THEN obj ELSE @]
        BY <1>0, <1>4, <2>1, <2>4 DEF LogArgument
      <4>2. PICK p : p = IF y.pc = "wrapper" THEN "name" ELSE "log"
        OBVIOUS
      <4>3. PICK z : z = [threads EXCEPT ![t].pc = IF @ = "wrapper" THEN "name" ELSE "log"]
        OBVIOUS
      <4>4. PICK w : w = [y EXCEPT !.pc = p]
        OBVIOUS
      <4>5. z = [threads EXCEPT ![t] = w] /\ z[t] = w
        BY <1>0, <1>1, <4>2, <4>3, <4>4
      <4>6. threads' = [z EXCEPT ![t].obj = IF threads[t].pc = "wrapper" THEN obj ELSE @]
        BY <4>1, <4>3, Zenon
      <4>7. w.obj = y.obj
        BY <1>1, <4>4 DEF ThreadStates
      <4>8. x = [w EXCEPT !.obj = IF y.pc = "wrapper" THEN obj ELSE w.obj]
        BY <3>1, <4>2, <4>4, <4>7, Zenon
      <4>9. threads' = [z EXCEPT ![t] = x]
        BY <4>5, <4>6, <4>8, <1>0
      <4> QED
        BY <1>1, <4>5, <4>9
    <3>3. obj \in 1 .. Len(heap) /\ Len(heap) \in Nat
      BY <1>2, <2>1, <2>4, EvaluatedIs
    <3>4. /\ x \in ThreadStates /\ x.via = y.via /\ x.calm = y.calm /\ x.out = y.out
          /\ x.pc = IF y.pc = "wrapper" THEN "name" ELSE "log"
          /\ x.obj = IF y.pc = "wrapper" THEN obj ELSE y.obj
      <4>1. PICK p, ob : /\ p = IF y.pc = "wrapper" THEN "name" ELSE "log"
                         /\ ob = IF y.pc = "wrapper" THEN obj ELSE y.obj
        OBVIOUS
      <4>2. p \in {"name", "log"} /\ ob \in Nat
        BY <4>1, <1>1, <3>3 DEF ThreadStates
      <4>3. x = [[y EXCEPT !.pc = p] EXCEPT !.obj = ob]
        BY <3>1, <4>1
      <4>4. /\ x \in ThreadStates /\ x.via = y.via /\ x.calm = y.calm /\ x.out = y.out
            /\ x.pc = p /\ x.obj = ob
        BY <1>1, <4>2, <4>3 DEF ThreadStates
      <4> QED
        BY <4>1, <4>4
    <3>5. HasObj(x)
      BY <1>1, <2>2, <3>3, <3>4 DEF HasObj
    <3>6. CalmOK(x)
      <4>1. ASSUME y.calm, ~torn, NEW i \in 1 .. Len(logs), y.via = logs[i].name
            PROVE  x.obj = loggers[logs[i].name]
        <5>1. Undisturbed /\ (y.pc = "name" => y.obj = loggers[logs[i].name])
          BY <4>1, <1>1 DEF CalmOK
        <5>2. obj = loggers[logs[i].name]
          BY <4>1, <5>1, <1>2, <2>1, CalmLogger, EvaluatedIs
        <5> QED
          BY <5>1, <5>2, <2>2, <3>4
      <4> QED
        BY <4>1, <3>4, <1>1 DEF CalmOK
    <3>7. RInv => RootOK(x)
      <4> SUFFICES ASSUME RInv, y.via = "GetRoot"
                   PROVE  Speaks(x.obj) /\ x.out \notin {"lost", "thrown"}
        BY <3>4 DEF RootOK
      <4>1. RootOK(y) /\ Speaks(root) /\ obj = root
        BY <1>1, <1>2, <2>1, EvaluatedIs DEF RInv
      <4> QED
        BY <4>1, <2>2, <3>4 DEF RootOK
    <3> QED
      BY <2>2, <3>2, <3>4, <3>5, <3>6, <3>7
  <2> QED
    BY <2>3, <2>4
<1>5. CASE LogWrite(t)
  <2>1. PICK o : o = heap[y.obj]
    OBVIOUS
  <2>2. /\ y.pc = "log" /\ UNCHANGED <<heap, loggers, root>>
        /\ \E out \in Outcomes(o, y.level) : Ends(t, out)
    BY <1>0, <1>5, <2>1, Zenon DEF LogWrite
  <2>8. PICK out \in Outcomes(o, y.level) : Ends(t, out)
    BY <2>2
  <2>3. /\ out \in {"thrown", "filtered", "lost", "written", "dropped"} /\ out # "thrown"
        /\ out = "lost" => o.appenders = <<>>
    BY <2>8 DEF Outcomes
  <2>4. PICK x \in ThreadStates : /\ threads' = [threads EXCEPT ![t] = x]
          /\ x.pc = "idle" /\ x.out = out /\ x.via = y.via /\ x.calm = y.calm
    BY <2>3, <2>8, <1>0, EndsIs
  <2>5. HasObj(x)
    BY <2>4 DEF HasObj
  <2>6. CalmOK(x)
    <3>1. ASSUME y.calm, ~torn, NEW i \in 1 .. Len(logs), y.via = logs[i].name,
                 out = "lost"
          PROVE  Used(logs[i].appenders) = <<>>
      <4>1. Undisturbed /\ y.obj = loggers[logs[i].name]
        BY <3>1, <1>1, <2>2 DEF CalmOK
      <4>2. Used(logs[i].appenders) # <<>> => o.appenders # <<>>
        BY <3>1, <4>1, <2>1, CalmLogger
      <4> QED
        BY <4>2, <3>1, <2>3
    <3> QED
      BY <3>1, <1>1, <2>3, <2>4 DEF CalmOK
  <2>7. RInv => RootOK(x)
    <3>1. ASSUME RInv, y.via = "GetRoot" PROVE out # "lost"
      BY <3>1, <1>1, <2>1, <2>2, <2>3 DEF RootOK, Speaks
    <3> QED
      BY <3>1, <2>3, <2>4 DEF RootOK
  <2> QED
    BY <2>2, <2>4, <2>5, <2>6, <2>7
<1> QED
  BY <1>3, <1>4, <1>5

-----------------------------------------------------------------------------
(* The theorems.                                                           *)

\* One appender, "std", is used.
LEMMA UsedStd == Used(<<"std">>) = <<"std">>
<1>1. PICK s : s = <<"std">>
  OBVIOUS
<1>2. Len(s) = 1 /\ s[1] = "std" /\ s[1] \in UsedTypes
  BY <1>1 DEF UsedTypes
<1>3. 1 \in 0 .. Len(s) /\ 0 \in 0 .. Len(s) /\ 1 - 1 = 0 /\ Len(s) \in Nat
  BY <1>2
<1>4. Kept(s, UsedTypes)[0] = <<>>
  BY <1>3, KeptIs
<1>5. Kept(s, UsedTypes)[1] = Append(Kept(s, UsedTypes)[0], s[1])
  <2>1. PICK n \in 0 .. Len(s) : n = 1
    BY <1>3
  <2>2. Kept(s, UsedTypes)[n] =
          IF n = 0 THEN <<>>
          ELSE IF s[n] \in UsedTypes THEN Append(Kept(s, UsedTypes)[n - 1], s[n])
          ELSE Kept(s, UsedTypes)[n - 1]
    BY <1>3, KeptIs
  <2>3. n # 0 /\ n - 1 = 0 /\ s[n] \in UsedTypes
    BY <1>2, <2>1
  <2> QED
    BY <2>1, <2>2, <2>3
<1>6. Append(<<>>, s[1]) = <<"std">>
  BY <1>2
<1> QED
  BY <1>1, <1>2, <1>3, <1>4, <1>5, <1>6 DEF Used

\* The static initialisation of LogConfInit establishes the invariants.
LEMMA LogInitOK == Init => LInv /\ RInv
<1> SUFFICES ASSUME Init PROVE LInv /\ RInv
  OBVIOUS
<1>1. PICK o : o = [name |-> "root", max |-> 5, appenders |-> <<"std">>]
  OBVIOUS
<1>2. /\ heap = <<o>> /\ root = 1
      /\ loggers = [n \in Names |-> IF n = "root" THEN 1 ELSE 0]
      /\ threads = [t \in Threads |-> Idle]
      /\ logs = <<RootConf>> /\ list = <<>> /\ lg = 0
      /\ torn = FALSE /\ strays = {}
      /\ at = [pc |-> "idle", i |-> 0, j |-> 0, new |-> <<>>]
  BY <1>1 DEF Init, LogInit, Resting, Position
<1>3. <<"std">> \in Seq(Types)
  BY DEF Types
<1>4. o \in Objects /\ o.name = "root" /\ o.appenders = <<"std">> /\ <<"std">> # <<>>
  BY <1>1, <1>3, LogAssumption DEF Objects
<1>5. heap \in Seq(Objects) /\ Len(heap) = 1 /\ heap[1] = o
  BY <1>2, <1>4
<1>6. Idle \in ThreadStates /\ Idle.calm = FALSE /\ Idle.pc = "idle" /\ Idle.out = "none"
  BY DEF Idle, ThreadStates, Vias
<1>7. \A t \in Threads : threads[t] = Idle
  BY <1>2
<1>8. Types1
  BY <1>2, <1>5, <1>6 DEF Types1
<1>9. RootConf \in Confs /\ RootConf.name = "root" 
      /\ Used(RootConf.appenders) = <<"std">> /\ RootConf.level = 5
  BY <1>1, <1>3, UsedStd, LogAssumption DEF RootConf, Confs
<1>10. logs \in Seq(Confs) /\ Len(logs) = 1 /\ logs[1] = RootConf /\ DOMAIN logs = 1 .. 1
  BY <1>2, <1>9
<1>11. LogSet(logs) /\ LogSet(<<>>)
  BY <1>10 DEF LogSet, Confs
<1>12. Types2
  BY <1>2, <1>11 DEF Types2
<1>13. at.pc = "idle" /\ at.i = 0 /\ at.j = 0 /\ at.new = <<>>
       /\ at = Position(at.pc, at.i, at.j, at.new)
  BY <1>2 DEF Position
<1>14. AtOK
  BY <1>11, <1>13 DEF AtOK
<1>15. \A n \in Names : loggers[n] = IF n = "root" THEN 1 ELSE 0
  BY <1>2
<1>16. Named
  BY <1>4, <1>5, <1>15 DEF Named
<1>17. Present(logs, 1, Len(logs))
  BY <1>2, <1>9, <1>10, <1>15 DEF Present
<1>18. Built(logs, Len(logs))
  <2>1. loggers[logs[1].name] = 1
    BY <1>9, <1>10, <1>15, LogAssumption
  <2>2. \A k \in 1 .. Len(logs) : k = 1
    BY <1>10
  <2> QED
    <3>1. Made(o, RootConf, <<"std">>)
      BY <1>1, <1>4, <1>9 DEF Made
    <3> QED
      BY <2>1, <2>2, <3>1, <1>5, <1>9, <1>10 DEF Built
<1>19. Progress
  BY <1>2, <1>13, <1>17, <1>18 DEF Progress
<1>20. CalmInv /\ ObjInv
  BY <1>6, <1>7 DEF CalmInv, CalmOK, ObjInv, HasObj
<1>21. RInv
  <2>1. Speaks(root)
    BY <1>2, <1>4, <1>5 DEF Speaks
  <2>2. Len(at.new) = 0
    BY <1>13
  <2>3. RootOK(Idle)
    BY <1>6 DEF RootOK
  <2> QED
    BY <1>7, <2>1, <2>2, <2>3 DEF RInv
<1> QED
  BY <1>8, <1>12, <1>14, <1>16, <1>19, <1>20, <1>21 DEF LInv

\* No step spoils the invariant of the loggers.
LEMMA LogNext ==
    ASSUME LInv, [Next]_vars
    PROVE  LInv'
<1>1. CASE UNCHANGED vars
  BY <1>1, QuietKeeps DEF vars, cfgVars, LInv, Types2
<1>2. CASE ListenerStep
  BY <1>2, DelOldKeeps, AddNewKeeps, SetMaxLevelKeeps, AddAppenderKeeps,
     AppenderThrowsKeeps, SetRootKeeps, StoreKeeps DEF ListenerStep
<1>3. CASE LoadNode \/ \E doc \in Docs : LoadFromYaml(doc)
  BY <1>3, LoadKeeps
<1>4. CASE PortCalls
  <2>1. UNCHANGED <<logVars, logs, list, at, lg, status, torn, strays>>
    BY <1>4 DEF PortCalls, UsePort
  <2> QED
    BY <2>1, QuietKeeps DEF LInv, Types2
<1>5. CASE LogCalls /\ UNCHANGED cfgVars
  <2>1. PICK t \in Threads :
          \/ \E via \in Vias, level \in Levels : LogCheck(t, via, level, at.pc = "idle")
          \/ LogArgument(t)
          \/ LogWrite(t)
    BY <1>5, Zenon DEF LogCalls
  <2>2. /\ UNCHANGED <<heap, loggers, root>>
        /\ \E x \in ThreadStates :
             /\ threads' = [threads EXCEPT ![t] = x]
             /\ CalmOK(x) /\ HasObj(x)
    BY <2>1, LogStepIs
  <2> QED
    BY <1>5, <2>2, ThreadKeeps
<1> QED
  BY <1>1, <1>2, <1>3, <1>4, <1>5 DEF Next

\* The invariant of the loggers holds in every state.
THEOREM LoggersInvariant == Spec => []LInv
<1>1. Init => LInv
  BY LogInitOK
<1>2. LInv /\ [Next]_vars => LInv'
  BY LogNext
<1> QED
  BY <1>1, <1>2, PTL DEF Spec

\* The listener of LogConfInit: after a load that succeeds the manager has the
\* configured loggers, each with its level and its used appenders in order, and
\* besides them only what earlier loads that threw have left behind.
THEOREM LoggersAreConfigured == Spec => []LoggersMatchConfig
<1>1. LInv => LoggersMatchConfig
  <2> SUFFICES ASSUME LInv, at.pc = "idle" PROVE LoggersMatchConfig
    BY Zenon DEF LoggersMatchConfig
  <2>1. DOMAIN logs = 1 .. Len(logs)
    BY LogSetIs DEF LInv, Types2
  <2>2. ASSUME torn PROVE LoggersMatchConfig
    <3>1. OnlyStrays
      BY <2>2 DEF LInv, Progress
    <3> QED
      BY <2>2, <3>1 DEF OnlyStrays, LoggersMatchConfig
  <2>3. ASSUME ~torn PROVE LoggersMatchConfig
    <3>1. Present(logs, 1, Len(logs)) /\ Built(logs, Len(logs))
      BY <2>3 DEF LInv, Progress
    <3>2. \A n \in Names :
            loggers[n] # 0 <=> n \in strays \/ (~torn /\ \E i \in DOMAIN logs : logs[i].name = n)
      BY <2>1, <2>3, <3>1 DEF Present
    <3>3. ASSUME NEW i \in DOMAIN logs, NEW obj, obj = heap[loggers[logs[i].name]]
          PROVE  /\ obj.name = logs[i].name /\ obj.max = logs[i].level
                 /\ obj.name \notin strays => obj.appenders = Used(logs[i].appenders)
      BY <2>1, <3>1, <3>3 DEF Built, Made
    <3> QED
      BY <3>2, <3>3, Zenon DEF LoggersMatchConfig
  <2> QED
    BY <2>2, <2>3
<1> QED
  BY <1>1, LoggersInvariant, PTL

\* SYLAR_LOG on a configured logger: without a reload in between, and unless the
\* latest reload threw, the message misses all appenders only if that logger has
\* none that is used, and nothing is thrown.
THEOREM NothingLostWithoutReload == Spec => []LostOnlyInReload
<1>1. LInv => LostOnlyInReload
  <2> SUFFICES ASSUME LInv, NEW t \in Threads, NEW i \in DOMAIN logs,
                      threads[t].calm, threads[t].via = logs[i].name, ~torn,
                      threads[t].out \in {"lost", "thrown"}
               PROVE  threads[t].out = "lost" /\ Used(logs[i].appenders) = <<>>
    BY DEF LostOnlyInReload
  <2>1. i \in 1 .. Len(logs)
    BY LogSetIs DEF LInv, Types2
  <2> QED
    BY <2>1 DEF LInv, CalmInv, CalmOK
<1> QED
  BY <1>1, LoggersInvariant, PTL

\* An object that has an appender keeps it.
LEMMA SpeaksOn ==
    ASSUME LInv, [Next]_vars, NEW x \in 1 .. Len(heap), Speaks(x)
    PROVE  Speaks(x)'
<1>1. CASE heap' = heap
  BY <1>1 DEF Speaks
<1>0. heap \in Seq(Objects) /\ Len(heap) \in Nat
  BY DEF LInv, Types1
<1>2. CASE AddNew
  <2>1. heap' = heap \/ \E o : heap' = Append(heap, o)
    BY <1>2 DEF AddNew, NewLogger
  <2>2. heap'[x] = heap[x]
    BY <2>1, <1>0
  <2> QED
    BY <2>2 DEF Speaks
<1>3. CASE SetMaxLevel
  <2>1. PICK v : heap' = [heap EXCEPT ![lg] = [heap[lg] EXCEPT !.max = v]]
    BY <1>3 DEF SetMaxLevel
  <2>2. heap[x] \in Objects /\ DOMAIN heap = 1 .. Len(heap)
    BY <1>0
  <2>3. \A o \in Objects : [o EXCEPT !.max = v].appenders = o.appenders
    BY DEF Objects
  <2>4. heap'[x] = IF x = lg THEN [heap[x] EXCEPT !.max = v] ELSE heap[x]
    BY <2>1, <2>2
  <2> QED
    BY <2>2, <2>3, <2>4 DEF Speaks
<1>4. CASE AddAppender
  <2>1. PICK a : heap' = heap \/
          heap' = [heap EXCEPT ![lg] = [heap[lg] EXCEPT !.appenders = Append(@, a)]]
    BY <1>4 DEF AddAppender
  <2>2. heap[x] \in Objects /\ DOMAIN heap = 1 .. Len(heap)
    BY <1>0
  <2>3. \A o \in Objects : [o EXCEPT !.appenders = Append(@, a)].appenders # <<>>
    <3> SUFFICES ASSUME NEW o \in Objects
                 PROVE  [o EXCEPT !.appenders = Append(@, a)].appenders # <<>>
      OBVIOUS
    <3>1. o.appenders \in Seq(Types)
      BY DEF Objects
    <3>2. [o EXCEPT !.appenders = Append(@, a)].appenders = Append(o.appenders, a)
      BY DEF Objects
    <3>3. Len(Append(o.appenders, a)) = Len(o.appenders) + 1 /\ Len(o.appenders) \in Nat
      BY <3>1
    <3>4. Len(Append(o.appenders, a)) # 0
      BY <3>3
    <3> QED
      BY <3>2, <3>4
  <2>4. CASE heap' = [heap EXCEPT ![lg] = [heap[lg] EXCEPT !.appenders = Append(@, a)]]
    <3>1. heap'[x] = IF x = lg THEN [heap[x] EXCEPT !.appenders = Append(@, a)] ELSE heap[x]
      BY <2>2, <2>4
    <3> QED
      BY <2>2, <2>3, <3>1 DEF Speaks
  <2> QED
    BY <2>1, <2>4, <1>1
<1>5. CASE UNCHANGED vars
  BY <1>1, <1>5 DEF vars, logVars
<1>6. CASE DelOld \/ AppenderThrows \/ SetRoot \/ Store
  BY <1>1, <1>6 DEF DelOld, AppenderThrows, SetRoot, Store
<1>7. CASE LoadNode \/ \E doc \in Docs : LoadFromYaml(doc)
  BY <1>1, <1>7 DEF LoadNode, LoadFromYaml, logVars
<1>8. CASE PortCalls
  BY <1>1, <1>8, SMTT(40) DEF PortCalls, UsePort, logVars
<1>9. CASE LogCalls
  BY <1>1, <1>9 DEF LogCalls, LogCheck, LogArgument, LogWrite
<1> QED
  BY <1>2, <1>3, <1>4, <1>5, <1>6, <1>7, <1>8, <1>9 DEF Next, ListenerStep

\* root_ is only replaced by a logger that has an appender.
LEMMA RootNext ==
    ASSUME RootsUsed, LInv, RInv, [Next]_vars
    PROVE  RInv'
<1>1. root \in 1 .. Len(heap)
  BY SMTT(40) DEF LInv, Types1
<1>2. Speaks(root)'
  <2>1. CASE root' = root
    <3>1. PICK x \in 1 .. Len(heap) : x = root
      BY <1>1
    <3>2. Speaks(x)'
      BY <3>1, SpeaksOn DEF RInv
    <3> QED
      BY <2>1, <3>1, <3>2 DEF Speaks
  <2>2. CASE SetRoot
    <3>1. at.pc = "root" /\ root' = lg /\ heap' = heap
      BY <2>2 DEF SetRoot, Does, Reaches
    <3>2. PICK i \in 1 .. Len(at.new) : i = at.i
            /\ Made(heap[lg], at.new[i], Used(at.new[i].appenders))
      BY <3>1 DEF LInv, AtOK, Progress
    <3>3. at.new[i].name = "root"
      BY <3>1, <3>2 DEF LInv, AtOK
    <3>4. heap[lg].appenders # <<>>
      BY <3>2, <3>3 DEF RInv, Made
    <3> QED
      BY <3>1, <3>4 DEF Speaks
  <2> QED
    BY <2>1, <2>2 DEF Next, vars, logVars, ListenerStep, DelOld, AddNew, SetMaxLevel,
         AddAppender, AppenderThrows, Store, LoadNode, LoadFromYaml, PortCalls, UsePort, LogCalls,
         LogCheck, LogArgument, LogWrite
<1>3. (\A i \in 1 .. Len(at.new) :
         at.new[i].name = "root" => Used(at.new[i].appenders) # <<>>)'
  <2>1. CASE at'.new = at.new
    BY <2>1 DEF RInv
  <2>2. CASE at'.new = <<>>
    BY <2>2
  <2>3. ASSUME NEW n \in Nodes, n.key = "logs", at'.new = n.val
        PROVE  (\A i \in 1 .. Len(at.new) :
                  at.new[i].name = "root" => Used(at.new[i].appenders) # <<>>)'
    BY <2>3 DEF RootsUsed
  <2>4. CASE LoadNode
    <3>1. PICK n, outcome : n = Head(list) /\ outcome = NodeOutcome(n,
            {"logs"} \cup (IF port.type = "none" THEN {} ELSE {"port"}))
      OBVIOUS
    <3>2. /\ list # <<>>
          /\ IF outcome = "set" /\ n.key = "logs" THEN SetLogs(n.val) ELSE UNCHANGED at
      BY <2>4, <3>1, Zenon DEF LoadNode
    <3>3. n \in Nodes
      BY <3>1, <3>2 DEF LInv, Types2
    <3>4. SetLogs(n.val) => at'.new \in {<<>>, n.val}
      BY DEF SetLogs, Resting, ToDel, ToNew, Position
    <3> QED
      BY <2>1, <2>2, <2>3, <3>2, <3>3, <3>4
  <2>5. CASE ListenerStep
    <3>1. at'.new \in {<<>>, at.new}
      BY <2>5 DEF ListenerStep, DelOld, AddNew, SetMaxLevel, AddAppender, AppenderThrows,
         SetRoot, Store, ToDel, ToNew, ToRoot, ToAppender, Position, Resting
    <3> QED
      BY <2>1, <2>2, <3>1
  <2>6. CASE at' = at
    BY <2>1, <2>6
  <2> QED
    BY <2>4, <2>5, <2>6 DEF Next, vars, cfgVars, LoadFromYaml, PortCalls, UsePort
<1>4. \A t \in Threads : RootOK(threads[t])'
  <2>1. ASSUME NEW t \in Threads, NEW x \in ThreadStates, RootOK(x),
               HasObj(x), threads'[t].via = x.via, threads'[t].pc = x.pc,
               threads'[t].obj = x.obj, threads'[t].out = x.out
        PROVE  RootOK(threads[t])'
    <3>1. x.via = "GetRoot" /\ x.pc \in {"name", "log"} =>
            x.obj \in 1 .. Len(heap) /\ Speaks(x.obj)
      BY <2>1 DEF RootOK, HasObj
    <3>2. x.via = "GetRoot" /\ x.pc \in {"name", "log"} => Speaks(x.obj)'
      BY <3>1, SpeaksOn
    <3> QED
      BY <2>1, <3>2 DEF RootOK, Speaks
  <2>2. \A t \in Threads : threads[t] \in ThreadStates /\ RootOK(threads[t]) /\ HasObj(threads[t])
    BY DEF LInv, Types1, ObjInv, RInv
  <2>3. CASE LogCalls
    <3>1. PICK t \in Threads :
            \/ \E via \in Vias, level \in Levels : LogCheck(t, via, level, at.pc = "idle")
            \/ LogArgument(t)
            \/ LogWrite(t)
      BY <2>3, Zenon DEF LogCalls
    <3>2. PICK x \in ThreadStates : threads' = [threads EXCEPT ![t] = x]
             /\ RootOK(x) /\ HasObj(x)
      BY <3>1, LogStepIs
    <3>3. threads \in [Threads -> ThreadStates]
      BY DEF LInv, Types1
    <3>4. \A u \in Threads : threads'[u] = IF u = t THEN x ELSE threads[u]
      BY <3>2, <3>3
    <3> SUFFICES ASSUME NEW u \in Threads PROVE RootOK(threads[u])'
      OBVIOUS
    <3>5. PICK y \in ThreadStates : y = threads'[u] /\ RootOK(y) /\ HasObj(y)
      BY <3>2, <3>4, <2>2
    <3> QED
      BY <2>1, <3>5
  <2>4. CASE ListenerStep
    <3> SUFFICES ASSUME NEW u \in Threads PROVE RootOK(threads[u])'
      OBVIOUS
    <3>1. threads' = [t \in Threads |-> [threads[t] EXCEPT !.calm = FALSE]]
      BY <2>4 DEF ListenerStep, DelOld, AddNew, SetMaxLevel, AddAppender, AppenderThrows,
         SetRoot, Store, Does, Reaches
    <3>2. PICK x \in ThreadStates : x = threads[u] /\ RootOK(x) /\ HasObj(x)
      BY <2>2
    <3>3. threads'[u] = [x EXCEPT !.calm = FALSE]
      BY <3>1, <3>2
    <3>4. /\ threads'[u].via = x.via /\ threads'[u].pc = x.pc
          /\ threads'[u].obj = x.obj /\ threads'[u].out = x.out
      BY <3>3 DEF ThreadStates
    <3> QED
      BY <2>1, <3>2, <3>4
  <2>5. CASE threads' = threads
    <3> SUFFICES ASSUME NEW u \in Threads PROVE RootOK(threads[u])'
      OBVIOUS
    <3>1. PICK x \in ThreadStates : x = threads[u] /\ RootOK(x) /\ HasObj(x)
      BY <2>2
    <3> QED
      BY <2>1, <2>5, <3>1
  <2> QED
    BY <2>3, <2>4, <2>5 DEF Next, vars, logVars, LoadNode, LoadFromYaml, PortCalls, UsePort
<1> QED
  BY <1>2, <1>3, <1>4 DEF RInv

\* SYLAR_LOG_ROOT: if every configured root has an appender that is used, a message
\* through the root logger always finds an appender and never throws, whatever the
\* moment and whichever reloads have thrown.
THEOREM RootAlwaysSpeaks == RootsUsed => (Spec => []RootSpeaks)
<1>1. Init => LInv /\ RInv
  BY LogInitOK
<1>2. RootsUsed /\ LInv /\ RInv /\ [Next]_vars => RInv'
  BY RootNext
<1>3. LInv /\ [Next]_vars => LInv'
  BY LogNext
<1>4. RInv => RootSpeaks
  BY DEF RInv, RootOK, RootSpeaks
<1>5. RootsUsed => RootsUsed'
  BY DEF RootsUsed
<1> QED
  BY <1>1, <1>2, <1>3, <1>4, <1>5, PTL DEF Spec
=============================================================================
