-------------------------- MODULE ChatFanoutProofs --------------------------
(***************************************************************************)
(* The safety of ChatFanout for any number of connections, conversations   *)
(* and frames and any capacity, with either broker: its types, who may     *)
(* see a frame, and the order in which frames are forwarded.               *)
(*                                                                         *)
(* The argument follows one connection at a time.  The frames it has       *)
(* forwarded, the one it is looking up and those it has yet to look at     *)
(* form a line; a step moves a frame along the line, takes one out of it   *)
(* or adds at the end one that was never in it.                            *)
(***************************************************************************)
EXTENDS ChatFanout, SequenceTheorems, TLAPS

(* r: the broker is Redis; ts: publications that have not run; m: frames   *)
(* published; g, l, q: forwarded, being looked up (0: none), waiting.      *)
Before(r, a, b) == IF r THEN a # b ELSE a < b

Ordered(r, g, l, q) ==
  /\ \A i, j \in 1..Len(g) : i < j => Before(r, g[i], g[j])
  /\ \A i, j \in 1..Len(q) : i < j => Before(r, q[i], q[j])
  /\ \A i \in 1..Len(g), j \in 1..Len(q) : Before(r, g[i], q[j])
  /\ l # 0 => \A i \in 1..Len(g) : Before(r, g[i], l)
  /\ l # 0 => \A j \in 1..Len(q) : Before(r, l, q[j])

NotPending(ts, g, l, q) ==
  /\ \A i \in 1..Len(g) : g[i] \notin ts
  /\ \A i \in 1..Len(q) : q[i] \notin ts
  /\ l \notin ts

Line(r, ts, m, g, l, q) ==
  /\ m \in Nat /\ g \in Seq(1..m) /\ q \in Seq(1..m) /\ l \in 0..m
  /\ Ordered(r, g, l, q)
  /\ r => NotPending(ts, g, l, q)

LEMMA LineEmpty ==
  ASSUME NEW r \in BOOLEAN, NEW m \in Nat, NEW ts, 0 \notin ts
  PROVE  Line(r, ts, m, <<>>, 0, <<>>)
<1>1. <<>> \in Seq(1..m) /\ Len(<<>>) = 0
  BY EmptySeq
<1> QED BY <1>1 DEF Line, Ordered, NotPending

(* Publications of others leave a line alone.                              *)
LEMMA LineLater ==
  ASSUME NEW r \in BOOLEAN, NEW ts, NEW m, NEW g, NEW l, NEW q, Line(r, ts, m, g, l, q),
         NEW ts2, NEW m2 \in Nat, m <= m2, 0 \notin ts2, ts2 \cap (1..m) \subseteq ts
  PROVE  Line(r, ts2, m2, g, l, q)
<1>1. m \in Nat /\ 1..m \subseteq 1..m2 /\ l \in 0..m2
  BY DEF Line
<1>2. g \in Seq(1..m2) /\ q \in Seq(1..m2)
  BY <1>1, SeqMonotonic DEF Line
<1>3. \A i \in 1..Len(g) : g[i] \in 1..m
  BY ElementOfSeq DEF Line
<1>4. \A i \in 1..Len(q) : q[i] \in 1..m
  BY ElementOfSeq DEF Line
<1>5. l = 0 \/ l \in 1..m
  BY <1>1 DEF Line
<1>6. r => NotPending(ts2, g, l, q)
  BY <1>3, <1>4, <1>5 DEF Line, NotPending
<1> QED BY <1>1, <1>2, <1>6 DEF Line

(* The oldest waiting frame is overwritten, or dropped.                    *)
LEMMA LineDrop ==
  ASSUME NEW r \in BOOLEAN, NEW ts, NEW m, NEW g, NEW l, NEW q, Line(r, ts, m, g, l, q),
         q # <<>>
  PROVE  Line(r, ts, m, g, l, Tail(q))
<1>1. q \in Seq(1..m) /\ Len(q) \in Nat
  BY LenProperties DEF Line
<1>2. /\ Tail(q) \in Seq(1..m)
      /\ Len(Tail(q)) = Len(q) - 1
      /\ \A i \in 1..Len(Tail(q)) : Tail(q)[i] = q[i + 1] /\ i + 1 \in 1..Len(q)
  BY <1>1, HeadTailProperties, LenProperties
<1>3. Ordered(r, g, l, Tail(q))
  BY <1>1, <1>2 DEF Line, Ordered
<1>4. r => NotPending(ts, g, l, Tail(q))
  BY <1>2 DEF Line, NotPending
<1> QED BY <1>2, <1>3, <1>4 DEF Line

(* A frame published now, or by a Redis task, comes last.                  *)
LEMMA LineArrival ==
  ASSUME NEW r \in BOOLEAN, NEW ts, NEW m, NEW g, NEW l, NEW q, Line(r, ts, m, g, l, q),
         NEW m2 \in Nat, NEW ts2, NEW n \in 1..m2, m <= m2, 0 \notin ts2,
         r => n \in ts /\ n \notin ts2 /\ ts2 \subseteq ts,
         ~r => n > m
  PROVE  Line(r, ts2, m2, g, l, Append(q, n))
<1>1. m \in Nat /\ g \in Seq(1..m2) /\ q \in Seq(1..m2) /\ l \in 0..m2
  <2>1. m \in Nat /\ 1..m \subseteq 1..m2 /\ l \in 0..m2
    BY DEF Line
  <2> QED BY <2>1, SeqMonotonic DEF Line
<1>2. /\ Append(q, n) \in Seq(1..m2)
      /\ Len(q) \in Nat /\ Len(Append(q, n)) = Len(q) + 1
      /\ \A i \in 1..Len(q) : Append(q, n)[i] = q[i]
      /\ Append(q, n)[Len(q) + 1] = n
  BY <1>1, AppendProperties, LenProperties
<1>3. \A i \in 1..Len(g) : g[i] \in 1..m /\ (r => g[i] \notin ts)
  BY ElementOfSeq DEF Line, NotPending
<1>4. \A i \in 1..Len(q) : q[i] \in 1..m /\ (r => q[i] \notin ts)
  BY ElementOfSeq DEF Line, NotPending
<1>5. l \in 0..m /\ (r => l \notin ts)
  BY DEF Line, NotPending
<1>6. /\ \A i \in 1..Len(g) : Before(r, g[i], n)
      /\ \A i \in 1..Len(q) : Before(r, q[i], n)
      /\ l # 0 => Before(r, l, n)
  BY <1>1, <1>3, <1>4, <1>5 DEF Before
<1>7. \A i \in 1..Len(Append(q, n)) : i \in 1..Len(q) \/ i = Len(q) + 1
  BY <1>2
<1>8. Ordered(r, g, l, Append(q, n))
  <2>1. \A i, j \in 1..Len(Append(q, n)) :
          i < j => Before(r, Append(q, n)[i], Append(q, n)[j])
    <3> SUFFICES ASSUME NEW i \in 1..Len(Append(q, n)), NEW j \in 1..Len(Append(q, n)), i < j
                 PROVE  Before(r, Append(q, n)[i], Append(q, n)[j])
      OBVIOUS
    <3>1. i \in 1..Len(q)
      BY <1>2, <1>7
    <3>2. CASE j \in 1..Len(q)
      BY <1>2, <3>1, <3>2 DEF Line, Ordered
    <3>3. CASE j = Len(q) + 1
      BY <1>2, <1>6, <3>1, <3>3
    <3> QED BY <1>7, <3>2, <3>3
  <2>2. \A i \in 1..Len(g), j \in 1..Len(Append(q, n)) : Before(r, g[i], Append(q, n)[j])
    BY <1>2, <1>6, <1>7 DEF Line, Ordered
  <2>3. l # 0 => \A j \in 1..Len(Append(q, n)) : Before(r, l, Append(q, n)[j])
    BY <1>2, <1>6, <1>7 DEF Line, Ordered
  <2> QED BY <2>1, <2>2, <2>3 DEF Line, Ordered
<1>9. r => NotPending(ts2, g, l, Append(q, n))
  BY <1>2, <1>3, <1>4, <1>5, <1>7 DEF NotPending
<1> QED BY <1>1, <1>2, <1>8, <1>9 DEF Line

(* The oldest waiting frame is looked up.                                  *)
LEMMA LineLookup ==
  ASSUME NEW r \in BOOLEAN, NEW ts, NEW m, NEW g, NEW q, Line(r, ts, m, g, 0, q),
         q # <<>>
  PROVE  Line(r, ts, m, g, Head(q), Tail(q))
<1>1. q \in Seq(1..m) /\ Len(q) \in Nat \ {0} /\ Head(q) = q[1]
  BY EmptySeq DEF Line
<1>2. q[1] \in 1..m
  BY <1>1, HeadTailProperties
<1>3. /\ Tail(q) \in Seq(1..m)
      /\ Len(Tail(q)) = Len(q) - 1
      /\ \A i \in 1..Len(Tail(q)) : Tail(q)[i] = q[i + 1] /\ i + 1 \in 1..Len(q) /\ 1 < i + 1
  BY <1>1, HeadTailProperties
<1>4. Line(r, ts, m, g, 0, Tail(q))
  BY LineDrop
<1>5. \A i \in 1..Len(g) : Before(r, g[i], q[1])
  BY <1>1 DEF Line, Ordered
<1>6. \A i \in 1..Len(Tail(q)) : Before(r, q[1], Tail(q)[i])
  BY <1>1, <1>3 DEF Line, Ordered
<1>7. Ordered(r, g, q[1], Tail(q))
  BY <1>4, <1>5, <1>6 DEF Line, Ordered
<1>8. r => NotPending(ts, g, q[1], Tail(q))
  BY <1>1, <1>4 DEF Line, NotPending
<1> QED BY <1>1, <1>2, <1>4, <1>7, <1>8 DEF Line

(* The frame looked up is forwarded, or is not.                            *)
LEMMA LineForward ==
  ASSUME NEW r \in BOOLEAN, NEW ts, NEW m, NEW g, NEW l, NEW q, Line(r, ts, m, g, l, q),
         l # 0, 0 \notin ts
  PROVE  Line(r, ts, m, Append(g, l), 0, q) /\ Line(r, ts, m, g, 0, q)
<1>1. g \in Seq(1..m) /\ q \in Seq(1..m) /\ l \in 1..m /\ m \in Nat
  BY DEF Line
<1>2. /\ Append(g, l) \in Seq(1..m)
      /\ Len(g) \in Nat /\ Len(Append(g, l)) = Len(g) + 1
      /\ \A i \in 1..Len(g) : Append(g, l)[i] = g[i]
      /\ Append(g, l)[Len(g) + 1] = l
  BY <1>1, AppendProperties, LenProperties
<1>3. \A i \in 1..Len(Append(g, l)) : i \in 1..Len(g) \/ i = Len(g) + 1
  BY <1>2
<1>4. Ordered(r, Append(g, l), 0, q)
  <2>1. \A i, j \in 1..Len(Append(g, l)) :
          i < j => Before(r, Append(g, l)[i], Append(g, l)[j])
    <3> SUFFICES ASSUME NEW i \in 1..Len(Append(g, l)), NEW j \in 1..Len(Append(g, l)), i < j
                 PROVE  Before(r, Append(g, l)[i], Append(g, l)[j])
      OBVIOUS
    <3>1. i \in 1..Len(g)
      BY <1>2, <1>3
    <3>2. CASE j \in 1..Len(g)
      BY <1>2, <3>1, <3>2 DEF Line, Ordered
    <3>3. CASE j = Len(g) + 1
      BY <1>2, <3>1, <3>3 DEF Line, Ordered
    <3> QED BY <1>3, <3>2, <3>3
  <2>2. \A i \in 1..Len(Append(g, l)), j \in 1..Len(q) : Before(r, Append(g, l)[i], q[j])
    BY <1>2, <1>3 DEF Line, Ordered
  <2> QED BY <2>1, <2>2 DEF Line, Ordered
<1>5. r => NotPending(ts, Append(g, l), 0, q)
  BY <1>2, <1>3 DEF Line, NotPending
<1>6. Ordered(r, g, 0, q) /\ (r => NotPending(ts, g, 0, q))
  BY DEF Line, Ordered, NotPending
<1> QED BY <1>1, <1>2, <1>4, <1>5, <1>6 DEF Line
-----------------------------------------------------------------------------
(* cv: convOf; st, mem, b: state, memberOf and been of the connection; y   *)
(* and n: its cache.                                                       *)
SeesOwn(cv, st, mem, b, y, n, g, l, q) ==
  /\ st = "closed" => g = <<>> /\ q = <<>> /\ l = 0 /\ y = {} /\ n = {}
  /\ st # "closed" => mem \subseteq b
  /\ y \subseteq b /\ y \cap n = {}
  /\ \A i \in 1..Len(g) : cv[g[i]] \in b
  /\ l # 0 => cv[l] \notin y \cup n

Types ==
  /\ redis \in BOOLEAN
  /\ memberOf \in [Conns -> SUBSET Convs]
  /\ convOf \in Seq(Convs) /\ Len(convOf) <= MaxFrames
  /\ tasks \subseteq 1..Len(convOf) /\ (~redis => tasks = {})
  /\ state \in [Conns -> {"closed", "open", "deaf"}]
  /\ lagged \in [Conns -> BOOLEAN]
  /\ queue \in [Conns -> Seq(Nat)] /\ got \in [Conns -> Seq(Nat)]
  /\ looking \in [Conns -> Nat]
  /\ yes \in [Conns -> SUBSET Convs] /\ no \in [Conns -> SUBSET Convs]
  /\ been \in [Conns -> SUBSET Convs]

LineOf(k) == Line(redis, tasks, Len(convOf), got[k], looking[k], queue[k])
SeesOwnOf(k) ==
  SeesOwn(convOf, state[k], memberOf[k], been[k], yes[k], no[k], got[k], looking[k], queue[k])
ConnInv(k) ==
  /\ LineOf(k) /\ SeesOwnOf(k)
  /\ ~redis => Len(queue[k]) <= Capacity

Inv == Types /\ \A k \in Conns : ConnInv(k)

LEMMA InitInv == Init => Inv
<1> SUFFICES ASSUME Init PROVE Inv
  OBVIOUS
<1>1. <<>> \in Seq(Convs) /\ <<>> \in Seq(Nat) /\ Len(<<>>) = 0 /\ Len(convOf) = 0
  BY EmptySeq DEF Init
<1>2. Types
  BY <1>1, CapacityIsPositive DEF Init, Types
<1>3. ASSUME NEW k \in Conns PROVE ConnInv(k)
  <2>1. LineOf(k)
    <3>1. Line(redis, tasks, Len(convOf), <<>>, 0, <<>>)
      BY <1>1, LineEmpty DEF Init
    <3> QED BY <3>1 DEF Init, LineOf
  <2>2. SeesOwnOf(k)
    BY <1>1 DEF Init, SeesOwnOf, SeesOwn
  <2>3. ~redis => Len(queue[k]) <= Capacity
    BY <1>1, CapacityIsPositive DEF Init
  <2> QED BY <2>1, <2>2, <2>3 DEF ConnInv
<1> QED BY <1>2, <1>3 DEF Inv

(* What the invariant says of the numbers in a line.                       *)
LEMMA Ranges ==
  ASSUME Inv
  PROVE  /\ Len(convOf) \in Nat /\ 0 \notin tasks
         /\ \A k \in Conns :
              /\ queue[k] \in Seq(1..Len(convOf)) /\ got[k] \in Seq(1..Len(convOf))
              /\ Len(queue[k]) \in Nat /\ Len(got[k]) \in Nat
              /\ \A i \in 1..Len(got[k]) : got[k][i] \in 1..Len(convOf)
              /\ looking[k] \in 0..Len(convOf)
<1>1. Len(convOf) \in Nat
  BY LenProperties DEF Inv, Types
<1>2. 0 \notin tasks
  BY <1>1 DEF Inv, Types
<1>3. ASSUME NEW k \in Conns
      PROVE  /\ queue[k] \in Seq(1..Len(convOf)) /\ got[k] \in Seq(1..Len(convOf))
             /\ looking[k] \in 0..Len(convOf)
  BY DEF Inv, ConnInv, LineOf, Line
<1> QED BY <1>1, <1>2, <1>3, LenProperties, ElementOfSeq

-----------------------------------------------------------------------------
(* FanOut extends the line of every open connection by the new frame.      *)
LEMMA FansOut ==
  ASSUME Inv, NEW n, FanOut(n), redis' = redis,
         convOf' \in Seq(Convs), Len(convOf) <= Len(convOf'), n \in 1..Len(convOf'),
         redis => n \in tasks /\ tasks' = tasks \ {n},
         ~redis => n > Len(convOf) /\ tasks' = tasks,
         UNCHANGED <<got, looking>>
  PROVE  /\ queue' \in [Conns -> Seq(Nat)] /\ lagged' \in [Conns -> BOOLEAN]
         /\ \A k \in Conns : LineOf(k)' /\ (~redis' => Len(queue'[k]) <= Capacity)
         /\ \A k \in Conns : state[k] = "closed" => queue'[k] = queue[k]
<1>1. Len(convOf') \in Nat /\ Len(convOf) \in Nat /\ n \in Nat
  BY Ranges, LenProperties
<1>2. ASSUME NEW k \in Conns
      PROVE  /\ queue'[k] \in Seq(Nat)
             /\ Line(redis', tasks', Len(convOf'), got'[k], looking'[k], queue'[k])
             /\ ~redis' => Len(queue'[k]) <= Capacity
  <2>1. Line(redis, tasks, Len(convOf), got[k], looking[k], queue[k])
    BY DEF Inv, ConnInv, LineOf
  <2>2. queue[k] \in Seq(Nat) /\ Len(queue[k]) \in Nat
        /\ (~redis => Len(queue[k]) <= Capacity) /\ Capacity \in Nat \ {0}
    BY Ranges, CapacityIsPositive DEF Inv, Types, ConnInv
  <2>3. 0 \notin tasks' /\ tasks' \cap (1..Len(convOf)) \subseteq tasks /\ redis \in BOOLEAN
    BY Ranges DEF Inv, Types
  <2>4. CASE state[k] # "open"
    <3>1. queue'[k] = queue[k]
      BY <2>4 DEF FanOut
    <3>2. Line(redis, tasks', Len(convOf'), got[k], looking[k], queue[k])
      BY <1>1, <2>1, <2>3, LineLater
    <3> QED BY <2>2, <3>1, <3>2
  <2>5. CASE state[k] = "open" /\ ~Overflows(k)
    <3>1. queue'[k] = Append(queue[k], n)
      BY <2>5 DEF FanOut
    <3>2. Line(redis, tasks', Len(convOf'), got[k], looking[k], Append(queue[k], n))
      BY <1>1, <2>1, <2>3, LineArrival
    <3>3. Append(queue[k], n) \in Seq(Nat) /\ Len(Append(queue[k], n)) = Len(queue[k]) + 1
      BY <1>1, <2>2, AppendProperties
    <3>4. ~redis => Len(queue[k]) + 1 <= Capacity
      BY <2>2, <2>5 DEF Overflows
    <3> QED BY <3>1, <3>2, <3>3, <3>4
  <2>6. CASE state[k] = "open" /\ Overflows(k)
    <3>1. queue'[k] = Append(Tail(queue[k]), n)
      BY <2>6 DEF FanOut
    <3>2. ~redis /\ queue[k] # <<>>
      BY <2>2, <2>6, EmptySeq DEF Overflows
    <3>3. Line(redis, tasks, Len(convOf), got[k], looking[k], Tail(queue[k]))
      BY <2>1, <2>3, <3>2, LineDrop
    <3>4. Line(redis, tasks', Len(convOf'), got[k], looking[k], Append(Tail(queue[k]), n))
      BY <1>1, <2>3, <3>3, LineArrival
    <3>5. Tail(queue[k]) \in Seq(Nat) /\ Len(Tail(queue[k])) = Len(queue[k]) - 1
      BY <2>2, <3>2, HeadTailProperties
    <3>6. /\ Append(Tail(queue[k]), n) \in Seq(Nat)
          /\ Len(Append(Tail(queue[k]), n)) = Len(Tail(queue[k])) + 1
      BY <1>1, <3>5, AppendProperties
    <3>7. Len(Append(Tail(queue[k]), n)) <= Capacity
      BY <2>2, <3>2, <3>5, <3>6
    <3> QED BY <3>1, <3>4, <3>6, <3>7
  <2> QED BY <2>4, <2>5, <2>6
<1>3. queue' \in [Conns -> Seq(Nat)] /\ lagged' \in [Conns -> BOOLEAN]
  <2>1. DOMAIN queue' = Conns /\ queue' = [k \in Conns |-> queue'[k]]
    BY DEF FanOut
  <2>2. lagged' \in [Conns -> BOOLEAN]
    BY DEF FanOut, Inv, Types
  <2> QED BY <1>2, <2>1, <2>2
<1>4. \A k \in Conns : state[k] = "closed" => queue'[k] = queue[k]
  BY DEF FanOut
<1> QED BY <1>2, <1>3, <1>4 DEF LineOf

LEMMA PublishInv ==
  ASSUME Inv, NEW c \in Convs, Publish(c)
  PROVE  Inv'
<1> DEFINE n == Len(convOf) + 1
<1>1. /\ convOf' \in Seq(Convs) /\ Len(convOf') = n
      /\ \A i \in 1..Len(convOf) : convOf'[i] = convOf[i]
      /\ Len(convOf) \in Nat /\ n <= MaxFrames /\ n \in 1..n
  BY Ranges, AppendProperties DEF Publish, Inv, Types
<1>2. UNCHANGED <<redis, memberOf, state, yes, no, looking, got, been>>
  BY DEF Publish
<1>3. /\ queue' \in [Conns -> Seq(Nat)] /\ lagged' \in [Conns -> BOOLEAN]
      /\ \A k \in Conns : LineOf(k)' /\ (~redis' => Len(queue'[k]) <= Capacity)
      /\ \A k \in Conns : state[k] = "closed" => queue'[k] = queue[k]
      /\ tasks' \subseteq 1..n /\ (~redis => tasks' = {})
  <2>1. CASE redis
    <3>1. tasks' = tasks \cup {n} /\ UNCHANGED <<queue, lagged>>
      BY <2>1 DEF Publish
    <3>2. tasks' \subseteq 1..n /\ 0 \notin tasks' /\ tasks' \cap (1..Len(convOf)) \subseteq tasks
      <4>1. tasks \subseteq 1..Len(convOf) /\ 0 \notin tasks
        BY Ranges DEF Inv, Types
      <4>2. n \notin 1..Len(convOf) /\ n # 0 /\ 1..Len(convOf) \subseteq 1..n
        BY <1>1
      <4> HIDE DEF n
      <4> QED BY <1>1, <3>1, <4>1, <4>2
    <3>3. ASSUME NEW k \in Conns
          PROVE  Line(redis', tasks', Len(convOf'), got'[k], looking'[k], queue'[k])
      <4>1. Line(redis, tasks, Len(convOf), got[k], looking[k], queue[k]) /\ redis \in BOOLEAN
        BY DEF Inv, Types, ConnInv, LineOf
      <4>2. Line(redis, tasks', Len(convOf'), got[k], looking[k], queue[k])
        BY <1>1, <3>2, <4>1, LineLater
      <4> QED BY <1>2, <3>1, <4>2
    <3> QED BY <1>2, <2>1, <3>1, <3>2, <3>3 DEF Inv, Types, ConnInv, LineOf
  <2>2. CASE ~redis
    <3>1. FanOut(n) /\ tasks' = tasks /\ tasks = {}
      BY <2>2 DEF Publish, Inv, Types
    <3> HIDE DEF n
    <3>2. Len(convOf) <= Len(convOf') /\ n \in 1..Len(convOf') /\ n > Len(convOf)
      BY <1>1 DEF n
    <3> QED BY <1>1, <1>2, <2>2, <3>1, <3>2, FansOut
  <2> QED BY <2>1, <2>2 DEF Inv, Types
<1>4. Types'
  BY <1>1, <1>2, <1>3 DEF Inv, Types
<1>5. ASSUME NEW k \in Conns
      PROVE  SeesOwn(convOf', state'[k], memberOf'[k], been'[k], yes'[k], no'[k], got'[k],
                     looking'[k], queue'[k])
  <2>1. SeesOwnOf(k)
    BY DEF Inv, ConnInv
  <2>2. looking[k] # 0 => convOf'[looking[k]] = convOf[looking[k]]
    BY <1>1, Ranges
  <2>3. \A i \in 1..Len(got[k]) : convOf'[got[k][i]] = convOf[got[k][i]]
    BY <1>1, Ranges
  <2> QED BY <1>2, <1>3, <2>1, <2>2, <2>3 DEF SeesOwnOf, SeesOwn
<1> QED BY <1>3, <1>4, <1>5 DEF Inv, ConnInv, SeesOwnOf

LEMMA RunTaskInv ==
  ASSUME Inv, NEW n \in tasks, RunTask(n)
  PROVE  Inv'
<1>1. redis /\ UNCHANGED <<redis, memberOf, convOf, state, yes, no, looking, got, been>>
      /\ FanOut(n) /\ tasks' = tasks \ {n} /\ n \in 1..Len(convOf)
  BY DEF RunTask, Inv, Types
<1>2. convOf' \in Seq(Convs) /\ Len(convOf) <= Len(convOf') /\ n \in 1..Len(convOf')
  BY <1>1, Ranges DEF Inv, Types
<1>3. /\ queue' \in [Conns -> Seq(Nat)] /\ lagged' \in [Conns -> BOOLEAN]
      /\ \A k \in Conns : LineOf(k)' /\ (~redis' => Len(queue'[k]) <= Capacity)
      /\ \A k \in Conns : state[k] = "closed" => queue'[k] = queue[k]
  BY <1>1, <1>2, FansOut
<1>4. Types'
  BY <1>1, <1>3 DEF Inv, Types
<1>5. ASSUME NEW k \in Conns PROVE SeesOwnOf(k)'
  BY <1>1, <1>3 DEF Inv, ConnInv, SeesOwnOf, SeesOwn
<1> QED BY <1>3, <1>4, <1>5 DEF Inv, ConnInv

LEMMA LoseTaskInv ==
  ASSUME Inv, NEW n \in tasks, LoseTask(n)
  PROVE  Inv'
<1>1. tasks' = tasks \ {n} /\ UNCHANGED <<redis, memberOf, convOf, link>>
  BY DEF LoseTask
<1>2. Types'
  BY <1>1 DEF Inv, Types, link
<1>3. ASSUME NEW k \in Conns PROVE ConnInv(k)'
  <2>1. Line(redis, tasks, Len(convOf), got[k], looking[k], queue[k]) /\ redis \in BOOLEAN
    BY DEF Inv, Types, ConnInv, LineOf
  <2>2. 0 \notin tasks' /\ tasks' \cap (1..Len(convOf)) \subseteq tasks /\ Len(convOf) \in Nat
    BY <1>1, Ranges
  <2>3. Line(redis, tasks', Len(convOf), got[k], looking[k], queue[k])
    BY <2>1, <2>2, LineLater
  <2> QED BY <1>1, <2>3 DEF Inv, ConnInv, LineOf, SeesOwnOf, link
<1> QED BY <1>2, <1>3 DEF Inv

-----------------------------------------------------------------------------
(* A step of one connection, or of its user, is judged by that one alone.  *)
LEMMA OneConnection ==
  ASSUME Inv, NEW k \in Conns, Types', UNCHANGED <<redis, convOf, tasks>>, ConnInv(k)',
         \A o \in Conns \ {k} :
           /\ state'[o] = state[o] /\ memberOf'[o] = memberOf[o] /\ been'[o] = been[o]
           /\ yes'[o] = yes[o] /\ no'[o] = no[o] /\ got'[o] = got[o]
           /\ looking'[o] = looking[o] /\ queue'[o] = queue[o]
  PROVE  Inv'
<1>1. ASSUME NEW o \in Conns, o # k PROVE ConnInv(o)'
  BY <1>1 DEF Inv, ConnInv, LineOf, SeesOwnOf
<1> QED BY <1>1 DEF Inv

LEMMA OpenInv ==
  ASSUME Inv, NEW k \in Conns, NEW subscribed \in BOOLEAN, Open(k, subscribed)
  PROVE  Inv'
<1>1. Types'
  BY DEF Open, Inv, Types
<1>2. ConnInv(k)'
  <2>1. state'[k] # "closed" /\ been'[k] = memberOf[k]
    BY DEF Open, Inv, Types
  <2>2. got[k] = <<>> /\ yes[k] = {} /\ no[k] = {} /\ looking[k] = 0
    BY DEF Open, Inv, ConnInv, SeesOwnOf, SeesOwn
  <2>3. Len(got[k]) = 0
    BY <2>2, EmptySeq
  <2>4. SeesOwnOf(k)'
    BY <2>1, <2>2, <2>3 DEF Open, SeesOwnOf, SeesOwn
  <2> QED BY <2>4 DEF Open, Inv, ConnInv, LineOf
<1> QED BY <1>1, <1>2, OneConnection DEF Open, Inv, Types

LEMMA BusLostInv ==
  ASSUME Inv, NEW k \in Conns, BusLost(k)
  PROVE  Inv'
<1>1. Types'
  BY DEF BusLost, Inv, Types
<1>2. ConnInv(k)'
  BY DEF BusLost, Inv, Types, ConnInv, LineOf, SeesOwnOf, SeesOwn
<1> QED BY <1>1, <1>2, OneConnection DEF BusLost, Inv, Types

LEMMA CloseInv ==
  ASSUME Inv, NEW k \in Conns, Close(k)
  PROVE  Inv'
<1>1. <<>> \in Seq(Nat) /\ Len(<<>>) = 0
  BY EmptySeq
<1>2. Types'
  BY <1>1 DEF Close, Inv, Types
<1>3. /\ got'[k] = <<>> /\ queue'[k] = <<>> /\ looking'[k] = 0 /\ state'[k] = "closed"
      /\ yes'[k] = {} /\ no'[k] = {} /\ been'[k] = {}
      /\ UNCHANGED <<redis, tasks, convOf>>
  BY DEF Close, Inv, Types
<1>4. ConnInv(k)'
  <2>1. Line(redis, tasks, Len(convOf), <<>>, 0, <<>>)
    BY Ranges, LineEmpty DEF Inv, Types
  <2>2. SeesOwnOf(k)'
    BY <1>1, <1>3 DEF SeesOwnOf, SeesOwn
  <2>3. ~redis' => Len(queue'[k]) <= Capacity
    BY <1>1, <1>3, CapacityIsPositive
  <2> QED BY <1>3, <2>1, <2>2, <2>3 DEF ConnInv, LineOf
<1> QED BY <1>2, <1>4, OneConnection DEF Close, Inv, Types

LEMMA SkipLagInv ==
  ASSUME Inv, NEW k \in Conns, SkipLag(k)
  PROVE  Inv'
BY DEF SkipLag, Inv, Types, ConnInv, LineOf, SeesOwnOf

(* The frame is dropped, forwarded as if it had been looked up, or looked  *)
(* up.                                                                     *)
LEMMA TakeInv ==
  ASSUME Inv, NEW k \in Conns, Take(k)
  PROVE  Inv'
<1> DEFINE n == Head(queue[k])
           c == convOf[n]
<1>1. /\ looking[k] = 0 /\ queue[k] # <<>>
      /\ queue' = [queue EXCEPT ![k] = Tail(@)]
      /\ got' = IF c \in yes[k] THEN [got EXCEPT ![k] = Append(@, n)] ELSE got
      /\ looking' = [looking EXCEPT ![k] = IF c \in yes[k] \cup no[k] THEN 0 ELSE n]
      /\ UNCHANGED <<redis, memberOf, convOf, tasks, state, lagged, yes, no, been>>
  BY DEF Take, Forward
<1>2. /\ n \in 1..Len(convOf) /\ n \in Nat /\ n # 0
      /\ Tail(queue[k]) \in Seq(Nat)
      /\ Len(Tail(queue[k])) = Len(queue[k]) - 1
  BY <1>1, Ranges, HeadTailProperties DEF Inv, Types
<1>3. /\ Append(got[k], n) \in Seq(Nat)
      /\ Len(Append(got[k], n)) = Len(got[k]) + 1
      /\ \A i \in 1..Len(got[k]) : Append(got[k], n)[i] = got[k][i]
      /\ Append(got[k], n)[Len(got[k]) + 1] = n
  BY <1>2, AppendProperties DEF Inv, Types
<1> HIDE DEF n
<1>4. Types'
  BY <1>1, <1>2, <1>3 DEF Inv, Types
<1>5. /\ queue'[k] = Tail(queue[k])
      /\ got'[k] = IF c \in yes[k] THEN Append(got[k], n) ELSE got[k]
      /\ looking'[k] = IF c \in yes[k] \cup no[k] THEN 0 ELSE n
  BY <1>1 DEF Inv, Types
<1>6. LineOf(k)'
  <2>1. Line(redis, tasks, Len(convOf), got[k], 0, queue[k]) /\ redis \in BOOLEAN /\ 0 \notin tasks
    BY <1>1, Ranges DEF Inv, Types, ConnInv, LineOf
  <2>2. Line(redis, tasks, Len(convOf), got[k], n, Tail(queue[k]))
    BY <1>1, <2>1, LineLookup DEF n
  <2>3. /\ Line(redis, tasks, Len(convOf), Append(got[k], n), 0, Tail(queue[k]))
        /\ Line(redis, tasks, Len(convOf), got[k], 0, Tail(queue[k]))
    BY <1>2, <2>1, <2>2, LineForward
  <2> QED BY <1>1, <1>5, <2>2, <2>3 DEF LineOf
<1>7. SeesOwnOf(k)'
  <2>1. SeesOwn(convOf, state[k], memberOf[k], been[k], yes[k], no[k], got[k], 0, queue[k])
    BY <1>1 DEF Inv, ConnInv, SeesOwnOf
  <2>2. state[k] # "closed" /\ Len(got[k]) \in Nat
    BY <1>1, <2>1, Ranges DEF SeesOwn
  <2>3. \A i \in 1..Len(got'[k]) : convOf[got'[k][i]] \in been[k]
    <3>1. \A i \in 1..(Len(got[k]) + 1) : i \in 1..Len(got[k]) \/ i = Len(got[k]) + 1
      BY <2>2
    <3> QED BY <1>3, <1>5, <2>1, <3>1 DEF SeesOwn
  <2> QED BY <1>1, <1>5, <2>1, <2>2, <2>3 DEF SeesOwnOf, SeesOwn
<1>8. ~redis' => Len(queue'[k]) <= Capacity
  BY <1>1, <1>2, <1>5, Ranges, CapacityIsPositive DEF Inv, ConnInv
<1> QED BY <1>1, <1>4, <1>6, <1>7, <1>8, OneConnection DEF Inv, Types, ConnInv

LEMMA LookupInv ==
  ASSUME Inv, NEW k \in Conns, NEW fails \in BOOLEAN, Lookup(k, fails)
  PROVE  Inv'
<1> DEFINE n == looking[k]
           c == convOf[n]
           member == c \in memberOf[k] /\ ~fails
<1>1. /\ n # 0
      /\ yes' = [yes EXCEPT ![k] = IF member THEN @ \cup {c} ELSE @]
      /\ no' = [no EXCEPT ![k] = IF member THEN @ ELSE @ \cup {c}]
      /\ got' = IF member THEN [got EXCEPT ![k] = Append(@, n)] ELSE got
      /\ looking' = [looking EXCEPT ![k] = 0]
      /\ UNCHANGED <<redis, memberOf, convOf, tasks, state, queue, lagged, been>>
  BY DEF Lookup, Forward
<1>2. n \in 1..Len(convOf) /\ n \in Nat /\ c \in Convs
  BY <1>1, Ranges, ElementOfSeq DEF Inv, Types
<1>3. /\ Append(got[k], n) \in Seq(Nat)
      /\ Len(Append(got[k], n)) = Len(got[k]) + 1
      /\ \A i \in 1..Len(got[k]) : Append(got[k], n)[i] = got[k][i]
      /\ Append(got[k], n)[Len(got[k]) + 1] = n
  BY <1>2, AppendProperties DEF Inv, Types
<1> HIDE DEF c
<1>4. Types'
  <2>1. got' \in [Conns -> Seq(Nat)]
    BY <1>1, <1>3 DEF Inv, Types
  <2> QED BY <1>1, <1>2, <2>1 DEF Inv, Types
<1>5. /\ yes'[k] = IF member THEN yes[k] \cup {c} ELSE yes[k]
      /\ no'[k] = IF member THEN no[k] ELSE no[k] \cup {c}
      /\ got'[k] = IF member THEN Append(got[k], n) ELSE got[k]
      /\ looking'[k] = 0
  BY <1>1 DEF Inv, Types
<1>6. LineOf(k)'
  <2>1. Line(redis, tasks, Len(convOf), got[k], n, queue[k]) /\ redis \in BOOLEAN /\ 0 \notin tasks
    BY <1>1, Ranges DEF Inv, Types, ConnInv, LineOf
  <2>2. /\ Line(redis, tasks, Len(convOf), Append(got[k], n), 0, queue[k])
        /\ Line(redis, tasks, Len(convOf), got[k], 0, queue[k])
    BY <1>1, <2>1, LineForward
  <2> QED BY <1>1, <1>5, <2>2 DEF LineOf
<1>7. SeesOwnOf(k)'
  <2>1. SeesOwn(convOf, state[k], memberOf[k], been[k], yes[k], no[k], got[k], n, queue[k])
    BY DEF Inv, ConnInv, SeesOwnOf
  <2>2. state[k] # "closed" /\ memberOf[k] \subseteq been[k] /\ c \notin yes[k] \cup no[k]
        /\ Len(got[k]) \in Nat
    BY <1>1, <2>1, Ranges DEF SeesOwn, c
  <2>3. member => c \in been[k]
    BY <2>2
  <2>4. \A i \in 1..Len(got'[k]) : convOf[got'[k][i]] \in been[k]
    <3>1. \A i \in 1..(Len(got[k]) + 1) : i \in 1..Len(got[k]) \/ i = Len(got[k]) + 1
      BY <2>2
    <3>2. CASE member
      <4>1. convOf[n] \in been[k]
        BY <2>3, <3>2 DEF c
      <4>2. \A i \in 1..Len(got[k]) : convOf[got[k][i]] \in been[k]
        BY <2>1 DEF SeesOwn
      <4> QED BY <1>3, <1>5, <3>1, <3>2, <4>1, <4>2
    <3>3. CASE ~member
      BY <1>5, <2>1, <3>3 DEF SeesOwn
    <3> QED BY <3>2, <3>3
  <2>5. yes'[k] \subseteq been[k] /\ yes'[k] \cap no'[k] = {}
    BY <1>5, <2>1, <2>2, <2>3 DEF SeesOwn
  <2> QED BY <1>1, <1>5, <2>2, <2>4, <2>5 DEF SeesOwnOf, SeesOwn
<1>8. ~redis' => Len(queue'[k]) <= Capacity
  BY <1>1 DEF Inv, ConnInv
<1>9. \A o \in Conns \ {k} : yes'[o] = yes[o] /\ no'[o] = no[o] /\ got'[o] = got[o]
                              /\ looking'[o] = looking[o]
  BY <1>1 DEF Inv, Types
<1> QED BY <1>1, <1>4, <1>6, <1>7, <1>8, <1>9, OneConnection DEF ConnInv

LEMMA JoinInv ==
  ASSUME Inv, NEW k \in Conns, NEW c \in Convs, Join(k, c)
  PROVE  Inv'
<1>1. Types'
  BY DEF Join, Inv, Types
<1>2. ConnInv(k)'
  <2>1. /\ memberOf'[k] = memberOf[k] \cup {c}
        /\ been'[k] = IF state[k] = "closed" THEN been[k] ELSE been[k] \cup {c}
        /\ UNCHANGED <<redis, convOf, tasks, state, queue, yes, no, looking, got>>
    BY DEF Join, Inv, Types
  <2> QED BY <2>1 DEF Inv, ConnInv, LineOf, SeesOwnOf, SeesOwn
<1> QED BY <1>1, <1>2, OneConnection DEF Join, Inv, Types

LEMMA LeaveInv ==
  ASSUME Inv, NEW k \in Conns, NEW c \in Convs, Leave(k, c)
  PROVE  Inv'
<1>1. Types'
  BY DEF Leave, Inv, Types, link
<1>2. ConnInv(k)'
  <2>1. memberOf'[k] = memberOf[k] \ {c} /\ UNCHANGED <<redis, convOf, tasks, link>>
    BY DEF Leave, Inv, Types
  <2> QED BY <2>1 DEF Inv, ConnInv, LineOf, SeesOwnOf, SeesOwn, link
<1> QED BY <1>1, <1>2, OneConnection DEF Leave, Inv, Types, link

LEMMA StepInv == Inv /\ [Next]_vars => Inv'
<1> SUFFICES ASSUME Inv, [Next]_vars PROVE Inv'
  OBVIOUS
<1>1. CASE \E c \in Convs : Publish(c)
  BY <1>1, PublishInv
<1>2. CASE \E n \in tasks : RunTask(n) \/ LoseTask(n)
  BY <1>2, RunTaskInv, LoseTaskInv
<1>3. CASE \E k \in Conns : \/ \E subscribed \in BOOLEAN : Open(k, subscribed)
                             \/ BusLost(k) \/ Close(k)
  BY <1>3, OpenInv, BusLostInv, CloseInv
<1>4. CASE \E k \in Conns : Pump(k)
  BY <1>4, SkipLagInv, TakeInv, LookupInv DEF Pump
<1>5. CASE \E k \in Conns, c \in Convs : Join(k, c) \/ Leave(k, c)
  BY <1>5, JoinInv, LeaveInv
<1>6. CASE UNCHANGED vars
  BY <1>6 DEF vars, Inv, Types, ConnInv, LineOf, SeesOwnOf
<1> QED BY <1>1, <1>2, <1>3, <1>4, <1>5, <1>6 DEF Next

LEMMA Invariance == Spec => []Inv
BY InitInv, StepInv, PTL DEF Spec

-----------------------------------------------------------------------------
(* Queues, caches and lookups hold frames that were published, a broadcast *)
(* receiver never more than the channel's capacity.                        *)
THEOREM TypeCorrect == Spec => []TypeOK
<1>1. Inv => TypeOK
  <2> SUFFICES ASSUME Inv PROVE TypeOK
    OBVIOUS
  <2>1. ASSUME NEW k \in Conns
        PROVE  /\ ToSet(queue[k]) \subseteq 1..Len(convOf)
               /\ ~redis => Len(queue[k]) <= Capacity
               /\ looking[k] \in 0..Len(convOf)
               /\ yes[k] \subseteq Convs /\ no[k] \subseteq Convs /\ yes[k] \cap no[k] = {}
    <3>1. ToSet(queue[k]) \subseteq 1..Len(convOf)
      BY Ranges, LenProperties, ElementOfSeq DEF ToSet
    <3> QED BY <3>1, Ranges DEF Inv, Types, ConnInv, SeesOwnOf, SeesOwn
  <2> QED BY <2>1 DEF TypeOK, Inv, Types
<1> QED BY <1>1, Invariance, PTL

(* Only the members of a conversation, past or present, see its frames.    *)
THEOREM ForwardedOnlyToMembers == Spec => []ForwardedToMembers
<1>1. Inv => ForwardedToMembers
  <2> SUFFICES ASSUME Inv, NEW k \in Conns, NEW n \in ToSet(got[k])
               PROVE  convOf[n] \in been[k]
    BY DEF ForwardedToMembers
  <2>1. PICK i \in 1..Len(got[k]) : n = got[k][i]
    BY Ranges, LenProperties DEF ToSet
  <2> QED BY <2>1 DEF Inv, ConnInv, SeesOwnOf, SeesOwn
<1> QED BY <1>1, Invariance, PTL

(* One server forwards in the order of publication; with Redis no frame is *)
(* forwarded twice to a connection.                                        *)
THEOREM KeepsOrder == Spec => []InOrder
<1>1. Inv => InOrder
  <2> SUFFICES ASSUME Inv, NEW k \in Conns, NEW i \in 1..Len(got[k]), NEW j \in 1..Len(got[k]),
                      i < j
               PROVE  IF redis THEN got[k][i] # got[k][j] ELSE got[k][i] < got[k][j]
    BY DEF InOrder
  <2>1. Before(redis, got[k][i], got[k][j])
    BY DEF Inv, ConnInv, LineOf, Line, Ordered
  <2> QED BY <2>1 DEF Before
<1> QED BY <1>1, Invariance, PTL
=============================================================================
