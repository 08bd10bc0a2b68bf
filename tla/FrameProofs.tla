---------------------------- MODULE FrameProofs -----------------------------
(***************************************************************************)
(* Proofs about Frame: for any function, any path through it, any labels   *)
(* and any bounds.                                                         *)
(***************************************************************************)
EXTENDS Frame, SequenceTheorems, FiniteSetTheorems, TLAPS

Kinds == {"if_end", "else", "start", "end", "condition", "epilogue"}
Tasks == {"statement", "item", "items", "close", "end_function", "if_end", "else",
          "end_while", "end_do", "end_for"}
TaskSet == [do : Tasks, n : Nat]
LoopLabel == Kinds \X Nat
Label == {NoLabel} \cup ({"user"} \X Labels) \cup LoopLabel
Instr == [op : Op, label : Label, by : Nat, at : Nat]

(***************************************************************************)
(* How disciplined the function is: 2 without any jumps, labels and calls  *)
(* with arguments on the stack, 1 with break and continue only, 0 with     *)
(* others of these.  What is claimed of the stack index depends on it,     *)
(* nothing at 0; it only goes down.                                        *)
(***************************************************************************)
Discipline == IF uses = {} THEN 2 ELSE IF uses \subseteq {"loop"} THEN 1 ELSE 0

(***************************************************************************)
(* What is known of the work left when it was all there was to come: an    *)
(* entry for each task, with the context the task will find.               *)
(***************************************************************************)
Entry == [task : TaskSet, idx : Nat, scopes : Seq(Nat), open : Nat,
          breaks : Seq(LoopLabel), conts : Seq(LoopLabel)]

\* The label that continue goes to, and the labels a task still has to emit.
Cont(t) == <<IF t.do = "end_while" THEN "start"
             ELSE IF t.do = "end_do" THEN "condition" ELSE "epilogue", t.n>>
Owes(t) ==
  CASE t.do \in {"else", "if_end"} -> {<<t.do, t.n>>}
    [] t.do = "end_while" -> {<<"end", t.n>>}
    [] t.do \in {"end_do", "end_for"} -> {Cont(t), <<"end", t.n>>}
    [] OTHER -> {}

\* A close finds the variables of its scope, a loop its labels.
Right(f, e) ==
  /\ Len(e.breaks) = Len(e.conts)
  /\ e.task.do = "close" =>
       /\ e.open >= 1
       /\ f >= 1 => e.scopes # <<>> /\ e.task.n = e.idx - 4 * Head(e.scopes)
  /\ e.task.do \in Loops =>
       /\ e.breaks # <<>> /\ Head(e.breaks) = <<"end", e.task.n>>
       /\ e.conts # <<>> /\ Head(e.conts) = Cont(e.task)

\* What a task leaves to the next one.
Before(f, e, g) ==
  /\ e.task.do # "end_function"
  /\ g.open = IF e.task.do = "close" THEN e.open - 1 ELSE e.open
  /\ g.breaks = IF e.task.do \in Loops THEN Tail(e.breaks) ELSE e.breaks
  /\ g.conts = IF e.task.do \in Loops THEN Tail(e.conts) ELSE e.conts
  /\ f >= 1 =>
       /\ g.idx = IF e.task.do = "close" THEN e.task.n ELSE e.idx
       /\ g.scopes = IF e.task.do = "close" THEN Tail(e.scopes) ELSE e.scopes
       /\ e.task.do = "item" => g.task.do = "items"
       /\ e.task.do = "items" => g.task.do = "close"

Above(f, e, g) ==
  /\ Owes(e.task) \cap Owes(g.task) = {}
  /\ f >= 1 => g.idx <= e.idx

\* The end of an if is behind its else; a loop that is open has its end.
Ends(f, e, g) == g.task = Task("if_end", e.task.n) /\ (f >= 1 => g.idx = e.idx)
Owns(e, g) == g.task.do \in Loops /\ g.breaks = e.breaks /\ g.conts = e.conts

Well(f, q) ==
  /\ \A i \in 1 .. Len(q) : Right(f, q[i])
  /\ \A i \in 1 .. Len(q) - 1 : Before(f, q[i], q[i + 1])
  /\ \A i, j \in 1 .. Len(q) : i < j => Above(f, q[i], q[j])
  /\ \A i \in 1 .. Len(q) : q[i].task.do = "else" =>
       \E j \in 1 .. Len(q) : i < j /\ Ends(f, q[i], q[j])
  /\ \A i \in 1 .. Len(q) : q[i].breaks # <<>> =>
       \E j \in 1 .. Len(q) : i <= j /\ Owns(q[i], q[j])
  /\ q # <<>> =>
       /\ q[Len(q)].task.do = "end_function"
       /\ q[Len(q)].open = 0 /\ q[Len(q)].breaks = <<>>

(***************************************************************************)
(* Labels and jumps, with the stack index they were emitted at.            *)
(***************************************************************************)
MarksOf(c) == {<<c[i].label, c[i].at>> : i \in {j \in 1 .. Len(c) : c[j].op = "label"}}
JumpsOf(c) == {<<c[i].label, c[i].at>> : i \in {j \in 1 .. Len(c) : c[j].op \in {"jmp", "branch"}}}
OwedBy(e) == {<<l, e.idx>> : l \in Owes(e.task)}
OwedOf(q) == UNION {OwedBy(q[i]) : i \in 1 .. Len(q)}
Once(c) == \A i, j \in 1 .. Len(c) :
  c[i].op = "label" /\ c[j].op = "label" /\ c[i].label = c[j].label => i = j

\* A jump at index a may go to index b.
Fits(f, a, b) == (f >= 1 => a >= b) /\ (f = 2 => a = b)

\* A loop that jumps back has emitted where to.
Backed(f, M, e) ==
  /\ e.task.do \in {"end_while", "end_do"} =>
       \E m \in M : m[1] = <<"start", e.task.n>> /\ (f >= 1 => m[2] = e.idx)
  /\ e.task.do = "end_for" =>
       \E m \in M : m[1] = <<"condition", e.task.n>> /\ (f >= 1 => m[2] = e.idx)

TasksOf(q) == [i \in 1 .. Len(q) |-> q[i].task]

\* A plan, where the code so far has the marks M, and the context its first
\* task will find.
Ready(f, M, p) ==
  p \in Seq(Entry) /\ p # <<>> /\ Well(f, p) /\ \A i \in 1 .. Len(p) : Backed(f, M, p[i])

Finds(f, p, x, s, o, b, c) ==
  /\ p[1].open = o /\ p[1].breaks = b /\ p[1].conts = c
  /\ f >= 1 => p[1].idx = x /\ p[1].scopes = s

-----------------------------------------------------------------------------
(***************************************************************************)
(* The work left.                                                          *)
(***************************************************************************)
\* A push and what it hides.
LEMMA Pushed ==
  ASSUME NEW S, NEW x \in S, NEW s \in Seq(S)
  PROVE  /\ <<x>> \o s \in Seq(S) /\ Len(<<x>> \o s) = Len(s) + 1 /\ <<x>> \o s # <<>>
         /\ (<<x>> \o s)[1] = x /\ \A i \in 1 .. Len(s) : (<<x>> \o s)[i + 1] = s[i]
         /\ Head(<<x>> \o s) = x /\ Tail(<<x>> \o s) = s
PROOF
  <1> DEFINE o == <<x>>
             t == o \o s
  <1>1. o \in Seq(S) /\ Len(o) = 1 /\ o[1] = x /\ Len(s) \in Nat
    BY LenProperties
  <1> HIDE DEF o
  <1>2. /\ t \in Seq(S) /\ Len(t) = 1 + Len(s)
        /\ \A i \in 1 .. 1 + Len(s) : t[i] = IF i <= 1 THEN o[i] ELSE s[i - 1]
    <2>1. /\ t \in Seq(S) /\ Len(t) = Len(o) + Len(s)
          /\ \A i \in 1 .. Len(o) + Len(s) : t[i] = IF i <= Len(o) THEN o[i] ELSE s[i - Len(o)]
      BY <1>1, ConcatProperties
    <2>. QED BY <1>1, <2>1
  <1>3. t # <<>>
    BY <1>1, <1>2, EmptySeq
  <1>4. Head(t) = t[1] /\ t[1] = x
    BY <1>1, <1>2, <1>3
  <1>5. Tail(t) \in Seq(S) /\ Len(Tail(t)) = Len(s) /\ \A i \in 1 .. Len(s) : Tail(t)[i] = s[i]
    <2>1. /\ Tail(t) \in Seq(S) /\ Len(Tail(t)) = Len(t) - 1
          /\ \A i \in 1 .. Len(t) - 1 : Tail(t)[i] = t[i + 1]
      BY <1>2, <1>3, HeadTailProperties
    <2>2. ASSUME NEW i \in 1 .. Len(s) PROVE t[i + 1] = s[i]
      <3>1. i + 1 \in 1 .. 1 + Len(s) /\ ~(i + 1 <= 1) /\ (i + 1) - 1 = i
        BY <1>1
      <3>. QED BY <1>2, <3>1
    <2>3. Len(t) - 1 = Len(s)
      BY <1>1, <1>2
    <2>. QED BY <2>1, <2>2, <2>3
  <1>6. \A i \in 1 .. Len(s) : t[i + 1] = s[i]
    <2>. SUFFICES ASSUME NEW i \in 1 .. Len(s) PROVE t[i + 1] = s[i]
      OBVIOUS
    <2>1. i + 1 \in 1 .. 1 + Len(s) /\ ~(i + 1 <= 1) /\ (i + 1) - 1 = i
      BY <1>1
    <2>. QED BY <1>2, <2>1
  <1>7. Tail(t) = s
    BY <1>5, SeqEqual
  <1>. QED BY <1>1, <1>2, <1>3, <1>4, <1>7, <1>6 DEF o

\* An entry that fits on top of a plan.
OnTop(f, M, p, e) ==
  /\ e \in Entry /\ Right(f, e) /\ Before(f, e, p[1]) /\ Backed(f, M, e)
  /\ \A j \in 1 .. Len(p) : Above(f, e, p[j])
  /\ e.task.do = "else" => \E j \in 1 .. Len(p) : Ends(f, e, p[j])
  /\ e.breaks # <<>> => Owns(e, e) \/ \E j \in 1 .. Len(p) : Owns(e, p[j])

\* Such an entry makes a plan of one entry more.
LEMMA Stacked ==
  ASSUME NEW f \in Nat, NEW M, NEW p, Ready(f, M, p), NEW e, OnTop(f, M, p, e)
  PROVE  Ready(f, M, <<e>> \o p) /\ (<<e>> \o p)[1] = e
PROOF
  <1>1. /\ e \in Entry /\ Right(f, e) /\ Before(f, e, p[1]) /\ Backed(f, M, e)
        /\ \A j \in 1 .. Len(p) : Above(f, e, p[j])
        /\ e.task.do = "else" => \E j \in 1 .. Len(p) : Ends(f, e, p[j])
        /\ e.breaks # <<>> => Owns(e, e) \/ \E j \in 1 .. Len(p) : Owns(e, p[j])
    BY DEF OnTop
  <1> DEFINE n == Len(p)
             r == <<e>> \o p
  <1>2. p \in Seq(Entry) /\ p # <<>> /\ Well(f, p) /\ n \in Nat \ {0}
    BY EmptySeq, LenProperties DEF Ready
  <1>3. /\ r \in Seq(Entry) /\ Len(r) = n + 1 /\ r # <<>> /\ r[1] = e
        /\ \A i \in 1 .. n : r[i + 1] = p[i]
    BY <1>1, <1>2, Pushed
  <1> HIDE DEF n, r
  <1>4. ASSUME NEW k \in 1 .. Len(r), k # 1 PROVE k - 1 \in 1 .. n /\ r[k] = p[k - 1]
    <2>1. k - 1 \in 1 .. n /\ (k - 1) + 1 = k
      BY <1>2, <1>3, <1>4
    <2>. QED BY <1>3, <2>1
  <1>5. \A i \in 1 .. Len(r) : Right(f, r[i]) /\ Backed(f, M, r[i])
    <2>1. \A i \in 1 .. n : Right(f, p[i]) /\ Backed(f, M, p[i])
      BY DEF Ready, Well, n
    <2>. QED BY <1>1, <1>3, <1>4, <2>1
  <1>6. ASSUME NEW k \in 1 .. Len(r) - 1 PROVE Before(f, r[k], r[k + 1])
    <2>1. CASE k = 1
      <3>1. 1 \in 1 .. n /\ r[1 + 1] = p[1]
        BY <1>2, <1>3
      <3>. QED BY <1>1, <1>3, <2>1, <3>1
    <2>2. CASE k # 1
      <3>1. k \in 1 .. Len(r) /\ k \in 1 .. n /\ k - 1 \in 1 .. n - 1 /\ (k - 1) + 1 = k
        BY <1>2, <1>3, <2>2
      <3>2. r[k] = p[k - 1] /\ r[k + 1] = p[k]
        BY <1>3, <1>4, <2>2, <3>1
      <3>3. Before(f, p[k - 1], p[(k - 1) + 1])
        BY <1>2, <3>1 DEF Well, n
      <3>. QED BY <3>1, <3>2, <3>3
    <2>. QED BY <2>1, <2>2
  <1>7. ASSUME NEW a \in 1 .. Len(r), NEW b \in 1 .. Len(r), a < b PROVE Above(f, r[a], r[b])
    <2>1. b # 1
      BY <1>7
    <2>2. b - 1 \in 1 .. n /\ r[b] = p[b - 1]
      BY <1>4, <2>1
    <2>3. CASE a = 1
      BY <1>1, <1>3, <2>2, <2>3 DEF n
    <2>4. CASE a # 1
      <3>1. a - 1 \in 1 .. n /\ r[a] = p[a - 1] /\ a - 1 < b - 1
        BY <1>3, <1>4, <1>7, <2>4
      <3>. QED BY <1>2, <2>2, <3>1 DEF Well, n
    <2>. QED BY <2>3, <2>4
  <1>8. ASSUME NEW k \in 1 .. Len(r), r[k].task.do = "else"
        PROVE  \E j \in 1 .. Len(r) : k < j /\ Ends(f, r[k], r[j])
    <2>1. CASE k = 1
      <3>1. PICK j \in 1 .. n : Ends(f, e, p[j])
        BY <1>1, <1>3, <1>8, <2>1 DEF n
      <3>2. j + 1 \in 1 .. Len(r) /\ k < j + 1 /\ r[j + 1] = p[j]
        BY <1>2, <1>3, <2>1
      <3>. QED BY <1>3, <2>1, <3>1, <3>2
    <2>2. CASE k # 1
      <3>1. k - 1 \in 1 .. n /\ r[k] = p[k - 1]
        BY <1>4, <2>2
      <3>2. PICK j \in 1 .. n : k - 1 < j /\ Ends(f, p[k - 1], p[j])
        BY <1>2, <1>8, <3>1 DEF Well, n
      <3>3. j + 1 \in 1 .. Len(r) /\ k < j + 1 /\ r[j + 1] = p[j]
        BY <1>2, <1>3, <3>2
      <3>. QED BY <3>1, <3>2, <3>3
    <2>. QED BY <2>1, <2>2
  <1>9. ASSUME NEW k \in 1 .. Len(r), r[k].breaks # <<>>
        PROVE  \E j \in 1 .. Len(r) : k <= j /\ Owns(r[k], r[j])
    <2>1. CASE k = 1
      <3>1. CASE Owns(e, e)
        <4>1. k <= k
          OBVIOUS
        <4>. QED BY <1>3, <2>1, <3>1, <4>1
      <3>2. ASSUME NEW j \in 1 .. n, Owns(e, p[j])
            PROVE  \E i \in 1 .. Len(r) : k <= i /\ Owns(r[k], r[i])
        <4>1. j + 1 \in 1 .. Len(r) /\ k <= j + 1 /\ r[j + 1] = p[j]
          BY <1>2, <1>3, <2>1
        <4>. QED BY <1>3, <2>1, <3>2, <4>1
      <3>. QED BY <1>1, <1>3, <1>9, <2>1, <3>1, <3>2 DEF n
    <2>2. CASE k # 1
      <3>1. k - 1 \in 1 .. n /\ r[k] = p[k - 1]
        BY <1>4, <2>2
      <3>2. PICK j \in 1 .. n : k - 1 <= j /\ Owns(p[k - 1], p[j])
        BY <1>2, <1>9, <3>1 DEF Well, n
      <3>3. j + 1 \in 1 .. Len(r) /\ k <= j + 1 /\ r[j + 1] = p[j]
        BY <1>2, <1>3, <3>2
      <3>. QED BY <3>1, <3>2, <3>3
    <2>. QED BY <2>1, <2>2
  <1>10. r[Len(r)] = p[n]
    <2>1. n \in 1 .. n
      BY <1>2
    <2>. QED BY <1>3, <2>1
  <1>. QED BY <1>2, <1>3, <1>5, <1>6, <1>7, <1>8, <1>9, <1>10 DEF Ready, Well, n, r

\* A plan without its first entry, which was not the last one.
LEMMA Unstacked ==
  ASSUME NEW f \in Nat, NEW M, NEW q, Ready(f, M, q), q[1].task.do # "end_function",
         NEW p, p = Tail(q)
  PROVE  /\ Ready(f, M, p)
         /\ Len(p) \in Nat \ {0} /\ Len(q) = Len(p) + 1 /\ \A i \in 1 .. Len(p) : p[i] = q[i + 1]
         /\ Right(f, q[1]) /\ Before(f, q[1], p[1])
         /\ \A j \in 1 .. Len(p) : Above(f, q[1], p[j])
PROOF
  <1> DEFINE n == Len(p)
  <1>1. q \in Seq(Entry) /\ q # <<>> /\ Well(f, q) /\ Len(q) \in Nat \ {0}
    BY EmptySeq, LenProperties DEF Ready
  <1>2. Len(q) # 1
    BY <1>1 DEF Well
  <1>3. p \in Seq(Entry) /\ n = Len(q) - 1 /\ \A i \in 1 .. n : p[i] = q[i + 1]
    BY <1>1, HeadTailProperties
  <1> HIDE DEF n
  <1>4. n \in Nat \ {0} /\ Len(q) = n + 1
    BY <1>1, <1>2, <1>3
  <1>5. p # <<>>
    BY <1>3, <1>4, EmptySeq DEF n
  <1>6. \A i \in 1 .. n : i + 1 \in 1 .. Len(q)
    BY <1>4
  <1>7. \A i \in 1 .. n : Right(f, p[i]) /\ Backed(f, M, p[i])
    BY <1>1, <1>3, <1>6 DEF Well, Ready
  <1>8. ASSUME NEW i \in 1 .. n - 1 PROVE Before(f, p[i], p[i + 1])
    <2>1. i \in 1 .. n /\ i + 1 \in 1 .. n /\ i + 1 \in 1 .. Len(q) - 1
      BY <1>4
    <2>2. Before(f, q[i + 1], q[(i + 1) + 1])
      BY <1>1, <2>1 DEF Well
    <2>. QED BY <1>3, <2>1, <2>2
  <1>9. ASSUME NEW i \in 1 .. n, NEW j \in 1 .. n, i < j PROVE Above(f, p[i], p[j])
    <2>1. i + 1 < j + 1
      BY <1>9
    <2>. QED BY <1>1, <1>3, <1>6, <2>1 DEF Well
  <1>10. ASSUME NEW i \in 1 .. n, p[i].task.do = "else"
         PROVE  \E j \in 1 .. n : i < j /\ Ends(f, p[i], p[j])
    <2>1. PICK j \in 1 .. Len(q) : i + 1 < j /\ Ends(f, q[i + 1], q[j])
      BY <1>1, <1>3, <1>6, <1>10 DEF Well
    <2>2. j - 1 \in 1 .. n /\ i < j - 1 /\ (j - 1) + 1 = j
      BY <1>4, <2>1
    <2>3. p[j - 1] = q[j]
      BY <1>3, <2>2
    <2>. QED BY <1>3, <2>1, <2>2, <2>3
  <1>11. ASSUME NEW i \in 1 .. n, p[i].breaks # <<>>
         PROVE  \E j \in 1 .. n : i <= j /\ Owns(p[i], p[j])
    <2>1. PICK j \in 1 .. Len(q) : i + 1 <= j /\ Owns(q[i + 1], q[j])
      BY <1>1, <1>3, <1>6, <1>11 DEF Well
    <2>2. j - 1 \in 1 .. n /\ i <= j - 1 /\ (j - 1) + 1 = j
      BY <1>4, <2>1
    <2>3. p[j - 1] = q[j]
      BY <1>3, <2>2
    <2>. QED BY <1>3, <2>1, <2>2, <2>3
  <1>12. n \in 1 .. n /\ p[n] = q[Len(q)]
    BY <1>3, <1>4
  <1>13. Right(f, q[1]) /\ Before(f, q[1], p[1])
    <2>1. 1 \in 1 .. Len(q) /\ 1 \in 1 .. Len(q) - 1 /\ 1 \in 1 .. n
      BY <1>4
    <2>2. p[1] = q[1 + 1]
      BY <1>3, <2>1
    <2>. QED BY <1>1, <2>1, <2>2 DEF Well
  <1>14. ASSUME NEW j \in 1 .. n PROVE Above(f, q[1], p[j])
    <2>1. 1 \in 1 .. Len(q) /\ 1 < j + 1
      BY <1>4
    <2>. QED BY <1>1, <1>3, <1>6, <2>1 DEF Well
  <1>. QED BY <1>1, <1>3, <1>4, <1>5, <1>7, <1>8, <1>9, <1>10, <1>11, <1>12, <1>13, <1>14
           DEF Ready, Well, n

\* Less is claimed when the jumps get wilder or the marks more.
LEMMA Wilder ==
  ASSUME NEW f \in Nat, NEW g \in Nat, g <= f, NEW M, NEW N, M \subseteq N,
         NEW q, Ready(f, M, q)
  PROVE  Ready(g, N, q)
PROOF
  <1>1. f >= 1 \/ ~(g >= 1)
    OBVIOUS
  <1>2. \A i \in 1 .. Len(q) : Right(g, q[i])
    BY <1>1 DEF Ready, Well, Right
  <1>3. \A i \in 1 .. Len(q) - 1 : Before(g, q[i], q[i + 1])
    BY <1>1 DEF Ready, Well, Before
  <1>4. \A i, j \in 1 .. Len(q) : i < j => Above(g, q[i], q[j])
    BY <1>1 DEF Ready, Well, Above
  <1>5. \A i, j \in 1 .. Len(q) : Ends(f, q[i], q[j]) => Ends(g, q[i], q[j])
    BY <1>1 DEF Ends
  <1>6. \A i \in 1 .. Len(q) : Backed(g, N, q[i])
    BY <1>1 DEF Ready, Backed
  <1>. QED BY <1>2, <1>3, <1>4, <1>5, <1>6 DEF Ready, Well

\* What is owed and the tasks, of a plan with one entry more.
LEMMA Parts ==
  ASSUME NEW p \in Seq(Entry), NEW q \in Seq(Entry), Len(q) = Len(p) + 1,
         \A i \in 1 .. Len(p) : q[i + 1] = p[i]
  PROVE  /\ OwedOf(q) = OwedBy(q[1]) \cup OwedOf(p)
         /\ TasksOf(q) \in Seq(TaskSet) /\ TasksOf(q) # <<>> /\ Head(TasksOf(q)) = q[1].task
         /\ Tail(TasksOf(q)) = TasksOf(p) /\ TasksOf(q) = <<q[1].task>> \o TasksOf(p)
PROOF
  <1>1. Len(p) \in Nat /\ \A e \in Entry : e.task \in TaskSet
    BY LenProperties DEF Entry
  <1>2. ASSUME NEW k \in 1 .. Len(q), k # 1 PROVE k - 1 \in 1 .. Len(p) /\ q[k] = p[k - 1]
    <2>1. k - 1 \in 1 .. Len(p) /\ (k - 1) + 1 = k
      BY <1>1, <1>2
    <2>. QED BY <2>1
  <1>3. 1 \in 1 .. Len(q) /\ \A i \in 1 .. Len(p) : i + 1 \in 1 .. Len(q)
    BY <1>1
  <1>4. OwedOf(q) = OwedBy(q[1]) \cup OwedOf(p)
    <2>1. ASSUME NEW o \in OwedOf(q) PROVE o \in OwedBy(q[1]) \cup OwedOf(p)
      <3>1. PICK k \in 1 .. Len(q) : o \in OwedBy(q[k])
        BY DEF OwedOf
      <3>. QED BY <1>2, <3>1 DEF OwedOf
    <2>2. ASSUME NEW o \in OwedBy(q[1]) \cup OwedOf(p) PROVE o \in OwedOf(q)
      <3>1. CASE o \in OwedBy(q[1])
        BY <1>3, <3>1 DEF OwedOf
      <3>2. CASE o \in OwedOf(p)
        <4>1. PICK k \in 1 .. Len(p) : o \in OwedBy(p[k])
          BY <3>2 DEF OwedOf
        <4>. QED BY <1>3, <4>1 DEF OwedOf
      <3>. QED BY <3>1, <3>2
    <2>. QED BY <2>1, <2>2
  <1>5. TasksOf(p) \in Seq(TaskSet) /\ Len(TasksOf(p)) = Len(p) /\ \A i \in 1 .. Len(p) : TasksOf(p)[i] = p[i].task
    <2>1. \A i \in 1 .. Len(p) : p[i].task \in TaskSet
      BY <1>1, ElementOfSeq
    <2>. QED BY <1>1, <2>1, IsASeq DEF TasksOf
  <1>6. TasksOf(q) \in Seq(TaskSet) /\ Len(TasksOf(q)) = Len(q) /\ \A i \in 1 .. Len(q) : TasksOf(q)[i] = q[i].task
    <2>1. \A i \in 1 .. Len(q) : q[i].task \in TaskSet
      BY <1>1, ElementOfSeq
    <2>. QED BY <1>1, <2>1, IsASeq DEF TasksOf
  <1>7. q[1].task \in TaskSet
    BY <1>1, <1>3, ElementOfSeq
  <1> DEFINE t == <<q[1].task>> \o TasksOf(p)
  <1>8. /\ t \in Seq(TaskSet) /\ Len(t) = Len(p) + 1 /\ t[1] = q[1].task
        /\ \A i \in 1 .. Len(p) : t[i + 1] = p[i].task
        /\ t # <<>> /\ Head(t) = q[1].task /\ Tail(t) = TasksOf(p)
    BY <1>5, <1>7, Pushed
  <1> HIDE DEF t
  <1>9. \A k \in 1 .. Len(q) : t[k] = q[k].task
    <2>. SUFFICES ASSUME NEW k \in 1 .. Len(q), k # 1 PROVE t[k] = q[k].task
      BY <1>8
    <2>1. k - 1 \in 1 .. Len(p) /\ (k - 1) + 1 = k
      BY <1>1
    <2>2. t[k] = p[k - 1].task
      BY <1>8, <2>1
    <2>. QED BY <1>2, <2>2
  <1>10. TasksOf(q) = t
    <2>1. Len(TasksOf(q)) = Len(t) /\ \A i \in 1 .. Len(TasksOf(q)) : TasksOf(q)[i] = t[i]
      BY <1>6, <1>8, <1>9
    <2>. QED BY <1>6, <1>8, <2>1, SeqEqual
  <1>. QED BY <1>4, <1>6, <1>8, <1>10 DEF t

-----------------------------------------------------------------------------
(***************************************************************************)
(* Code.                                                                   *)
(***************************************************************************)
\* Where %rsp is behind an instruction if it was where it is thought to be.
Moves(e) == IF e.op = "sub" THEN e.at + e.by ELSE IF e.op = "add" THEN e.at - e.by ELSE e.at

\* The code is emitted as it runs when it does not jump, and ends at index x;
\* only sub and add move %rsp.
Text(c, x) ==
  /\ c = <<>> => x = 0
  /\ c # <<>> => c[1].at = 0 /\ x = Moves(c[Len(c)])
  /\ \A i \in 1 .. Len(c) - 1 : c[i + 1].at = Moves(c[i])
  /\ \A i \in 1 .. Len(c) : c[i].op \notin {"sub", "add"} => c[i].by = 0

\* The same labels, and where indexes are claimed the same indexes.
Firsts(A) == {a[1] : a \in A}
Alike(f, A, B) == Firsts(A) = Firsts(B) /\ (f >= 1 => A = B)

\* Code with marks M and jumps J.
Emitted(f, c, x, M, J) ==
  /\ c \in Seq(Instr) /\ Once(c) /\ Alike(f, M, MarksOf(c)) /\ Alike(f, J, JumpsOf(c))
  /\ f >= 1 => Text(c, x)

\* One set of labels is like another when one label is added to both.
LEMMA AlikeMore ==
  ASSUME NEW f, NEW A, NEW B, Alike(f, A, B), NEW l, NEW x, NEW z, f >= 1 => z = x
  PROVE  Alike(f, A \cup {<<l, x>>}, B \cup {<<l, z>>})
PROOF
  <1> DEFINE A2 == A \cup {<<l, x>>}
             B2 == B \cup {<<l, z>>}
  <1>1. Firsts(A) = Firsts(B) /\ (f >= 1 => A = B)
    BY DEF Alike
  <1>2. <<l, x>>[1] = l /\ <<l, z>>[1] = l
    OBVIOUS
  <1>3. Firsts(A2) = Firsts(A) \cup {l}
    BY <1>2 DEF Firsts
  <1>4. Firsts(B2) = Firsts(B) \cup {l}
    BY <1>2 DEF Firsts
  <1>5. f >= 1 => A2 = B2
    BY <1>1
  <1> HIDE DEF A2, B2
  <1>6. Firsts(A2) = Firsts(B2)
    BY <1>1, <1>3, <1>4
  <1>7. Alike(f, A2, B2)
    BY <1>5, <1>6 DEF Alike
  <1>. QED BY <1>7 DEF A2, B2

\* What is claimed of labels when nothing is claimed of indexes.
LEMMA SameFirsts ==
  ASSUME NEW A, NEW B, Firsts(A) = Firsts(B), NEW a \in A
  PROVE  \E b \in B : b[1] = a[1]
PROOF
  <1>1. a[1] \in Firsts(B)
    BY DEF Firsts
  <1>. QED BY <1>1 DEF Firsts

\* One instruction more, emitted at the index where the code ends.
LEMMA Emits ==
  ASSUME NEW f \in Nat, NEW c, NEW x \in Nat, NEW M, NEW J, Emitted(f, c, x, M, J),
         NEW e \in Instr, f >= 1 => e.at = x, e.op = "label" => \A m \in M : m[1] # e.label,
         f >= 1 /\ e.op \notin {"sub", "add"} => e.by = 0,
         NEW y, f >= 1 => y = Moves(e),
         NEW M2, M2 = IF e.op = "label" THEN M \cup {<<e.label, x>>} ELSE M,
         NEW J2, J2 = IF e.op \in {"jmp", "branch"} THEN J \cup {<<e.label, x>>} ELSE J
  PROVE  Emitted(f, Append(c, e), y, M2, J2)
PROOF
  <1> DEFINE d == Append(c, e)
             n == Len(c)
  <1>1. /\ c \in Seq(Instr) /\ n \in Nat /\ d \in Seq(Instr) /\ Len(d) = n + 1 /\ d[n + 1] = e
        /\ \A i \in 1 .. n : d[i] = c[i]
    BY AppendProperties, LenProperties DEF Emitted
  <1> HIDE DEF d, n
  <1>2. \A i \in 1 .. Len(d) : i \in 1 .. n \/ i = n + 1
    BY <1>1
  <1>3. \A i \in 1 .. n : i \in 1 .. Len(d) /\ i # n + 1
    BY <1>1
  <1>4. n + 1 \in 1 .. Len(d)
    BY <1>1
  <1>5. Once(d)
    <2>1. Once(c) /\ Firsts(M) = Firsts(MarksOf(c))
      BY DEF Emitted, Alike
    <2>2. \A i \in 1 .. n : c[i].op = "label" => <<c[i].label, c[i].at>> \in MarksOf(c)
      BY DEF MarksOf, n
    <2>3. \A i \in 1 .. n : e.op = "label" /\ c[i].op = "label" => c[i].label # e.label
      <3> SUFFICES ASSUME NEW i \in 1 .. n, e.op = "label", c[i].op = "label" PROVE c[i].label # e.label
        OBVIOUS
      <3>1. <<c[i].label, c[i].at>>[1] = c[i].label
        OBVIOUS
      <3>2. PICK m \in M : m[1] = c[i].label
        BY <2>1, <2>2, <3>1, SameFirsts
      <3>. QED BY <3>2
    <2>4. \A i, j \in 1 .. n : c[i].op = "label" /\ c[j].op = "label" /\ c[i].label = c[j].label => i = j
      BY <2>1 DEF Once, n
    <2>. QED BY <1>1, <1>2, <2>3, <2>4 DEF Once
  <1>6. Alike(f, M2, MarksOf(d))
    <2>1. MarksOf(d) = {<<d[i].label, d[i].at>> : i \in {j \in 1 .. Len(d) : d[j].op = "label"}}
      BY DEF MarksOf
    <2>2. MarksOf(c) = {<<c[i].label, c[i].at>> : i \in {j \in 1 .. n : c[j].op = "label"}}
      BY DEF MarksOf, n
    <2>3. ASSUME NEW m \in MarksOf(d) PROVE m \in MarksOf(c) \/ (e.op = "label" /\ m = <<e.label, e.at>>)
      <3>1. PICK i \in 1 .. Len(d) : d[i].op = "label" /\ m = <<d[i].label, d[i].at>>
        BY <2>1
      <3>2. CASE i \in 1 .. n
        BY <1>1, <2>2, <3>1, <3>2
      <3>3. CASE i = n + 1
        BY <1>1, <3>1, <3>3
      <3>. QED BY <1>2, <3>2, <3>3
    <2>4. ASSUME NEW m \in MarksOf(c) PROVE m \in MarksOf(d)
      <3>1. PICK i \in 1 .. n : c[i].op = "label" /\ m = <<c[i].label, c[i].at>>
        BY <2>2
      <3>. QED BY <1>1, <1>3, <2>1, <3>1
    <2>5. e.op = "label" => <<e.label, e.at>> \in MarksOf(d)
      BY <1>1, <1>4, <2>1
    <2>6. MarksOf(d) = IF e.op = "label" THEN MarksOf(c) \cup {<<e.label, e.at>>} ELSE MarksOf(c)
      BY <2>3, <2>4, <2>5
    <2>7. Alike(f, M, MarksOf(c))
      BY DEF Emitted
    <2>8. Alike(f, M \cup {<<e.label, x>>}, MarksOf(c) \cup {<<e.label, e.at>>})
      BY <2>7, AlikeMore
    <2>. QED BY <2>6, <2>7, <2>8
  <1>7. Alike(f, J2, JumpsOf(d))
    <2>1. JumpsOf(d) = {<<d[i].label, d[i].at>> : i \in {j \in 1 .. Len(d) : d[j].op \in {"jmp", "branch"}}}
      BY DEF JumpsOf
    <2>2. JumpsOf(c) = {<<c[i].label, c[i].at>> : i \in {j \in 1 .. n : c[j].op \in {"jmp", "branch"}}}
      BY DEF JumpsOf, n
    <2>3. ASSUME NEW m \in JumpsOf(d) PROVE m \in JumpsOf(c) \/ (e.op \in {"jmp", "branch"} /\ m = <<e.label, e.at>>)
      <3>1. PICK i \in 1 .. Len(d) : d[i].op \in {"jmp", "branch"} /\ m = <<d[i].label, d[i].at>>
        BY <2>1
      <3>2. CASE i \in 1 .. n
        BY <1>1, <2>2, <3>1, <3>2
      <3>3. CASE i = n + 1
        BY <1>1, <3>1, <3>3
      <3>. QED BY <1>2, <3>2, <3>3
    <2>4. ASSUME NEW m \in JumpsOf(c) PROVE m \in JumpsOf(d)
      <3>1. PICK i \in 1 .. n : c[i].op \in {"jmp", "branch"} /\ m = <<c[i].label, c[i].at>>
        BY <2>2
      <3>. QED BY <1>1, <1>3, <2>1, <3>1
    <2>5. e.op \in {"jmp", "branch"} => <<e.label, e.at>> \in JumpsOf(d)
      BY <1>1, <1>4, <2>1
    <2>6. JumpsOf(d) = IF e.op \in {"jmp", "branch"} THEN JumpsOf(c) \cup {<<e.label, e.at>>} ELSE JumpsOf(c)
      BY <2>3, <2>4, <2>5
    <2>7. Alike(f, J, JumpsOf(c))
      BY DEF Emitted
    <2>8. Alike(f, J \cup {<<e.label, x>>}, JumpsOf(c) \cup {<<e.label, e.at>>})
      BY <2>7, AlikeMore
    <2>. QED BY <2>6, <2>7, <2>8
  <1>8. f >= 1 => Text(d, y)
    <2> SUFFICES ASSUME f >= 1 PROVE Text(d, y)
      OBVIOUS
    <2>1. Text(c, x)
      BY DEF Emitted
    <2>2. d # <<>> /\ d[Len(d)] = e
      BY <1>1, EmptySeq
    <2>3. d[1].at = 0
      <3>1. CASE n = 0
        BY <1>1, <2>1, <3>1, EmptySeq DEF Text, n
      <3>2. CASE n # 0
        <4>1. 1 \in 1 .. n /\ c # <<>>
          BY <1>1, <3>2, EmptySeq DEF n
        <4>. QED BY <1>1, <2>1, <4>1 DEF Text
      <3>. QED BY <3>1, <3>2
    <2>4. ASSUME NEW i \in 1 .. Len(d) - 1 PROVE d[i + 1].at = Moves(d[i])
      <3>1. i \in 1 .. n
        BY <1>1
      <3>2. CASE i = n
        <4>1. c # <<>>
          BY <1>1, <3>1, EmptySeq DEF n
        <4>2. x = Moves(c[n])
          BY <2>1, <4>1 DEF Text, n
        <4>. QED BY <1>1, <3>1, <3>2, <4>2
      <3>3. CASE i # n
        <4>1. i \in 1 .. n - 1 /\ i + 1 \in 1 .. n
          BY <1>1, <3>1, <3>3
        <4>2. c[i + 1].at = Moves(c[i])
          BY <2>1, <4>1 DEF Text, n
        <4>. QED BY <1>1, <3>1, <4>1, <4>2
      <3>. QED BY <3>2, <3>3
    <2>5. ASSUME NEW i \in 1 .. Len(d), d[i].op \notin {"sub", "add"} PROVE d[i].by = 0
      BY <1>1, <1>2, <2>1, <2>5 DEF Text, n
    <2>. QED BY <2>2, <2>3, <2>4, <2>5 DEF Text
  <1>. QED BY <1>1, <1>5, <1>6, <1>7, <1>8 DEF Emitted, d

\* The instructions the generators emit.
LEMMA EmitPlain ==
  ASSUME NEW f \in Nat, NEW c, NEW x \in Nat, NEW M, NEW J, Emitted(f, c, x, M, J),
         NEW n \in Nat, NEW z \in Nat, f >= 1 => n = 0 /\ z = x, NEW e \in {Eval(n, z), Ret(z)}
  PROVE  Emitted(f, Append(c, e), x, M, J)
PROOF
  <1>1. e \in Instr /\ e.at = z /\ e.op \in {"eval", "ret"} /\ e.by \in {0, n}
    BY DEF Eval, Ret, Ins, Instr, Op, Label
  <1>2. Moves(e) = z
    BY <1>1 DEF Moves
  <1>. QED BY <1>1, <1>2, Emits

\* A label must not be marked already.
LEMMA EmitMark ==
  ASSUME NEW f \in Nat, NEW c, NEW x \in Nat, NEW M, NEW J, Emitted(f, c, x, M, J),
         NEW l \in Label, \A m \in M : m[1] # l, NEW z \in Nat, f >= 1 => z = x
  PROVE  Emitted(f, Append(c, Mark(l, z)), x, M \cup {<<l, x>>}, J)
PROOF
  <1> DEFINE e == Mark(l, z)
  <1>1. e \in Instr /\ e.at = z /\ e.op = "label" /\ e.label = l /\ e.by = 0
    BY DEF Mark, Ins, Instr, Op
  <1> HIDE DEF e
  <1>2. Moves(e) = z
    BY <1>1 DEF Moves
  <1>. QED BY <1>1, <1>2, Emits DEF e

LEMMA EmitJump ==
  ASSUME NEW f \in Nat, NEW c, NEW x \in Nat, NEW M, NEW J, Emitted(f, c, x, M, J),
         NEW l \in Label, NEW z \in Nat, f >= 1 => z = x
  PROVE  Emitted(f, Append(c, Jump(l, z)), x, M, J \cup {<<l, x>>})
PROOF
  <1> DEFINE e == Jump(l, z)
  <1>1. e \in Instr /\ e.at = z /\ e.op = "jmp" /\ e.label = l /\ e.by = 0
    BY DEF Jump, Ins, Instr, Op
  <1> HIDE DEF e
  <1>2. Moves(e) = z
    BY <1>1 DEF Moves
  <1>. QED BY <1>1, <1>2, Emits DEF e

LEMMA EmitBranch ==
  ASSUME NEW f \in Nat, NEW c, NEW x \in Nat, NEW M, NEW J, Emitted(f, c, x, M, J),
         NEW l \in Label, NEW n \in Nat, NEW z \in Nat, f >= 1 => n = 0 /\ z = x
  PROVE  Emitted(f, Append(c, Branch(l, n, z)), x, M, J \cup {<<l, x>>})
PROOF
  <1> DEFINE e == Branch(l, n, z)
  <1>1. e \in Instr /\ e.at = z /\ e.op = "branch" /\ e.label = l /\ e.by = n
    BY DEF Branch, Ins, Instr, Op
  <1> HIDE DEF e
  <1>2. Moves(e) = z
    BY <1>1 DEF Moves
  <1>. QED BY <1>1, <1>2, Emits DEF e

LEMMA EmitSub ==
  ASSUME NEW f \in Nat, NEW c, NEW x \in Nat, NEW M, NEW J, Emitted(f, c, x, M, J)
  PROVE  Emitted(f, Append(c, Sub(x)), x + 4, M, J)
PROOF
  <1> DEFINE e == Sub(x)
  <1>1. e \in Instr /\ e.at = x /\ e.op = "sub" /\ e.by = 4
    BY DEF Sub, Ins, Instr, Op, Label
  <1> HIDE DEF e
  <1>2. Moves(e) = x + 4
    BY <1>1 DEF Moves
  <1>. QED BY <1>1, <1>2, Emits DEF e

LEMMA EmitAdd ==
  ASSUME NEW f \in Nat, NEW c, NEW x \in Nat, NEW M, NEW J, Emitted(f, c, x, M, J), NEW n \in Nat
  PROVE  Emitted(f, Append(c, Add(n, x)), x - n, M, J)
PROOF
  <1> DEFINE e == Add(n, x)
  <1>1. e \in Instr /\ e.at = x /\ e.op = "add" /\ e.by = n
    BY DEF Add, Ins, Instr, Op, Label
  <1> HIDE DEF e
  <1>2. Moves(e) = x - n
    BY <1>1 DEF Moves
  <1>. QED BY <1>1, <1>2, Emits DEF e

\* Emitting some is emitting one after the other.
LEMMA OneByOne ==
  ASSUME NEW c \in Seq(Instr)
  PROVE  /\ c \o <<>> = c
         /\ \A a \in Instr : c \o <<a>> = Append(c, a)
         /\ \A a, b \in Instr : c \o <<a, b>> = Append(Append(c, a), b)
         /\ \A a, b, d \in Instr : c \o <<a, b, d>> = Append(Append(Append(c, a), b), d)
         /\ \A a, b, d, e \in Instr :
              c \o <<a, b, d, e>> = Append(Append(Append(Append(c, a), b), d), e)
PROOF
  <1>1. \A s \in Seq(Instr), a \in Instr : c \o Append(s, a) = Append(c \o s, a)
    <2> TAKE s \in Seq(Instr), a \in Instr
    <2>1. Append(s, a) = s \o <<a>> /\ Append(c \o s, a) = (c \o s) \o <<a>>
          /\ <<a>> \in Seq(Instr) /\ c \o s \in Seq(Instr)
      BY ConcatProperties, AppendIsConcat
    <2>. QED BY <2>1, ConcatAssociative
  <1>2. c \o <<>> = c
    BY ConcatEmptySeq
  <1>3. \A a \in Instr : <<a>> = Append(<<>>, a) /\ <<a>> \in Seq(Instr)
    OBVIOUS
  <1>4. \A a, b \in Instr : <<a, b>> = Append(<<a>>, b) /\ <<a, b>> \in Seq(Instr)
    OBVIOUS
  <1>5. \A a, b, d \in Instr : <<a, b, d>> = Append(<<a, b>>, d) /\ <<a, b, d>> \in Seq(Instr)
    OBVIOUS
  <1>6. \A a, b, d, e \in Instr : <<a, b, d, e>> = Append(<<a, b, d>>, e)
    OBVIOUS
  <1>7. \A a \in Instr : c \o <<a>> = Append(c, a)
    BY <1>1, <1>2, <1>3
  <1>8. \A a, b \in Instr : c \o <<a, b>> = Append(Append(c, a), b)
    BY <1>1, <1>3, <1>4, <1>7
  <1>9. \A a, b, d \in Instr : c \o <<a, b, d>> = Append(Append(Append(c, a), b), d)
    <2> TAKE a, b, d \in Instr
    <2>1. c \o <<a, b, d>> = Append(c \o <<a, b>>, d)
      BY <1>1, <1>4, <1>5
    <2>. QED BY <1>8, <2>1
  <1>10. \A a, b, d, e \in Instr :
           c \o <<a, b, d, e>> = Append(Append(Append(Append(c, a), b), d), e)
    <2> TAKE a, b, d, e \in Instr
    <2>1. c \o <<a, b, d, e>> = Append(c \o <<a, b, d>>, e)
      BY <1>1, <1>5, <1>6
    <2>. QED BY <1>9, <2>1
  <1>. QED BY <1>2, <1>7, <1>8, <1>9, <1>10

\* The same for the work put on what is left.
LEMMA Groups ==
  ASSUME NEW s \in Seq(TaskSet)
  PROVE  /\ <<>> \o s = s
         /\ \A a, b \in TaskSet : <<a, b>> \o s = <<a>> \o (<<b>> \o s)
         /\ \A a, b, d \in TaskSet : <<a, b, d>> \o s = <<a>> \o (<<b>> \o (<<d>> \o s))
         /\ \A a, b, d, e \in TaskSet :
              <<a, b, d, e>> \o s = <<a>> \o (<<b>> \o (<<d>> \o (<<e>> \o s)))
PROOF
  <1>1. \A t, u \in Seq(TaskSet), a \in TaskSet : Append(t, a) \o u = t \o (<<a>> \o u)
    <2> TAKE t, u \in Seq(TaskSet), a \in TaskSet
    <2>1. Append(t, a) = t \o <<a>> /\ <<a>> \in Seq(TaskSet)
      BY AppendIsConcat
    <2>. QED BY <2>1, ConcatAssociative
  <1>2. \A a \in TaskSet : <<a>> \o s \in Seq(TaskSet)
    <2> TAKE a \in TaskSet
    <2>1. <<a>> \in Seq(TaskSet)
      OBVIOUS
    <2>. QED BY <2>1, ConcatProperties
  <1>3. \A a, d \in TaskSet : <<d>> \o (<<a>> \o s) \in Seq(TaskSet)
    <2> TAKE a, d \in TaskSet
    <2>1. <<d>> \in Seq(TaskSet)
      OBVIOUS
    <2>. QED BY <1>2, <2>1, ConcatProperties
  <1>4. \A a, b \in TaskSet, u \in Seq(TaskSet) : <<a, b>> \o u = <<a>> \o (<<b>> \o u)
    <2> TAKE a, b \in TaskSet, u \in Seq(TaskSet)
    <2>1. PICK t : t = <<a>>
      OBVIOUS
    <2>2. t \in Seq(TaskSet) /\ <<a, b>> = Append(t, b)
      BY <2>1
    <2>3. Append(t, b) \o u = t \o (<<b>> \o u)
      BY <1>1, <2>2
    <2>. QED BY <2>1, <2>2, <2>3, Zenon
  <1>5. \A a, b, d \in TaskSet, u \in Seq(TaskSet) : <<a, b, d>> \o u = <<a, b>> \o (<<d>> \o u)
    <2> TAKE a, b, d \in TaskSet, u \in Seq(TaskSet)
    <2>1. PICK t : t = <<a, b>>
      OBVIOUS
    <2>2. PICK v : v = <<a, b, d>>
      OBVIOUS
    <2>3. t \in Seq(TaskSet) /\ v = Append(t, d)
      BY <2>1, <2>2
    <2>4. Append(t, d) \o u = t \o (<<d>> \o u)
      BY <1>1, <2>3
    <2>5. v \o u = t \o (<<d>> \o u)
      BY <2>3, <2>4
    <2>. QED BY <2>1, <2>2, <2>5, Zenon
  <1>6. \A a, b, d, e \in TaskSet : <<a, b, d, e>> \o s = <<a, b, d>> \o (<<e>> \o s)
    <2> TAKE a, b, d, e \in TaskSet
    <2>1. PICK t : t = <<a, b, d>>
      OBVIOUS
    <2>2. t \in Seq(TaskSet) /\ <<a, b, d, e>> = Append(t, e)
      BY <2>1
    <2>3. Append(t, e) \o s = t \o (<<e>> \o s)
      BY <1>1, <2>2
    <2>. QED BY <2>1, <2>2, <2>3, Zenon
  <1>7. \A a, b, d \in TaskSet : <<a, b, d>> \o s = <<a>> \o (<<b>> \o (<<d>> \o s))
    <2> TAKE a, b, d \in TaskSet
    <2>1. <<a, b>> \o (<<d>> \o s) = <<a>> \o (<<b>> \o (<<d>> \o s))
      BY <1>2, <1>4, Zenon
    <2>. QED BY <1>5, <2>1, Zenon
  <1>8. \A a, b, d, e \in TaskSet :
           <<a, b, d, e>> \o s = <<a>> \o (<<b>> \o (<<d>> \o (<<e>> \o s)))
    <2> TAKE a, b, d, e \in TaskSet
    <2>1. PICK u : u = <<e>> \o s
      OBVIOUS
    <2>2. PICK v : v = <<d>> \o u
      OBVIOUS
    <2>3. u \in Seq(TaskSet) /\ v \in Seq(TaskSet)
      BY <1>2, <1>3, <2>1, <2>2
    <2>4. <<a, b, d>> \o u = <<a, b>> \o (<<d>> \o u)
      BY <1>5, <2>3, ZenonT(100)
    <2>5. <<a, b>> \o v = <<a>> \o (<<b>> \o v)
      BY <1>4, <2>3, Zenon
    <2>6. <<a, b, d>> \o u = <<a, b>> \o v /\ <<a, b>> \o v = <<a>> \o (<<b>> \o v)
      BY <2>2, <2>4, <2>5
    <2>7. <<a, b, d, e>> \o s = <<a, b, d>> \o u
      BY <1>6, <2>1
    <2>. QED BY <2>1, <2>2, <2>6, <2>7
  <1>9. <<>> \o s = s
    BY ConcatEmptySeq
  <1>. QED BY <1>4, <1>7, <1>8, <1>9

\* Short lists put together.
LEMMA Two ==
  \A v, w \in TaskSet : <<v>> \o <<w>> = <<v, w>>
PROOF
  <1> TAKE v, w \in TaskSet
  <1>1. <<v>> \in Seq(TaskSet) /\ <<v, w>> = Append(<<v>>, w)
    OBVIOUS
  <1>. QED BY <1>1, AppendIsConcat

LEMMA Three ==
  \A v, w, z \in TaskSet : <<v, w>> \o <<z>> = <<v, w, z>>
PROOF
  <1> TAKE v, w, z \in TaskSet
  <1>1. <<v, w>> \in Seq(TaskSet) /\ <<v, w, z>> = Append(<<v, w>>, z)
    OBVIOUS
  <1>. QED BY <1>1, AppendIsConcat

-----------------------------------------------------------------------------
(***************************************************************************)
(* Labels: each marked once and never owed as well, each jump with a mark  *)
(* to go to or a task that owes it one.  n is the next number.             *)
(***************************************************************************)
Labelled(f, M, J, O, us, n) ==
  /\ \A m \in M :
       \/ \E l \in Labels : m[1] = UserLabel(l) /\ us[l] = "defined"
       \/ m[1] \in LoopLabel /\ m[1][2] < n /\ \A o \in O : o[1] # m[1]
  /\ \A o \in O : o[1] \in LoopLabel /\ o[1][2] < n
  /\ \A l \in Labels : us[l] = "defined" => \E m \in M : m[1] = UserLabel(l)
  /\ \A j \in J :
       \/ f = 0 /\ \E l \in Labels : j[1] = UserLabel(l) /\ us[l] # "unknown"
       \/ \E m \in M \cup O : m[1] = j[1] /\ Fits(f, j[2], m[2])

\* Less is claimed of the labels when the jumps get wilder.
LEMMA LabelsWilder ==
  ASSUME NEW f \in 0 .. 2, NEW g \in 0 .. 2, g <= f, NEW M, NEW J, NEW O, NEW us, NEW n,
         Labelled(f, M, J, O, us, n)
  PROVE  Labelled(g, M, J, O, us, n)
PROOF
  <1>1. \A a, b : Fits(f, a, b) => Fits(g, a, b)
    BY DEF Fits
  <1>2. f = 0 => g = 0
    OBVIOUS
  <1>. QED BY <1>1, <1>2 DEF Labelled

\* A jump to what is marked or owed.
LEMMA AddJump ==
  ASSUME NEW f, NEW M, NEW J, NEW O, NEW us, NEW n, Labelled(f, M, J, O, us, n),
         NEW l, NEW x, \E m \in M \cup O : m[1] = l /\ Fits(f, x, m[2])
  PROVE  Labelled(f, M, J \cup {<<l, x>>}, O, us, n)
PROOF
  <1>1. <<l, x>>[1] = l /\ <<l, x>>[2] = x
    OBVIOUS
  <1>. QED BY <1>1 DEF Labelled

\* A task marks what it owed, at index x.
MarkedAt(P, x) == {<<a[1], x>> : a \in P}

\* When a task has emitted its labels they are marked and owed no more.
LEMMA Paid ==
  ASSUME NEW f \in Nat, NEW M, NEW J, NEW P, NEW R, NEW us, NEW n,
         Labelled(f, M, J, P \cup R, us, n),
         \A p \in P, r \in R : p[1] # r[1],
         NEW x, f >= 1 => \A p \in P : p[2] = x
  PROVE  Labelled(f, M \cup MarkedAt(P, x), J, R, us, n)
PROOF
  <1> DEFINE N == MarkedAt(P, x)
  <1>1. \A p \in P : <<p[1], x>> \in N /\ <<p[1], x>>[1] = p[1] /\ <<p[1], x>>[2] = x
    BY DEF MarkedAt
  <1>2. \A m \in N : \E p \in P : m[1] = p[1]
    BY DEF MarkedAt
  <1> HIDE DEF N
  <1>3. \A m \in M \cup N :
          \/ \E l \in Labels : m[1] = UserLabel(l) /\ us[l] = "defined"
          \/ m[1] \in LoopLabel /\ m[1][2] < n /\ \A o \in R : o[1] # m[1]
    BY <1>2 DEF Labelled
  <1>4. \A j \in J :
          \/ f = 0 /\ \E l \in Labels : j[1] = UserLabel(l) /\ us[l] # "unknown"
          \/ \E m \in M \cup N \cup R : m[1] = j[1] /\ Fits(f, j[2], m[2])
    <2> SUFFICES ASSUME NEW j \in J, ~(f = 0 /\ \E l \in Labels : j[1] = UserLabel(l) /\ us[l] # "unknown")
                 PROVE  \E m \in M \cup N \cup R : m[1] = j[1] /\ Fits(f, j[2], m[2])
      OBVIOUS
    <2>1. PICK m \in M \cup (P \cup R) : m[1] = j[1] /\ Fits(f, j[2], m[2])
      BY DEF Labelled
    <2>2. CASE m \in P
      <3>1. Fits(f, j[2], x)
        BY <2>1, <2>2 DEF Fits
      <3>. QED BY <1>1, <2>1, <2>2, <3>1
    <2>. QED BY <2>1, <2>2
  <1>. QED BY <1>3, <1>4 DEF Labelled, N

\* User labels.
LEMMA UserUnmarked ==
  ASSUME NEW f, NEW M, NEW J, NEW O, NEW us, NEW n, Labelled(f, M, J, O, us, n),
         NEW l \in Labels, us[l] # "defined"
  PROVE  \A m \in M : m[1] # UserLabel(l)
PROOF
  <1>1. \A k \in Labels : UserLabel(k) = UserLabel(l) => k = l
    BY DEF UserLabel
  <1>2. UserLabel(l) \notin LoopLabel
    BY DEF UserLabel, LoopLabel, Kinds
  <1>. QED BY <1>1, <1>2 DEF Labelled

\* The definition of a user label, as labelset_put_definition records it.
LEMMA MarkUser ==
  ASSUME NEW f, NEW M, NEW J, NEW O, NEW us, NEW n, Labelled(f, M, J, O, us, n),
         us \in [Labels -> {"unknown", "referenced", "defined"}],
         NEW l \in Labels, us[l] # "defined", NEW x
  PROVE  Labelled(f, M \cup {<<UserLabel(l), x>>}, J, O, [us EXCEPT ![l] = "defined"], n)
PROOF
  <1> DEFINE vs == [us EXCEPT ![l] = "defined"]
  <1>1. \A k \in Labels : vs[k] = IF k = l THEN "defined" ELSE us[k]
    OBVIOUS
  <1>2. <<UserLabel(l), x>>[1] = UserLabel(l)
    OBVIOUS
  <1> HIDE DEF vs
  <1>. QED BY <1>1, <1>2 DEF Labelled, vs

\* A goto, as labelset_put_reference records it.
LEMMA JumpUser ==
  ASSUME NEW M, NEW J, NEW O, NEW us, NEW n, Labelled(0, M, J, O, us, n),
         us \in [Labels -> {"unknown", "referenced", "defined"}],
         NEW l \in Labels, NEW x,
         NEW vs, vs = [us EXCEPT ![l] = IF @ = "unknown" THEN "referenced" ELSE @]
  PROVE  Labelled(0, M, J \cup {<<UserLabel(l), x>>}, O, vs, n)
PROOF
  <1>1. \A k \in Labels : vs[k] = IF k = l /\ us[k] = "unknown" THEN "referenced" ELSE us[k]
    OBVIOUS
  <1>2. <<UserLabel(l), x>>[1] = UserLabel(l)
    OBVIOUS
  <1>3. /\ vs[l] # "unknown"
        /\ \A k \in Labels : (vs[k] = "defined" <=> us[k] = "defined") /\ (us[k] # "unknown" => vs[k] # "unknown")
    BY <1>1
  <1>. QED BY <1>2, <1>3 DEF Labelled

\* Labels with the next number: some are marked, some are owed, some of these
\* are jumped to.
Numbered(K, n, x) == {<<<<k, n>>, x>> : k \in K}

\* They can be added since no label has that number yet.
LEMMA NewLabels ==
  ASSUME NEW f, NEW M, NEW J, NEW O, NEW us, NEW n \in Nat, Labelled(f, M, J, O, us, n),
         NEW x \in Nat, NEW A \in SUBSET Kinds, NEW B \in SUBSET Kinds, A \cap B = {},
         NEW C \in SUBSET (A \cup B)
  PROVE  Labelled(f, M \cup Numbered(A, n, x), J \cup Numbered(C, n, x), Numbered(B, n, x) \cup O, us, n + 1)
PROOF
  <1> DEFINE N == Numbered(A, n, x)
             P == Numbered(B, n, x)
  <1>1. /\ \A m \in N : \E k \in A : m[1] = <<k, n>>
        /\ \A m \in P : \E k \in B : m[1] = <<k, n>>
    BY DEF Numbered
  <1>2. \A k \in Kinds : <<k, n>> \in LoopLabel /\ <<k, n>>[2] = n /\ <<k, n>>[1] = k
    BY DEF LoopLabel
  <1>3. \A l \in LoopLabel : l[2] < n => l[2] < n + 1 /\ l[2] # n
    BY DEF LoopLabel
  <1>4. n < n + 1 /\ ~(n < n)
    OBVIOUS
  <1>5. \A l : \A k \in Kinds : <<k, n>> # UserLabel(l)
    BY DEF Kinds, UserLabel
  <1>6. ASSUME NEW m \in M, NEW o \in P PROVE o[1] # m[1]
    <2>1. PICK k \in B : o[1] = <<k, n>>
      BY <1>1
    <2>2. CASE \E l \in Labels : m[1] = UserLabel(l)
      BY <1>5, <2>1, <2>2
    <2>3. CASE m[1] \in LoopLabel /\ m[1][2] < n
      <3>1. m[1][2] # n /\ <<k, n>>[2] = n
        BY <1>3, <2>3
      <3>. QED BY <2>1, <3>1
    <2>. QED BY <2>2, <2>3 DEF Labelled
  <1>7. ASSUME NEW m \in N, NEW o \in P \cup O PROVE o[1] # m[1]
    <2>1. PICK k \in A : m[1] = <<k, n>>
      BY <1>1
    <2>2. CASE o \in P
      <3>1. PICK j \in B : o[1] = <<j, n>>
        BY <1>1, <2>2
      <3>2. j # k
        OBVIOUS
      <3>. QED BY <2>1, <3>1, <3>2
    <2>3. CASE o \in O
      BY <1>2, <1>3, <1>4, <2>1, <2>3 DEF Labelled
    <2>. QED BY <2>2, <2>3
  <1>8. \A j \in Numbered(C, n, x) : \E m \in N \cup P : m[1] = j[1] /\ Fits(f, j[2], m[2])
    <2>1. Numbered(C, n, x) \subseteq N \cup P
      BY DEF Numbered
    <2>2. \A j \in Numbered(C, n, x) : j[2] = x
      BY DEF Numbered
    <2>3. Fits(f, x, x)
      BY DEF Fits
    <2>. QED BY <2>1, <2>2, <2>3
  <1>9. \A m \in N \cup P : m[1] \in LoopLabel /\ m[1][2] < n + 1
    BY <1>1, <1>2, <1>4
  <1> HIDE DEF N, P
  <1>10. \A m \in M \cup N :
           \/ \E l \in Labels : m[1] = UserLabel(l) /\ us[l] = "defined"
           \/ m[1] \in LoopLabel /\ m[1][2] < n + 1 /\ \A o \in P \cup O : o[1] # m[1]
    BY <1>3, <1>6, <1>7, <1>9 DEF Labelled
  <1>11. \A o \in P \cup O : o[1] \in LoopLabel /\ o[1][2] < n + 1
    BY <1>3, <1>9 DEF Labelled
  <1>12. \A l \in Labels : us[l] = "defined" => \E m \in M \cup N : m[1] = UserLabel(l)
    BY DEF Labelled
  <1>13. \A j \in J \cup Numbered(C, n, x) :
           \/ f = 0 /\ \E l \in Labels : j[1] = UserLabel(l) /\ us[l] # "unknown"
           \/ \E m \in (M \cup N) \cup (P \cup O) : m[1] = j[1] /\ Fits(f, j[2], m[2])
    <2>1. ASSUME NEW j \in J
          PROVE  \/ f = 0 /\ \E l \in Labels : j[1] = UserLabel(l) /\ us[l] # "unknown"
                 \/ \E m \in (M \cup N) \cup (P \cup O) : m[1] = j[1] /\ Fits(f, j[2], m[2])
      BY DEF Labelled
    <2>. QED BY <1>8, <2>1
  <1>. QED BY <1>10, <1>11, <1>12, <1>13 DEF Labelled, N, P

\* Labels with the next number are new.
LEMMA Fresh ==
  ASSUME NEW f, NEW M, NEW J, NEW O, NEW us, NEW n \in Nat, Labelled(f, M, J, O, us, n),
         NEW k \in Kinds
  PROVE  /\ <<k, n>> \in LoopLabel
         /\ \A m \in M : m[1] # <<k, n>>
         /\ \A o \in O : o[1] # <<k, n>>
PROOF
  <1>1. <<k, n>> \in LoopLabel /\ <<k, n>>[2] = n /\ ~(n < n)
    BY DEF LoopLabel
  <1>2. \A l : <<k, n>> # UserLabel(l)
    BY DEF Kinds, UserLabel
  <1>. QED BY <1>1, <1>2 DEF Labelled

\* What is owed is not marked yet.
LEMMA OwedUnmarked ==
  ASSUME NEW f, NEW M, NEW J, NEW O, NEW us, NEW n, Labelled(f, M, J, O, us, n),
         NEW m \in M, NEW o \in O
  PROVE  m[1] # o[1] /\ o[1] \in LoopLabel
PROOF
  <1>1. o[1] \in LoopLabel
    BY DEF Labelled
  <1>2. \A l \in Labels : UserLabel(l) \notin LoopLabel
    BY DEF UserLabel, LoopLabel, Kinds
  <1>. QED BY <1>1, <1>2 DEF Labelled

-----------------------------------------------------------------------------
(***************************************************************************)
(* The three kinds of entries that are put on a plan: tasks that find the  *)
(* context of what is behind them, closes and ends of loops.               *)
(***************************************************************************)
Context(x, s, o, b, c) ==
  /\ x \in Nat /\ s \in Seq(Nat) /\ o \in Nat
  /\ b \in Seq(LoopLabel) /\ c \in Seq(LoopLabel)

E(t, x, s, o, b, c) ==
  [task |-> t, idx |-> x, scopes |-> s, open |-> o, breaks |-> b, conts |-> c]

Stack(e, p) == <<e>> \o p

\* The first entry is as high as any.
LEMMA Highest ==
  ASSUME NEW f \in Nat, NEW M, NEW p, Ready(f, M, p)
  PROVE  /\ Len(p) \in Nat \ {0} /\ p[1] \in Entry /\ Right(f, p[1])
         /\ f >= 1 => \A j \in 1 .. Len(p) : p[j].idx <= p[1].idx
         /\ p[1].breaks # <<>> => \E j \in 1 .. Len(p) : Owns(p[1], p[j])
PROOF
  <1>1. p \in Seq(Entry) /\ Len(p) \in Nat \ {0} /\ Well(f, p)
    BY EmptySeq, LenProperties DEF Ready
  <1>2. 1 \in 1 .. Len(p) /\ p[1] \in Entry
    BY <1>1, ElementOfSeq
  <1>3. \A j \in 1 .. Len(p) : p[j].idx \in Nat
    <2>1. \A j \in 1 .. Len(p) : p[j] \in Entry
      BY <1>1, ElementOfSeq
    <2>2. \A d \in Entry : d.idx \in Nat
      BY DEF Entry
    <2>. QED BY <2>1, <2>2
  <1>4. ASSUME f >= 1, NEW j \in 1 .. Len(p) PROVE p[j].idx <= p[1].idx
    <2>1. CASE j = 1
      BY <1>2, <1>3, <2>1
    <2>2. CASE j # 1
      <3>1. 1 < j
        BY <2>2
      <3>. QED BY <1>1, <1>2, <1>4, <3>1 DEF Well, Above
    <2>. QED BY <2>1, <2>2
  <1>5. Right(f, p[1]) /\ (p[1].breaks # <<>> => \E j \in 1 .. Len(p) : Owns(p[1], p[j]))
    BY <1>1, <1>2 DEF Well
  <1>. QED BY <1>1, <1>2, <1>4, <1>5

Stackable(f, p, x, t) ==
  /\ t \in TaskSet /\ t.do \in {"statement", "item", "items", "else", "if_end"}
  /\ f >= 1 /\ t.do = "item" => p[1].task.do = "items"
  /\ f >= 1 /\ t.do = "items" => p[1].task.do = "close"
  /\ \A l \in Owes(t), w \in OwedOf(p) : w[1] # l
  /\ t.do = "else" =>
       \E j \in 1 .. Len(p) : p[j].task = Task("if_end", t.n) /\ (f >= 1 => p[j].idx = x)

\* A task that finds the context the plan finds: the end of an if, a statement.
LEMMA StackTask ==
  ASSUME NEW f \in Nat, NEW M, NEW p, Ready(f, M, p),
         NEW x, NEW s, NEW o, NEW b, NEW c, Context(x, s, o, b, c), Finds(f, p, x, s, o, b, c),
         NEW t, Stackable(f, p, x, t)
  PROVE  LET e == E(t, x, s, o, b, c)
             r == Stack(e, p)
         IN  /\ Ready(f, M, r) /\ r[1] = e /\ e.task = t /\ Finds(f, r, x, s, o, b, c)
             /\ OwedOf(r) = OwedBy(e) \cup OwedOf(p) /\ TasksOf(r) = <<t>> \o TasksOf(p)
             /\ Len(r) = Len(p) + 1 /\ \A i \in 1 .. Len(p) : r[i + 1] = p[i]
PROOF
  <1> DEFINE e == E(t, x, s, o, b, c)
             r == Stack(e, p)
  <1>1. /\ t \in TaskSet /\ t.do \in {"statement", "item", "items", "else", "if_end"}
        /\ f >= 1 /\ t.do = "item" => p[1].task.do = "items"
        /\ f >= 1 /\ t.do = "items" => p[1].task.do = "close"
        /\ \A l \in Owes(t), w \in OwedOf(p) : w[1] # l
        /\ t.do = "else" =>
             \E j \in 1 .. Len(p) : p[j].task = Task("if_end", t.n) /\ (f >= 1 => p[j].idx = x)
    BY DEF Stackable
  <1>2. /\ e.task = t /\ e.idx = x /\ e.scopes = s /\ e.open = o /\ e.breaks = b /\ e.conts = c
        /\ e \in Entry
    BY <1>1 DEF E, Entry, Context
  <1>3. r = <<e>> \o p
    BY DEF Stack
  <1> HIDE DEF e, r
  <1>4. /\ p \in Seq(Entry) /\ Len(p) \in Nat \ {0} /\ p[1] \in Entry /\ Right(f, p[1])
        /\ f >= 1 => \A j \in 1 .. Len(p) : p[j].idx <= p[1].idx
        /\ p[1].breaks # <<>> => \E j \in 1 .. Len(p) : Owns(p[1], p[j])
    BY Highest DEF Ready
  <1>5. Right(f, e)
    BY <1>1, <1>2, <1>4 DEF Right, Loops, Finds
  <1>6. Before(f, e, p[1])
    BY <1>1, <1>2 DEF Before, Loops, Finds
  <1>7. Backed(f, M, e)
    BY <1>1, <1>2 DEF Backed
  <1>8. ASSUME NEW j \in 1 .. Len(p) PROVE Above(f, e, p[j])
    <2>1. \A l \in Owes(p[j].task) : <<l, p[j].idx>> \in OwedOf(p) /\ <<l, p[j].idx>>[1] = l
      BY DEF OwedOf, OwedBy
    <2>2. Owes(e.task) \cap Owes(p[j].task) = {}
      BY <1>1, <1>2, <2>1
    <2>. QED BY <1>2, <1>4, <2>2 DEF Above, Finds
  <1>9. e.task.do = "else" => \E j \in 1 .. Len(p) : Ends(f, e, p[j])
    BY <1>1, <1>2 DEF Ends
  <1>10. e.breaks # <<>> => \E j \in 1 .. Len(p) : Owns(e, p[j])
    BY <1>2, <1>4 DEF Owns, Finds
  <1>11. Ready(f, M, r) /\ r[1] = e
    <2>1. e \in Entry /\ (e.breaks # <<>> => Owns(e, e) \/ \E j \in 1 .. Len(p) : Owns(e, p[j]))
      BY <1>2, <1>10
    <2>2. OnTop(f, M, p, e)
      BY <1>5, <1>6, <1>7, <1>8, <1>9, <2>1 DEF OnTop
    <2>. QED BY <2>2, <1>3, Stacked
  <1>12. r \in Seq(Entry) /\ Len(r) = Len(p) + 1 /\ \A i \in 1 .. Len(p) : r[i + 1] = p[i]
    BY <1>3, <1>2, <1>4, Pushed
  <1>13. OwedOf(r) = OwedBy(e) \cup OwedOf(p) /\ TasksOf(r) = <<t>> \o TasksOf(p)
    <2>1. p \in Seq(Entry)
      BY <1>4
    <2>2. OwedOf(r) = OwedBy(r[1]) \cup OwedOf(p) /\ TasksOf(r) = <<r[1].task>> \o TasksOf(p)
      BY <1>12, <2>1, Parts
    <2>. QED BY <1>11, <1>2, <2>2
  <1>14. Finds(f, r, x, s, o, b, c)
    BY <1>2, <1>11 DEF Finds
  <1>. QED BY <1>2, <1>11, <1>12, <1>13, <1>14 DEF e, r

\* A close, which finds index y and the scopes z, and goes back to the context
\* behind it.
Closes(x, s, o, y, z, n) ==
  /\ y \in Nat /\ z \in Seq(Nat) /\ n \in Nat
  /\ z # <<>> /\ Tail(z) = s /\ x = y - 4 * Head(z) /\ o = n - 1

\* The end of a scope, on a plan that finds the context outside it.
LEMMA StackClose ==
  ASSUME NEW f \in Nat, NEW M, NEW p, Ready(f, M, p),
         NEW x, NEW s, NEW o, NEW b, NEW c, Context(x, s, o, b, c), Finds(f, p, x, s, o, b, c),
         NEW y, NEW z, NEW n, Closes(x, s, o, y, z, n)
  PROVE  LET e == E(Task("close", x), y, z, n, b, c)
             r == Stack(e, p)
         IN  /\ Ready(f, M, r) /\ r[1] = e /\ e.task = Task("close", x)
             /\ Context(y, z, n, b, c) /\ Finds(f, r, y, z, n, b, c)
             /\ OwedOf(r) = OwedOf(p) /\ TasksOf(r) = <<Task("close", x)>> \o TasksOf(p)
             /\ Len(r) = Len(p) + 1 /\ \A i \in 1 .. Len(p) : r[i + 1] = p[i]
PROOF
  <1> DEFINE t == Task("close", x)
             e == E(t, y, z, n, b, c)
             r == Stack(e, p)
  <1>1. t \in TaskSet /\ t.do = "close" /\ t.n = x
    BY DEF Task, TaskSet, Tasks, Context
  <1>2. /\ y \in Nat /\ z \in Seq(Nat) /\ n \in Nat
        /\ z # <<>> /\ Tail(z) = s /\ x = y - 4 * Head(z) /\ o = n - 1
    BY DEF Closes
  <1> HIDE DEF t
  <1>3. Context(y, z, n, b, c)
    BY <1>2 DEF Context
  <1>4. /\ e.task = t /\ e.idx = y /\ e.scopes = z /\ e.open = n /\ e.breaks = b
        /\ e.conts = c /\ e \in Entry
    BY <1>1, <1>3 DEF E, Entry, Context
  <1>5. r = <<e>> \o p
    BY DEF Stack
  <1> HIDE DEF e, r
  <1>6. /\ p \in Seq(Entry) /\ Len(p) \in Nat \ {0} /\ p[1] \in Entry /\ Right(f, p[1])
        /\ f >= 1 => \A j \in 1 .. Len(p) : p[j].idx <= p[1].idx
        /\ p[1].breaks # <<>> => \E j \in 1 .. Len(p) : Owns(p[1], p[j])
    BY Highest DEF Ready
  <1>7. Owes(t) = {}
    BY <1>1 DEF Owes
  <1>8. Right(f, e)
    <2>1. n >= 1
      BY <1>2 DEF Context
    <2>. QED BY <1>1, <1>2, <1>4, <1>6, <2>1 DEF Right, Loops, Finds
  <1>9. Before(f, e, p[1])
    BY <1>1, <1>2, <1>4 DEF Before, Loops, Finds
  <1>10. Backed(f, M, e)
    BY <1>1, <1>4 DEF Backed
  <1>11. ASSUME NEW j \in 1 .. Len(p) PROVE Above(f, e, p[j])
    <2>1. p[j] \in Entry
      BY <1>6, ElementOfSeq
    <2>2. p[j].idx \in Nat
      BY <2>1 DEF Entry
    <2>3. f >= 1 => p[j].idx <= x
      BY <1>6 DEF Finds
    <2>4. Head(z) \in Nat
      BY <1>2, HeadTailProperties
    <2>5. x <= y /\ x \in Nat
      <3>1. x = y - 4 * Head(z) /\ y \in Nat /\ x \in Nat
        BY <1>2 DEF Context
      <3>. QED BY <2>4, <3>1
    <2>6. f >= 1 => p[j].idx <= y
      BY <1>2, <2>2, <2>3, <2>5
    <2>. QED BY <1>4, <1>7, <2>6 DEF Above
  <1>12. e.breaks # <<>> => \E j \in 1 .. Len(p) : Owns(e, p[j])
    BY <1>4, <1>6 DEF Owns, Finds
  <1>13. Ready(f, M, r) /\ r[1] = e
    <2>1. e \in Entry /\ (e.breaks # <<>> => Owns(e, e) \/ \E j \in 1 .. Len(p) : Owns(e, p[j]))
      BY <1>4, <1>12
    <2>2. e.task.do = "else" => \E j \in 1 .. Len(p) : Ends(f, e, p[j])
      BY <1>1, <1>4
    <2>3. OnTop(f, M, p, e)
      BY <1>8, <1>9, <1>10, <1>11, <2>1, <2>2 DEF OnTop
    <2>. QED BY <2>3, <1>5, Stacked
  <1>14. r \in Seq(Entry) /\ Len(r) = Len(p) + 1 /\ \A i \in 1 .. Len(p) : r[i + 1] = p[i]
    BY <1>5, <1>4, <1>6, Pushed
  <1>15. OwedOf(r) = OwedBy(e) \cup OwedOf(p) /\ TasksOf(r) = <<t>> \o TasksOf(p)
    <2>1. p \in Seq(Entry)
      BY <1>6
    <2>2. OwedOf(r) = OwedBy(r[1]) \cup OwedOf(p) /\ TasksOf(r) = <<r[1].task>> \o TasksOf(p)
      BY <1>14, <2>1, Parts
    <2>. QED BY <1>13, <1>4, <2>2
  <1>16. OwedBy(e) = {}
    BY <1>4, <1>7 DEF OwedBy
  <1>17. Finds(f, r, y, z, n, b, c)
    BY <1>4, <1>13 DEF Finds
  <1>. QED BY <1>3, <1>4, <1>13, <1>14, <1>15, <1>16, <1>17 DEF e, r, t

\* The labels a loop pushes.
EndsAt(t, b) == <<<<"end", t.n>>>> \o b
Continues(t, c) == <<Cont(t)>> \o c

Loopable(f, M, p, x, t) ==
  /\ t \in TaskSet /\ t.do \in Loops
  /\ \A l \in Owes(t), w \in OwedOf(p) : w[1] # l
  /\ \A e \in Entry : e.task = t /\ e.idx = x => Backed(f, M, e)

\* The end of a loop, on a plan that finds the stacks without its labels.
LEMMA StackLoop ==
  ASSUME NEW f \in Nat, NEW M, NEW p, Ready(f, M, p),
         NEW x, NEW s, NEW o, NEW b, NEW c, Context(x, s, o, b, c), Finds(f, p, x, s, o, b, c),
         NEW t, Loopable(f, M, p, x, t)
  PROVE  LET bs == EndsAt(t, b)
             cs == Continues(t, c)
             e == E(t, x, s, o, bs, cs)
             r == Stack(e, p)
         IN  /\ Ready(f, M, r) /\ r[1] = e /\ e.task = t
             /\ Context(x, s, o, bs, cs) /\ Finds(f, r, x, s, o, bs, cs)
             /\ OwedOf(r) = OwedBy(e) \cup OwedOf(p) /\ TasksOf(r) = <<t>> \o TasksOf(p)
             /\ Len(r) = Len(p) + 1 /\ \A i \in 1 .. Len(p) : r[i + 1] = p[i]
PROOF
  <1> DEFINE bs == EndsAt(t, b)
             cs == Continues(t, c)
             e == E(t, x, s, o, bs, cs)
             r == Stack(e, p)
  <1>1. /\ t \in TaskSet /\ t.do \in Loops
        /\ \A l \in Owes(t), w \in OwedOf(p) : w[1] # l
        /\ \A d \in Entry : d.task = t /\ d.idx = x => Backed(f, M, d)
    BY DEF Loopable
  <1>2. t.n \in Nat /\ <<"end", t.n>> \in LoopLabel /\ Cont(t) \in LoopLabel
    BY <1>1 DEF TaskSet, LoopLabel, Kinds, Cont
  <1>3. /\ bs \in Seq(LoopLabel) /\ bs # <<>> /\ Head(bs) = <<"end", t.n>> /\ Tail(bs) = b
        /\ Len(bs) = Len(b) + 1
    BY <1>2, Pushed DEF Context, EndsAt
  <1>4. /\ cs \in Seq(LoopLabel) /\ cs # <<>> /\ Head(cs) = Cont(t) /\ Tail(cs) = c
        /\ Len(cs) = Len(c) + 1
    BY <1>2, Pushed DEF Context, Continues
  <1>5. /\ e.task = t /\ e.idx = x /\ e.scopes = s /\ e.open = o /\ e.breaks = bs /\ e.conts = cs
        /\ e \in Entry /\ Context(x, s, o, bs, cs)
    BY <1>1, <1>3, <1>4 DEF E, Entry, Context
  <1>6. r = <<e>> \o p
    BY DEF Stack
  <1> HIDE DEF e, r, bs, cs
  <1>7. /\ p \in Seq(Entry) /\ Len(p) \in Nat \ {0} /\ p[1] \in Entry /\ Right(f, p[1])
        /\ f >= 1 => \A j \in 1 .. Len(p) : p[j].idx <= p[1].idx
    BY Highest DEF Ready
  <1>8. Right(f, e)
    BY <1>1, <1>3, <1>4, <1>5, <1>7 DEF Right, Loops, Finds
  <1>9. Before(f, e, p[1])
    BY <1>1, <1>3, <1>4, <1>5 DEF Before, Loops, Finds
  <1>10. ASSUME NEW j \in 1 .. Len(p) PROVE Above(f, e, p[j])
    <2>1. \A l \in Owes(p[j].task) : <<l, p[j].idx>> \in OwedOf(p) /\ <<l, p[j].idx>>[1] = l
      <3>1. \A l \in Owes(p[j].task) : <<l, p[j].idx>> \in OwedBy(p[j])
        BY DEF OwedBy
      <3>2. OwedBy(p[j]) \subseteq OwedOf(p)
        BY DEF OwedOf
      <3>. QED BY <3>1, <3>2
    <2>2. Owes(e.task) \cap Owes(p[j].task) = {}
      BY <1>1, <1>5, <2>1
    <2>. QED BY <1>5, <1>7, <2>2 DEF Above, Finds
  <1>11. Backed(f, M, e)
    BY <1>1, <1>5
  <1>12. Owns(e, e)
    BY <1>1, <1>5 DEF Owns
  <1>13. e.task.do # "else"
    BY <1>1, <1>5 DEF Loops
  <1>14. Ready(f, M, r) /\ r[1] = e
    <2>1. e \in Entry /\ (e.breaks # <<>> => Owns(e, e) \/ \E j \in 1 .. Len(p) : Owns(e, p[j]))
      BY <1>5, <1>12
    <2>2. e.task.do = "else" => \E j \in 1 .. Len(p) : Ends(f, e, p[j])
      BY <1>13
    <2>3. OnTop(f, M, p, e)
      BY <1>8, <1>9, <1>10, <1>11, <2>1, <2>2 DEF OnTop
    <2>4. Ready(f, M, <<e>> \o p) /\ (<<e>> \o p)[1] = e
      BY <2>3, Stacked
    <2>. QED BY <1>6, <2>4
  <1>15. r \in Seq(Entry) /\ Len(r) = Len(p) + 1 /\ \A i \in 1 .. Len(p) : r[i + 1] = p[i]
    BY <1>6, <1>5, <1>7, Pushed
  <1>16. OwedOf(r) = OwedBy(e) \cup OwedOf(p) /\ TasksOf(r) = <<t>> \o TasksOf(p)
    <2>1. p \in Seq(Entry)
      BY <1>7
    <2>2. OwedOf(r) = OwedBy(r[1]) \cup OwedOf(p) /\ TasksOf(r) = <<r[1].task>> \o TasksOf(p)
      BY <1>15, <2>1, Parts
    <2>. QED BY <1>14, <1>5, <2>2
  <1>17. Finds(f, r, x, s, o, bs, cs)
    BY <1>5, <1>14 DEF Finds
  <1>. QED BY <1>5, <1>14, <1>15, <1>16, <1>17 DEF e, r, bs, cs

\* The three lemmas once more, for the plan with its context.
Fit(f, M, p, x, s, o, b, c) ==
  f \in Nat /\ Ready(f, M, p) /\ Context(x, s, o, b, c) /\ Finds(f, p, x, s, o, b, c)

Due(t, x) == {<<l, x>> : l \in Owes(t)}

\* r is p with t on it.
Puts(t, x, p, r) ==
  /\ r[1].task = t /\ Len(r) = Len(p) + 1 /\ \A i \in 1 .. Len(p) : r[i + 1] = p[i]
  /\ OwedOf(r) = Due(t, x) \cup OwedOf(p) /\ TasksOf(r) = <<t>> \o TasksOf(p)

LEMMA PutTask ==
  ASSUME NEW f, NEW M, NEW p, NEW x, NEW s, NEW o, NEW b, NEW c, Fit(f, M, p, x, s, o, b, c),
         NEW t, Stackable(f, p, x, t)
  PROVE  \E r : Fit(f, M, r, x, s, o, b, c) /\ Puts(t, x, p, r)
PROOF
  <1> DEFINE e == E(t, x, s, o, b, c)
             r == Stack(e, p)
  <1>1. f \in Nat /\ Ready(f, M, p) /\ Context(x, s, o, b, c) /\ Finds(f, p, x, s, o, b, c)
    BY DEF Fit
  <1>2. /\ Ready(f, M, r) /\ r[1] = e /\ e.task = t /\ Finds(f, r, x, s, o, b, c)
        /\ OwedOf(r) = OwedBy(e) \cup OwedOf(p) /\ TasksOf(r) = <<t>> \o TasksOf(p)
        /\ Len(r) = Len(p) + 1 /\ \A i \in 1 .. Len(p) : r[i + 1] = p[i]
    BY <1>1, StackTask
  <1>3. OwedBy(e) = Due(t, x)
    BY DEF OwedBy, Due, E
  <1> HIDE DEF r, e
  <1>4. Fit(f, M, r, x, s, o, b, c)
    BY <1>1, <1>2 DEF Fit
  <1>5. Puts(t, x, p, r)
    BY <1>2, <1>3 DEF Puts
  <1>. QED BY <1>4, <1>5

LEMMA PutClose ==
  ASSUME NEW f, NEW M, NEW p, NEW x, NEW s, NEW o, NEW b, NEW c, Fit(f, M, p, x, s, o, b, c),
         NEW y, NEW z, NEW n, Closes(x, s, o, y, z, n)
  PROVE  \E r : Fit(f, M, r, y, z, n, b, c) /\ Puts(Task("close", x), y, p, r)
PROOF
  <1> DEFINE t == Task("close", x)
             e == E(t, y, z, n, b, c)
             r == Stack(e, p)
  <1>1. f \in Nat /\ Ready(f, M, p) /\ Context(x, s, o, b, c) /\ Finds(f, p, x, s, o, b, c)
    BY DEF Fit
  <1>2. /\ Ready(f, M, r) /\ r[1] = e /\ e.task = t
        /\ Context(y, z, n, b, c) /\ Finds(f, r, y, z, n, b, c)
        /\ OwedOf(r) = OwedOf(p) /\ TasksOf(r) = <<t>> \o TasksOf(p)
        /\ Len(r) = Len(p) + 1 /\ \A i \in 1 .. Len(p) : r[i + 1] = p[i]
    BY <1>1, StackClose
  <1>3. Due(t, y) = {}
    BY DEF Due, Owes, Task
  <1> HIDE DEF r, e, t
  <1>4. Fit(f, M, r, y, z, n, b, c)
    BY <1>1, <1>2 DEF Fit
  <1>5. Puts(t, y, p, r)
    BY <1>2, <1>3 DEF Puts
  <1>. QED BY <1>4, <1>5 DEF t

LEMMA PutLoop ==
  ASSUME NEW f, NEW M, NEW p, NEW x, NEW s, NEW o, NEW b, NEW c, Fit(f, M, p, x, s, o, b, c),
         NEW t, Loopable(f, M, p, x, t)
  PROVE  \E r : /\ Fit(f, M, r, x, s, o, EndsAt(t, b), Continues(t, c))
                /\ Puts(t, x, p, r)
PROOF
  <1> DEFINE bs == EndsAt(t, b)
             cs == Continues(t, c)
             e == E(t, x, s, o, bs, cs)
             r == Stack(e, p)
  <1>1. f \in Nat /\ Ready(f, M, p) /\ Context(x, s, o, b, c) /\ Finds(f, p, x, s, o, b, c)
    BY DEF Fit
  <1>2. /\ Ready(f, M, r) /\ r[1] = e /\ e.task = t
        /\ Context(x, s, o, bs, cs) /\ Finds(f, r, x, s, o, bs, cs)
        /\ OwedOf(r) = OwedBy(e) \cup OwedOf(p) /\ TasksOf(r) = <<t>> \o TasksOf(p)
        /\ Len(r) = Len(p) + 1 /\ \A i \in 1 .. Len(p) : r[i + 1] = p[i]
    BY <1>1, StackLoop
  <1>3. OwedBy(e) = Due(t, x)
    BY DEF OwedBy, Due, E
  <1> HIDE DEF r, e, bs, cs
  <1>4. Fit(f, M, r, x, s, o, bs, cs)
    BY <1>1, <1>2 DEF Fit
  <1>5. Puts(t, x, p, r)
    BY <1>2, <1>3 DEF Puts
  <1>. QED BY <1>4, <1>5 DEF bs, cs

-----------------------------------------------------------------------------
(***************************************************************************)
(* The inductive invariant: there is a plan q of the work left such that.. *)
(***************************************************************************)
Typed ==
  /\ phase \in Phase
  /\ idx \in Nat /\ nr \in Nat /\ scopes \in Seq(Nat)
  /\ breaks \in Seq(LoopLabel) /\ conts \in Seq(LoopLabel)
  /\ userset \in [Labels -> {"unknown", "referenced", "defined"}]
  /\ pc \in Nat \ {0} /\ depth \in Int

\* .. its first entry has the context in force, ..
Planned(q) ==
  /\ q \in Seq(Entry) /\ work = TasksOf(q)
  /\ q # <<>> => /\ Ready(Discipline, MarksOf(code), q)
                 /\ Finds(Discipline, q, idx, scopes, Len(scopes), breaks, conts)
  /\ phase = "gen" => q # <<>>
  /\ phase \in {"start", "run", "returned"} => q = <<>>

\* .. the labels that are not marked are owed, ..
Resolved(q) ==
  /\ Emitted(Discipline, code, idx, MarksOf(code), JumpsOf(code))
  /\ Labelled(Discipline, MarksOf(code), JumpsOf(code), OwedOf(q), userset, nr)

\* .. and the processor is where the code thinks it is.
Runs ==
  /\ phase = "start" => code = <<>> /\ breaks = <<>> /\ conts = <<>>
  /\ phase \in {"start", "gen"} => pc = 1 /\ depth = 0
  /\ phase = "run" =>
       /\ pc \in 1 .. Len(code) /\ Fits(Discipline, depth, code[pc].at)
       /\ code[Len(code)].op = "ret"
       /\ \A l \in Labels : userset[l] # "referenced"

Inv(q) == Planned(q) /\ Resolved(q)
IInv == Typed /\ Runs /\ \E q \in Seq(Entry) : Inv(q)

\* The discipline is one of three, and goes down when there are more kinds of jumps.
LEMMA Disciplines ==
  /\ Discipline \in 0 .. 2
  /\ Discipline = 2 <=> uses = {}
  /\ Discipline >= 1 <=> uses \subseteq {"loop"}
  /\ uses \subseteq uses' => Discipline' <= Discipline /\ Discipline' \in 0 .. 2
  /\ uses' = uses => Discipline' = Discipline
PROOF
  BY DEF Discipline

\* The expressions of a step leave bytes: then no index is claimed any more.
LEMMA Grown ==
  ASSUME NEW n \in Nat, NEW x \in Nat, Generated(n, x), NEW g, g = Discipline'
  PROVE  uses \subseteq uses' /\ idx' = x + n /\ idx' \in Nat /\ (g >= 1 => n = 0 /\ idx' = x)
PROOF
  <1>1. /\ idx' = x + n
        /\ uses' = IF n = 0 THEN uses ELSE uses \cup {"args"}
    BY DEF Generated
  <1>2. n # 0 => ~(g >= 1)
    BY <1>1 DEF Discipline
  <1>. QED BY <1>1, <1>2

\* Where no index is claimed, marks and jumps may be given any.
LEMMA Blind ==
  ASSUME NEW M, NEW N, Firsts(M) = Firsts(N), NEW J, NEW K, Firsts(J) = Firsts(K)
  PROVE  /\ \A r : Ready(0, M, r) => Ready(0, N, r)
         /\ \A O, us, n : Labelled(0, M, J, O, us, n) => Labelled(0, N, K, O, us, n)
PROOF
  <1>1. \A m \in M : \E k \in N : k[1] = m[1]
    BY SameFirsts
  <1>2. \A k \in N : \E m \in M : m[1] = k[1]
    BY SameFirsts
  <1>3. \A k \in K : \E j \in J : j[1] = k[1]
    BY SameFirsts
  <1>4. \A a, b : Fits(0, a, b)
    BY DEF Fits
  <1>5. ASSUME NEW r, Ready(0, M, r) PROVE Ready(0, N, r)
    <2>1. \A e : Backed(0, M, e) => Backed(0, N, e)
      BY <1>1 DEF Backed
    <2>. QED BY <1>5, <2>1 DEF Ready
  <1>6. ASSUME NEW O, NEW us, NEW n, Labelled(0, M, J, O, us, n) PROVE Labelled(0, N, K, O, us, n)
    <2>1. \A m \in N :
            \/ \E l \in Labels : m[1] = UserLabel(l) /\ us[l] = "defined"
            \/ m[1] \in LoopLabel /\ m[1][2] < n /\ \A o \in O : o[1] # m[1]
      BY <1>2, <1>6 DEF Labelled
    <2>2. \A l \in Labels : us[l] = "defined" => \E m \in N : m[1] = UserLabel(l)
      BY <1>1, <1>6 DEF Labelled
    <2>3. ASSUME NEW k \in K
          PROVE  \/ \E l \in Labels : k[1] = UserLabel(l) /\ us[l] # "unknown"
                 \/ \E m \in N \cup O : m[1] = k[1] /\ Fits(0, k[2], m[2])
      <3>1. PICK j \in J : j[1] = k[1]
        BY <1>3
      <3>2. \/ \E l \in Labels : j[1] = UserLabel(l) /\ us[l] # "unknown"
            \/ \E m \in M \cup O : m[1] = j[1]
        BY <1>6 DEF Labelled
      <3>. QED BY <1>1, <1>4, <3>1, <3>2
    <2>4. \A o \in O : o[1] \in LoopLabel /\ o[1][2] < n
      BY <1>6 DEF Labelled
    <2>. QED BY <2>1, <2>2, <2>3, <2>4 DEF Labelled
  <1>. QED BY <1>5, <1>6

\* A step of the generators, with the plan that is left, the index, the labels
\* marked and the jumps.
LEMMA Generates ==
  ASSUME Runs, Typed', phase = "gen", phase' = "gen", UNCHANGED machine,
         NEW g, g = Discipline', NEW r, NEW M, NEW J, Ready(g, M, r), NEW x, g >= 1 => idx' = x,
         Finds(g, r, x, scopes', Len(scopes'), breaks', conts'), work' = TasksOf(r),
         Emitted(g, code', x, M, J), Labelled(g, M, J, OwedOf(r), userset', nr')
  PROVE  IInv'
PROOF
  <1> DEFINE N == MarksOf(code')
             K == JumpsOf(code')
  <1>1. Alike(g, M, N) /\ Alike(g, J, K)
    BY DEF Emitted
  <1>2. r \in Seq(Entry) /\ r # <<>>
    BY DEF Ready
  <1>3. g \in 0 .. 2
    BY DEF Discipline
  <1>4. Ready(g, N, r) /\ Labelled(g, N, K, OwedOf(r), userset', nr')
    <2>1. CASE g = 0
      <3>1. Firsts(M) = Firsts(N) /\ Firsts(J) = Firsts(K)
        BY <1>1 DEF Alike
      <3>2. Ready(0, M, r) /\ Labelled(0, M, J, OwedOf(r), userset', nr')
        BY <2>1
      <3> HIDE DEF N, K
      <3>3. Ready(0, N, r) /\ Labelled(0, N, K, OwedOf(r), userset', nr')
        BY <3>1, <3>2, Blind
      <3>. QED BY <2>1, <3>3
    <2>2. CASE g # 0
      <3>1. M = N /\ J = K
        BY <1>1, <1>3, <2>2 DEF Alike
      <3>. QED BY <3>1
    <2>. QED BY <2>1, <2>2
  <1>5. Finds(g, r, idx', scopes', Len(scopes'), breaks', conts')
    BY DEF Finds
  <1>6. Emitted(g, code', idx', N, K)
    BY DEF Emitted, Alike
  <1>7. Planned(r)'
    BY <1>2, <1>4, <1>5 DEF Planned
  <1>8. Resolved(r)'
    BY <1>4, <1>6 DEF Resolved
  <1>9. Runs'
    BY DEF Runs, machine
  <1>. QED BY <1>2, <1>7, <1>8, <1>9 DEF IInv, Inv

\* Before such a step.
LEMMA Begins ==
  ASSUME Typed, NEW q, Inv(q), phase = "gen", Head(work).do # "end_function",
         NEW g \in 0 .. 2, g <= Discipline
  PROVE  LET p == Tail(q)
             M == MarksOf(code)
             J == JumpsOf(code)
         IN  /\ Tail(work) \in Seq(TaskSet) /\ Head(work) \in TaskSet /\ q[1].task = Head(work) /\ q[1] \in Entry /\ g \in Nat
             /\ Ready(g, M, q) /\ Ready(g, M, p) /\ TasksOf(p) = Tail(work)
             /\ Finds(g, q, idx, scopes, Len(scopes), breaks, conts)
             /\ Right(g, q[1]) /\ Before(g, q[1], p[1])
             /\ \A j \in 1 .. Len(p) : Above(g, q[1], p[j])
             /\ Len(q) = Len(p) + 1 /\ Len(p) \in Nat \ {0} /\ \A i \in 1 .. Len(p) : p[i] = q[i + 1]
             /\ OwedOf(q) = OwedBy(q[1]) \cup OwedOf(p)
             /\ \A a \in OwedBy(q[1]), b \in OwedOf(p) : a[1] # b[1]
             /\ Emitted(g, code, idx, M, J)
             /\ Labelled(g, M, J, OwedBy(q[1]) \cup OwedOf(p), userset, nr)
             /\ Context(idx, scopes, Len(scopes), breaks, conts)
PROOF
  <1> DEFINE p == Tail(q)
             M == MarksOf(code)
             J == JumpsOf(code)
  <1>1. Discipline \in 0 .. 2 /\ Discipline \in Nat /\ g \in Nat
    BY Disciplines
  <1>2. /\ q \in Seq(Entry) /\ q # <<>> /\ work = TasksOf(q) /\ Ready(Discipline, M, q)
        /\ Finds(Discipline, q, idx, scopes, Len(scopes), breaks, conts)
    BY DEF Inv, Planned
  <1>3. Ready(g, M, q)
    BY <1>1, <1>2, Wilder
  <1>4. q[1] \in Entry /\ Len(q) \in Nat \ {0}
    BY <1>1, <1>2, Highest
  <1>5. p \in Seq(Entry) /\ Len(p) = Len(q) - 1 /\ \A i \in 1 .. Len(p) : p[i] = q[i + 1]
    BY <1>2, HeadTailProperties
  <1>6. Len(q) = Len(p) + 1
    BY <1>4, <1>5
  <1> HIDE DEF p
  <1>7. /\ OwedOf(q) = OwedBy(q[1]) \cup OwedOf(p)
        /\ Head(TasksOf(q)) = q[1].task /\ Tail(TasksOf(q)) = TasksOf(p)
    BY <1>2, <1>5, <1>6, Parts
  <1>8. q[1].task = Head(work) /\ TasksOf(p) = Tail(work) /\ Head(work) \in TaskSet
    BY <1>2, <1>4, <1>7 DEF Entry
  <1>9. Tail(work) \in Seq(TaskSet)
    <2>1. work \in Seq(TaskSet) /\ work # <<>>
      BY <1>2, <1>5, <1>6, Parts
    <2>. QED BY <2>1, HeadTailProperties
  <1>10. /\ Ready(g, M, p) /\ Len(p) \in Nat \ {0}
        /\ Right(g, q[1]) /\ Before(g, q[1], p[1])
        /\ \A j \in 1 .. Len(p) : Above(g, q[1], p[j])
    BY <1>1, <1>3, <1>8, Unstacked DEF p
  <1>11. ASSUME NEW a \in OwedBy(q[1]), NEW b \in OwedOf(p) PROVE a[1] # b[1]
    <2>1. PICK j \in 1 .. Len(p) : b \in OwedBy(p[j])
      BY DEF OwedOf
    <2>2. a[1] \in Owes(q[1].task) /\ b[1] \in Owes(p[j].task)
      BY <2>1 DEF OwedBy
    <2>. QED BY <1>10, <2>2 DEF Above
  <1>12. Emitted(g, code, idx, M, J)
    <2>1. Emitted(Discipline, code, idx, M, J)
      BY DEF Inv, Resolved
    <2>. QED BY <1>1, <2>1 DEF Emitted, Alike
  <1>13. Labelled(g, M, J, OwedBy(q[1]) \cup OwedOf(p), userset, nr)
    <2>1. Labelled(Discipline, M, J, OwedOf(q), userset, nr)
      BY DEF Inv, Resolved
    <2>. QED BY <1>1, <1>7, <2>1, LabelsWilder
  <1>14. Context(idx, scopes, Len(scopes), breaks, conts)
    BY LenProperties DEF Typed, Context
  <1>15. Finds(g, q, idx, scopes, Len(scopes), breaks, conts)
    BY <1>1, <1>2 DEF Finds
  <1>. QED BY <1>1, <1>3, <1>4, <1>5, <1>6, <1>7, <1>8, <1>10, <1>11, <1>12, <1>13, <1>14, <1>15, <1>9 DEF p

\* A task that leaves the context as it is.
Plain == {"statement", "item", "items", "else", "if_end"}

\* What is left behind such a task finds the same context.
LEMMA BeginsPlain ==
  ASSUME Typed, NEW q, Inv(q), phase = "gen", Head(work).do \in Plain,
         NEW g \in 0 .. 2, g <= Discipline
  PROVE  /\ Finds(g, Tail(q), idx, scopes, Len(scopes), breaks, conts)
         /\ Head(work).do \in {"statement", "item", "items"} =>
              Labelled(g, MarksOf(code), JumpsOf(code), OwedOf(Tail(q)), userset, nr)
PROOF
  <1>1. Head(work).do # "end_function"
    BY DEF Plain
  <1>2. /\ q[1].task = Head(work) /\ Before(g, q[1], Tail(q)[1])
        /\ Finds(g, q, idx, scopes, Len(scopes), breaks, conts)
        /\ Labelled(g, MarksOf(code), JumpsOf(code), OwedBy(q[1]) \cup OwedOf(Tail(q)), userset, nr)
    BY <1>1, Begins
  <1>3. Finds(g, Tail(q), idx, scopes, Len(scopes), breaks, conts)
    BY <1>2 DEF Finds, Before, Plain, Loops
  <1>4. Head(work).do \in {"statement", "item", "items"} => OwedBy(q[1]) = {}
    BY <1>2 DEF OwedBy, Owes
  <1>5. {} \cup OwedOf(Tail(q)) = OwedOf(Tail(q))
    OBVIOUS
  <1>. QED BY <1>2, <1>3, <1>4, <1>5

\* The step of such a task that puts nothing on the work.
LEMMA Leaves ==
  ASSUME Typed, Runs, Typed', NEW q, Inv(q), phase = "gen", Head(work).do \in Plain,
         UNCHANGED <<phase, machine, scopes, breaks, conts>>, work' = <<>> \o Tail(work),
         NEW g, g = Discipline', uses \subseteq uses', g >= 1 => idx' = idx,
         NEW M, NEW J, MarksOf(code) \subseteq M, Emitted(g, code', idx, M, J), Labelled(g, M, J, OwedOf(Tail(q)), userset', nr')
  PROVE  IInv'
PROOF
  <1>1. g \in 0 .. 2 /\ g <= Discipline /\ g \in Nat /\ Head(work).do # "end_function"
    BY Disciplines DEF Plain
  <1>2. Ready(g, MarksOf(code), Tail(q)) /\ TasksOf(Tail(q)) = Tail(work)
        /\ Tail(work) \in Seq(TaskSet)
    BY <1>1, Begins
  <1>3. Ready(g, M, Tail(q))
    BY <1>1, <1>2, Wilder
  <1>4. Finds(g, Tail(q), idx, scopes, Len(scopes), breaks, conts)
    BY <1>1, BeginsPlain
  <1>5. work' = TasksOf(Tail(q))
    BY <1>2, Groups
  <1>. QED BY <1>3, <1>4, <1>5, Generates DEF machine

-----------------------------------------------------------------------------
(***************************************************************************)
(* Statements that need no task.                                           *)
(***************************************************************************)
LEMMA Instrs ==
  ASSUME NEW x \in Nat
  PROVE  /\ Ret(x) \in Instr /\ Sub(x) \in Instr
         /\ \A n \in Nat : Add(n, x) \in Instr /\ Eval(n, x) \in Instr
         /\ \A l \in Label : /\ Mark(l, x) \in Instr /\ Jump(l, x) \in Instr
                            /\ \A n \in Nat : Branch(l, n, x) \in Instr
PROOF
  BY DEF Eval, Ret, Sub, Add, Mark, Jump, Branch, Ins, Instr, Op, Label

\* One more item of a block, or its end.
LEMMA NextItemKeeps == ASSUME IInv, NextItem PROVE IInv'
PROOF
  <1> DEFINE g == Discipline
             M == MarksOf(code)
             J == JumpsOf(code)
  <1>1. PICK q : Inv(q)
    BY DEF IInv
  <1>2. Typed /\ Runs /\ phase = "gen" /\ Head(work).do = "items" /\ Head(work).do \in Plain
    BY DEF IInv, NextItem, At, Plain
  <1>3. /\ UNCHANGED <<phase, pc, depth, idx, scopes, breaks, conts, nr, userset, uses>>
        /\ code' = code \o <<>> /\ Discipline' = g /\ g \in 0 .. 2 /\ g <= Discipline /\ Typed'
    BY <1>2, Disciplines DEF NextItem, Emit, ctx, machine, Typed
  <1>4. /\ Emitted(g, code, idx, M, J) /\ Ready(g, M, Tail(q)) /\ TasksOf(Tail(q)) = Tail(work)
        /\ Tail(work) \in Seq(TaskSet)
        /\ q[1].task = Head(work) /\ Before(g, q[1], Tail(q)[1]) /\ g \in Nat
        /\ Context(idx, scopes, Len(scopes), breaks, conts)
    BY <1>1, <1>2, <1>3, Begins
  <1>5. /\ Finds(g, Tail(q), idx, scopes, Len(scopes), breaks, conts)
        /\ Labelled(g, M, J, OwedOf(Tail(q)), userset, nr)
    BY <1>1, <1>2, <1>3, BeginsPlain
  <1>6. code' = code
    BY <1>3, <1>4, OneByOne DEF Emitted
  <1>7. CASE work' = <<>> \o Tail(work)
    BY <1>1, <1>2, <1>3, <1>4, <1>5, <1>6, <1>7, Leaves DEF machine
  <1>8. CASE work' = <<Item, Items>> \o Tail(work)
    <2> DEFINE p == Stack(E(Items, idx, scopes, Len(scopes), breaks, conts), Tail(q))
               r == Stack(E(Item, idx, scopes, Len(scopes), breaks, conts), p)
    <2>1. Items \in TaskSet /\ Items.do = "items" /\ Owes(Items) = {}
      BY DEF Items, Task, TaskSet, Tasks, Owes
    <2>2. Item \in TaskSet /\ Item.do = "item" /\ Owes(Item) = {}
      BY DEF Item, Task, TaskSet, Tasks, Owes
    <2>3. g >= 1 => Tail(q)[1].task.do = "close"
      BY <1>2, <1>4 DEF Before
    <2>4. /\ Ready(g, M, p) /\ p[1].task = Items /\ Finds(g, p, idx, scopes, Len(scopes), breaks, conts)
          /\ OwedOf(p) = OwedBy(E(Items, idx, scopes, Len(scopes), breaks, conts)) \cup OwedOf(Tail(q))
          /\ TasksOf(p) = <<Items>> \o TasksOf(Tail(q))
      <3>1. Stackable(g, Tail(q), idx, Items)
        BY <2>1, <2>3 DEF Stackable
      <3>. QED BY <1>4, <1>5, <3>1, StackTask
    <2> HIDE DEF p
    <2>5. /\ Ready(g, M, r) /\ Finds(g, r, idx, scopes, Len(scopes), breaks, conts)
          /\ OwedOf(r) = OwedBy(E(Item, idx, scopes, Len(scopes), breaks, conts)) \cup OwedOf(p)
          /\ TasksOf(r) = <<Item>> \o TasksOf(p)
      <3>1. Stackable(g, p, idx, Item)
        BY <2>1, <2>2, <2>4 DEF Stackable
      <3>2. /\ g \in Nat /\ Ready(g, M, p) /\ Context(idx, scopes, Len(scopes), breaks, conts)
            /\ Finds(g, p, idx, scopes, Len(scopes), breaks, conts)
        BY <1>4, <2>4
      <3>. HIDE DEF M, g
      <3>. QED BY <3>1, <3>2, StackTask
    <2> HIDE DEF r
    <2>6. OwedOf(r) = OwedOf(Tail(q))
      BY <2>1, <2>2, <2>4, <2>5 DEF OwedBy, E
    <2>7. work' = TasksOf(r)
      <3>1. TasksOf(r) = <<Item>> \o (<<Items>> \o Tail(work))
        BY <1>4, <2>4, <2>5
      <3>2. <<Item, Items>> \o Tail(work) = <<Item>> \o (<<Items>> \o Tail(work))
        <4>1. Tail(work) \in Seq(TaskSet) /\ Item \in TaskSet /\ Items \in TaskSet
          BY <1>4, <2>1, <2>2
        <4>2. \A a, b \in TaskSet : <<a, b>> \o Tail(work) = <<a>> \o (<<b>> \o Tail(work))
          BY <4>1, Groups
        <4>. QED BY <4>1, <4>2, Zenon
      <3>. QED BY <1>8, <3>1, <3>2
    <2>. QED BY <1>2, <1>3, <1>4, <1>5, <1>6, <2>5, <2>6, <2>7, Generates DEF machine
  <1>. QED BY <1>7, <1>8 DEF NextItem, Emit

\* An expression leaves the plan behind it as it is.
LEMMA ExpressionKeeps == ASSUME IInv, NEW n \in StackBytes, Expression(n) PROVE IInv'
PROOF
  <1> DEFINE g == Discipline'
             M == MarksOf(code)
             J == JumpsOf(code)
  <1>1. PICK q : Inv(q)
    BY DEF IInv
  <1>2. /\ Typed /\ Runs /\ phase = "gen" /\ Head(work).do \in {"statement", "item"}
        /\ Head(work).do \in {"statement", "item", "items"} /\ Head(work).do \in Plain
    BY DEF IInv, Expression, At, Plain
  <1>3. /\ UNCHANGED <<phase, pc, depth, scopes, breaks, conts, nr, userset>> /\ Generated(n, idx)
        /\ code' = code \o <<Eval(n, idx)>> /\ work' = <<>> \o Tail(work)
    BY DEF Expression, Emit, machine
  <1>4. n \in Nat /\ idx \in Nat
    BY <1>2, FrameAssumption DEF Typed
  <1>5. uses \subseteq uses' /\ idx' \in Nat /\ (g >= 1 => n = 0 /\ idx' = idx)
    BY <1>3, <1>4, Grown
  <1>6. g \in 0 .. 2 /\ g <= Discipline /\ g \in Nat /\ Typed'
    BY <1>2, <1>3, <1>5, Disciplines DEF Typed
  <1> HIDE DEF g
  <1>7. Emitted(g, code, idx, M, J) /\ code \in Seq(Instr)
    BY <1>1, <1>2, <1>6, Begins DEF Plain, Emitted
  <1>8. Labelled(g, M, J, OwedOf(Tail(q)), userset, nr)
    BY <1>1, <1>2, <1>6, BeginsPlain
  <1>9. Emitted(g, code', idx, M, J)
    <2>1. Eval(n, idx) \in Instr
      BY <1>4, Instrs
    <2>2. code' = Append(code, Eval(n, idx))
      BY <1>3, <1>7, <2>1, OneByOne
    <2>. QED BY <1>4, <1>5, <1>6, <1>7, <2>2, EmitPlain
  <1>. QED BY <1>1, <1>2, <1>3, <1>5, <1>6, <1>8, <1>9, Leaves DEF machine, g

\* When the compiler gives up nothing else changes.
LEMMA DieKeeps == ASSUME IInv, Die PROVE IInv'
PROOF
  <1>1. PICK q \in Seq(Entry) : Inv(q)
    BY DEF IInv
  <1>2. /\ phase' = "died"
        /\ UNCHANGED <<work, code, idx, scopes, breaks, conts, nr, userset, uses, pc, depth>>
    BY DEF Die, ctx, machine
  <1>3. Typed'
    BY <1>2 DEF IInv, Typed, Phase
  <1>4. Runs'
    BY <1>2 DEF Runs
  <1>5. Discipline' = Discipline
    BY <1>2, Disciplines
  <1>6. Planned(q)' /\ Resolved(q)'
    BY <1>1, <1>2, <1>5 DEF Inv, Planned, Resolved
  <1>. QED BY <1>3, <1>4, <1>6 DEF IInv, Inv

\* A return leaves the function, not the plan: the statements behind it are generated.
LEMMA ReturnKeeps == ASSUME IInv, NEW n \in StackBytes, Return(n) PROVE IInv'
PROOF
  <1> DEFINE g == Discipline'
             M == MarksOf(code)
             J == JumpsOf(code)
  <1>1. PICK q : Inv(q)
    BY DEF IInv
  <1>2. /\ Typed /\ Runs /\ phase = "gen" /\ Head(work).do \in {"statement", "item"}
        /\ Head(work).do \in {"statement", "item", "items"} /\ Head(work).do \in Plain
    BY DEF IInv, Return, AtStatement, At, Plain
  <1>3. /\ UNCHANGED <<phase, pc, depth, scopes, breaks, conts, nr, userset>> /\ Generated(n, idx)
        /\ code' = code \o <<Eval(n, idx), Ret(idx + n)>> /\ work' = <<>> \o Tail(work)
    BY DEF Return, Emit, machine
  <1>4. n \in Nat /\ idx \in Nat /\ idx + n \in Nat
    BY <1>2, FrameAssumption DEF Typed
  <1>5. uses \subseteq uses' /\ idx' \in Nat /\ idx' = idx + n /\ (g >= 1 => n = 0 /\ idx' = idx)
    BY <1>3, <1>4, Grown
  <1>6. g \in 0 .. 2 /\ g <= Discipline /\ g \in Nat /\ Typed'
    BY <1>2, <1>3, <1>5, Disciplines DEF Typed
  <1> HIDE DEF g
  <1>7. Emitted(g, code, idx, M, J) /\ code \in Seq(Instr)
    BY <1>1, <1>2, <1>6, Begins DEF Plain, Emitted
  <1>8. Labelled(g, M, J, OwedOf(Tail(q)), userset, nr)
    BY <1>1, <1>2, <1>6, BeginsPlain
  <1>9. code' = Append(Append(code, Eval(n, idx)), Ret(idx + n))
    <2>1. Eval(n, idx) \in Instr /\ Ret(idx + n) \in Instr
      BY <1>4, Instrs
    <2>. QED BY <1>3, <1>7, <2>1, OneByOne
  <1>10. Emitted(g, Append(code, Eval(n, idx)), idx, M, J)
    BY <1>4, <1>5, <1>6, <1>7, EmitPlain
  <1>11. Emitted(g, code', idx, M, J)
    <2>1. g >= 1 => n = 0 /\ idx + n = idx
      BY <1>5
    <2>. QED BY <1>4, <1>6, <1>9, <1>10, <2>1, EmitPlain
  <1>. QED BY <1>1, <1>2, <1>3, <1>5, <1>6, <1>8, <1>11, Leaves DEF machine, g

-----------------------------------------------------------------------------
(***************************************************************************)
(* Statements that leave tasks behind them.                                *)
(***************************************************************************)
LEMMA TheTasks ==
  ASSUME NEW n \in Nat
  PROVE  /\ \A k \in Tasks : Task(k, n) \in TaskSet /\ Task(k, n).do = k /\ Task(k, n).n = n
         /\ \A x : \A k \in {"else", "if_end"} : Due(Task(k, n), x) = Numbered({k}, n, x)
         /\ \A x : Due(Task("end_while", n), x) = Numbered({"end"}, n, x)
         /\ \A x : Due(Task("end_do", n), x) = Numbered({"condition", "end"}, n, x)
         /\ \A x : Due(Task("end_for", n), x) = Numbered({"epilogue", "end"}, n, x)
         /\ Cont(Task("end_while", n)) = <<"start", n>>
         /\ Cont(Task("end_do", n)) = <<"condition", n>>
         /\ Cont(Task("end_for", n)) = <<"epilogue", n>>
PROOF
  <1>1. \A k \in Tasks : Task(k, n) \in TaskSet /\ Task(k, n).do = k /\ Task(k, n).n = n
    BY DEF Task, TaskSet
  <1>2. /\ Cont(Task("end_while", n)) = <<"start", n>>
        /\ Cont(Task("end_do", n)) = <<"condition", n>>
        /\ Cont(Task("end_for", n)) = <<"epilogue", n>>
    BY DEF Cont, Task
  <1>3. \A k \in {"else", "if_end"} : Owes(Task(k, n)) = {<<k, n>>}
    BY DEF Owes, Task
  <1>4. /\ Owes(Task("end_while", n)) = {<<"end", n>>}
        /\ Owes(Task("end_do", n)) = {<<"condition", n>>, <<"end", n>>}
        /\ Owes(Task("end_for", n)) = {<<"epilogue", n>>, <<"end", n>>}
    BY <1>2 DEF Owes, Task
  <1>5. \A x : \A k \in {"else", "if_end"} : Due(Task(k, n), x) = Numbered({k}, n, x)
    BY <1>3 DEF Due, Numbered
  <1>6. \A x : Due(Task("end_while", n), x) = Numbered({"end"}, n, x)
    BY <1>4 DEF Due, Numbered
  <1>7. \A x : Due(Task("end_do", n), x) = Numbered({"condition", "end"}, n, x)
    BY <1>4 DEF Due, Numbered
  <1>8. \A x : Due(Task("end_for", n), x) = Numbered({"epilogue", "end"}, n, x)
    BY <1>4 DEF Due, Numbered
  <1>. QED BY <1>1, <1>2, <1>5, <1>6, <1>7, <1>8

\* Statements and blocks owe nothing.
LEMMA NothingDue ==
  \A t \in {Statement, Item, Items} : t \in TaskSet /\ Owes(t) = {} /\ \A x : Due(t, x) = {}
PROOF
  <1>1. \A t \in {Statement, Item, Items} : t \in TaskSet /\ Owes(t) = {}
    BY DEF Statement, Item, Items, Task, TaskSet, Tasks, Owes
  <1>. QED BY <1>1 DEF Due

\* What is left when the task at hand is taken from the plan and the code is
\* as it was.
Left(g, p) ==
  /\ g \in 0 .. 2 /\ idx \in Nat /\ nr \in Nat /\ code \in Seq(Instr)
  /\ Fit(g, MarksOf(code), p, idx, scopes, Len(scopes), breaks, conts)
  /\ Tail(work) \in Seq(TaskSet) /\ TasksOf(p) = Tail(work)
  /\ Emitted(g, code, idx, MarksOf(code), JumpsOf(code))
  /\ Labelled(g, MarksOf(code), JumpsOf(code), OwedOf(p), userset, nr)

\* So it is when a statement is generated.
LEMMA BeginsStatement ==
  ASSUME IInv, AtStatement, uses \subseteq uses', NEW g, g = Discipline'
  PROVE  \E p : Left(g, p)
PROOF
  <1>1. PICK q : Inv(q)
    BY DEF IInv
  <1>2. /\ Typed /\ phase = "gen" /\ Head(work).do \in {"statement", "item", "items"}
        /\ Head(work).do \in Plain /\ Head(work).do # "end_function"
    BY DEF IInv, AtStatement, At, Plain
  <1>3. g \in 0 .. 2 /\ g <= Discipline /\ idx \in Nat /\ nr \in Nat
    BY <1>2, Disciplines DEF Typed
  <1> DEFINE p == Tail(q)
             M == MarksOf(code)
             J == JumpsOf(code)
  <1>4. /\ g \in Nat /\ Ready(g, M, p)
        /\ Context(idx, scopes, Len(scopes), breaks, conts)
        /\ Tail(work) \in Seq(TaskSet) /\ TasksOf(p) = Tail(work)
        /\ Emitted(g, code, idx, M, J)
    BY <1>1, <1>2, <1>3, Begins
  <1>5. /\ Finds(g, p, idx, scopes, Len(scopes), breaks, conts)
        /\ Labelled(g, M, J, OwedOf(p), userset, nr)
    BY <1>1, <1>2, <1>3, BeginsPlain
  <1>6. code \in Seq(Instr)
    BY <1>4 DEF Emitted
  <1>. QED BY <1>3, <1>4, <1>5, <1>6 DEF Left, Fit

\* The end of such a step.
LEMMA EndsStatement ==
  ASSUME IInv, Typed', phase = "gen", UNCHANGED <<phase, pc, depth>>,
         NEW g, g = Discipline', NEW r, NEW M, NEW J, NEW x, g >= 1 => idx' = x,
         Fit(g, M, r, x, scopes', Len(scopes'), breaks', conts'), work' = TasksOf(r),
         Emitted(g, code', x, M, J), Labelled(g, M, J, OwedOf(r), userset', nr')
  PROVE  IInv'
PROOF
  BY Generates DEF IInv, Fit, machine

\* A block puts its close on the plan, with the index to go back to.
LEMMA BlockKeeps == ASSUME IInv, Block PROVE IInv'
PROOF
  <1> DEFINE M == MarksOf(code)
             J == JumpsOf(code)
             t == Task("close", idx)
  <1>1. /\ Typed /\ phase = "gen" /\ AtStatement /\ code' = code \o <<>>
        /\ UNCHANGED <<phase, pc, depth, idx, breaks, conts, nr, userset, uses>>
        /\ scopes' = <<0>> \o scopes /\ work' = <<Items, t>> \o Tail(work)
    BY DEF IInv, Block, AtStatement, At, Emit, OpenScope, Scope, machine
  <1>2. PICK g : g = Discipline'
    OBVIOUS
  <1>3. PICK p : Left(g, p)
    BY <1>1, <1>2, BeginsStatement
  <1>4. Fit(g, M, p, idx, scopes, Len(scopes), breaks, conts)
    BY <1>3 DEF Left
  <1>5. Tail(work) \in Seq(TaskSet) /\ TasksOf(p) = Tail(work) /\ idx \in Nat
    BY <1>3 DEF Left
  <1>6. /\ scopes' \in Seq(Nat) /\ Len(scopes') = Len(scopes) + 1 /\ scopes' # <<>>
        /\ Head(scopes') = 0 /\ Tail(scopes') = scopes /\ Len(scopes') \in Nat
    BY <1>1, Pushed, LenProperties DEF Typed
  <1>7. Closes(idx, scopes, Len(scopes), idx, scopes', Len(scopes'))
    BY <1>1, <1>6, LenProperties DEF Closes, Typed
  <1>8. t \in TaskSet /\ t.do = "close"
    BY <1>5, TheTasks DEF Tasks
  <1> HIDE DEF M, J
  <1>9. PICK q : /\ Fit(g, M, q, idx, scopes', Len(scopes'), breaks, conts)
                 /\ Puts(t, idx, p, q)
    BY <1>4, <1>7, PutClose
  <1> HIDE DEF t
  <1>10. Stackable(g, q, idx, Items)
    <2>1. q[1].task.do = "close"
      BY <1>8, <1>9 DEF Puts
    <2>2. Items \in TaskSet /\ Items.do = "items" /\ Owes(Items) = {}
      BY NothingDue DEF Items, Task
    <2>. QED BY <2>1, <2>2 DEF Stackable
  <1>11. PICK r : /\ Fit(g, M, r, idx, scopes', Len(scopes'), breaks, conts)
                  /\ Puts(Items, idx, q, r)
    BY <1>9, <1>10, PutTask
  <1>12. OwedOf(r) = OwedOf(p) /\ TasksOf(r) = <<Items>> \o (<<t>> \o Tail(work))
    <2>1. Due(t, idx) = {} /\ Due(Items, idx) = {}
      BY NothingDue DEF Due, Owes, t, Task
    <2>. QED BY <1>5, <1>9, <1>11, <2>1 DEF Puts
  <1>13. work' = TasksOf(r)
    <2>1. Tail(work) \in Seq(TaskSet) /\ Items \in TaskSet /\ t \in TaskSet
      BY <1>5, <1>8, NothingDue
    <2>2. <<Items, t>> \o Tail(work) = <<Items>> \o (<<t>> \o Tail(work))
      <3>1. \A a, b \in TaskSet : <<a, b>> \o Tail(work) = <<a>> \o (<<b>> \o Tail(work))
        BY <2>1, Groups
      <3>. QED BY <2>1, <3>1, Zenon
    <2>. QED BY <1>1, <1>12, <2>2
  <1>14. code' = code
    BY <1>1, <1>3, OneByOne DEF Left
  <1>15. Typed'
    BY <1>1, <1>6 DEF Typed
  <1>16. Emitted(g, code', idx', M, J) /\ Labelled(g, M, J, OwedOf(r), userset', nr')
    BY <1>1, <1>3, <1>12, <1>14 DEF Left, M, J
  <1>17. Fit(g, M, r, idx', scopes', Len(scopes'), breaks', conts')
    BY <1>1, <1>11
  <1>. QED BY <1>1, <1>2, <1>13, <1>15, <1>16, <1>17, EndsStatement

\* No label and one label with a number.
LEMMA Numbers ==
  ASSUME NEW n, NEW x
  PROVE  /\ Numbered({}, n, x) = {}
         /\ \A k : Numbered({k}, n, x) = {<<<<k, n>>, x>>}
PROOF
  BY DEF Numbered

\* Labels with the next number are neither marked nor owed.
LEMMA LeftFresh ==
  ASSUME NEW g, NEW p, Left(g, p), NEW k \in Kinds
  PROVE  /\ <<k, nr>> \in Label
         /\ \A m \in MarksOf(code) : m[1] # <<k, nr>>
         /\ \A o \in OwedOf(p) : o[1] # <<k, nr>>
PROOF
  <1>1. nr \in Nat /\ Labelled(g, MarksOf(code), JumpsOf(code), OwedOf(p), userset, nr)
    BY DEF Left
  <1>. QED BY <1>1, Fresh DEF Label

\* The statement that is controlled goes on what is to follow it.
Controls(p, r) ==
  /\ OwedOf(r) = OwedOf(p) /\ TasksOf(r) = <<Statement>> \o TasksOf(p)
  /\ Len(r) = Len(p) + 1 /\ \A i \in 1 .. Len(p) : r[i + 1] = p[i]

\* So a plan for it exists.
LEMMA PutStatement ==
  ASSUME NEW f, NEW M, NEW p, NEW x, NEW s, NEW o, NEW b, NEW c, Fit(f, M, p, x, s, o, b, c)
  PROVE  \E r : Fit(f, M, r, x, s, o, b, c) /\ Controls(p, r)
PROOF
  <1>1. Stackable(f, p, x, Statement)
    <2>1. Statement \in TaskSet /\ Owes(Statement) = {}
      BY NothingDue
    <2>2. Statement.do = "statement"
      BY DEF Statement, Task
    <2>. QED BY <2>1, <2>2 DEF Stackable
  <1>2. PICK r : Fit(f, M, r, x, s, o, b, c) /\ Puts(Statement, x, p, r)
    BY <1>1, PutTask
  <1>. QED BY <1>2, NothingDue DEF Puts, Controls

\* An if owes its end.
LEMMA IfKeeps == ASSUME IInv, NEW n \in StackBytes, If(n) PROVE IInv'
PROOF
  <1> DEFINE M == MarksOf(code)
             J == JumpsOf(code)
             l == <<"if_end", nr>>
             t == Task("if_end", nr)
             N == Numbered({"if_end"}, nr, idx)
  <1>1. /\ Typed /\ phase = "gen" /\ AtStatement /\ code' = code \o <<Branch(l, n, idx)>>
        /\ UNCHANGED <<phase, pc, depth, scopes, breaks, conts, userset>> /\ Generated(n, idx)
        /\ nr' = nr + 1 /\ work' = <<Statement, t>> \o Tail(work)
    BY DEF IInv, If, AtStatement, At, Emit, machine
  <1>2. PICK g : g = Discipline'
    OBVIOUS
  <1>3. n \in Nat /\ idx' \in Nat /\ uses \subseteq uses' /\ (g >= 1 => n = 0 /\ idx' = idx)
    BY <1>1, <1>2, FrameAssumption, Grown DEF Typed
  <1>4. PICK p : Left(g, p)
    BY <1>1, <1>2, <1>3, BeginsStatement
  <1>5. Fit(g, M, p, idx, scopes, Len(scopes), breaks, conts) /\ g \in Nat
    BY <1>4 DEF Left
  <1>6. Tail(work) \in Seq(TaskSet) /\ TasksOf(p) = Tail(work) /\ idx \in Nat /\ nr \in Nat
    BY <1>4 DEF Left
  <1>7. t \in TaskSet /\ t.do = "if_end" /\ Due(t, idx) = N /\ Owes(t) = {l}
    <2>1. t \in TaskSet /\ t.do = "if_end"
      BY <1>6, TheTasks DEF Tasks
    <2>2. Due(t, idx) = N
      BY <1>6, TheTasks
    <2>3. Owes(t) = {l}
      BY DEF Owes, Task
    <2>. QED BY <2>1, <2>2, <2>3
  <1>8. l \in Label /\ (\A m \in M : m[1] # l) /\ (\A o \in OwedOf(p) : o[1] # l)
    BY <1>4, LeftFresh DEF Kinds
  <1>9. Stackable(g, p, idx, t)
    BY <1>7, <1>8 DEF Stackable
  <1> HIDE DEF M, J, N, t, l
  <1>10. PICK q : Fit(g, M, q, idx, scopes, Len(scopes), breaks, conts) /\ Puts(t, idx, p, q)
    BY <1>5, <1>9, PutTask
  <1>11. PICK r : /\ Fit(g, M, r, idx, scopes, Len(scopes), breaks, conts)
                  /\ Controls(q, r)
    <2>1. Fit(g, M, q, idx, scopes, Len(scopes), breaks, conts)
      BY <1>10
    <2>. QED BY <2>1, PutStatement
  <1>12. OwedOf(r) = N \cup OwedOf(p)
    BY <1>7, <1>10, <1>11 DEF Puts, Controls
  <1>13. work' = TasksOf(r)
    <2>1. Tail(work) \in Seq(TaskSet) /\ Statement \in TaskSet /\ t \in TaskSet
      BY <1>6, <1>7, NothingDue
    <2>2. <<Statement, t>> \o Tail(work) = <<Statement>> \o (<<t>> \o Tail(work))
      <3>1. \A a, b \in TaskSet : <<a, b>> \o Tail(work) = <<a>> \o (<<b>> \o Tail(work))
        BY <2>1, Groups
      <3>. QED BY <2>1, <3>1, Zenon
    <2>. QED BY <1>1, <1>6, <1>10, <1>11, <2>2 DEF Puts, Controls
  <1>14. Typed'
    BY <1>1, <1>3 DEF Typed
  <1>15. Emitted(g, code', idx, M, J \cup {<<l, idx>>})
    <2>1. Emitted(g, code, idx, M, J) /\ code \in Seq(Instr)
      BY <1>4 DEF Left, M, J
    <2>2. Branch(l, n, idx) \in Instr
      BY <1>3, <1>6, <1>8, Instrs
    <2>3. code' = Append(code, Branch(l, n, idx))
      BY <1>1, <2>1, <2>2, OneByOne
    <2>4. Emitted(g, Append(code, Branch(l, n, idx)), idx, M, J \cup {<<l, idx>>})
      BY <1>3, <1>5, <1>6, <1>8, <2>1, EmitBranch
    <2>. QED BY <1>1, <2>3, <2>4
  <1>16. Labelled(g, M, J \cup {<<l, idx>>}, OwedOf(r), userset', nr')
    <2>1. Labelled(g, M, J, OwedOf(p), userset, nr)
      BY <1>4 DEF Left, M, J
    <2>2. /\ {} \in SUBSET Kinds /\ {"if_end"} \in SUBSET Kinds
          /\ {} \cap {"if_end"} = {} /\ {"if_end"} \in SUBSET ({} \cup {"if_end"})
      BY DEF Kinds
    <2>3. Labelled(g, M \cup Numbered({}, nr, idx), J \cup N, N \cup OwedOf(p), userset, nr + 1)
      BY <1>6, <2>1, <2>2, NewLabels DEF N
    <2>4. N = {<<l, idx>>} /\ M \cup Numbered({}, nr, idx) = M
      BY Numbers DEF N, l
    <2>. QED BY <1>1, <1>12, <2>3, <2>4
  <1>17. Fit(g, M, r, idx, scopes', Len(scopes'), breaks', conts')
    BY <1>1, <1>11
  <1>. QED BY <1>1, <1>2, <1>3, <1>13, <1>14, <1>15, <1>16, <1>17, EndsStatement

\* An if with an else owes both labels, the end of the if below the else.
LEMMA IfElseKeeps == ASSUME IInv, NEW n \in StackBytes, IfElse(n) PROVE IInv'
PROOF
  <1> DEFINE M == MarksOf(code)
             J == JumpsOf(code)
             l == <<"else", nr>>
             k == <<"if_end", nr>>
             t == Task("if_end", nr)
             u == Task("else", nr)
             N == Numbered({"else", "if_end"}, nr, idx)
  <1>1. /\ Typed /\ phase = "gen" /\ AtStatement /\ code' = code \o <<Branch(l, n, idx)>>
        /\ UNCHANGED <<phase, pc, depth, scopes, breaks, conts, userset>> /\ Generated(n, idx)
        /\ nr' = nr + 1 /\ work' = <<Statement, u, Statement, t>> \o Tail(work)
    BY DEF IInv, IfElse, AtStatement, At, Emit, machine
  <1>2. PICK g : g = Discipline'
    OBVIOUS
  <1>3. n \in Nat /\ idx' \in Nat /\ uses \subseteq uses' /\ (g >= 1 => n = 0 /\ idx' = idx)
    BY <1>1, <1>2, FrameAssumption, Grown DEF Typed
  <1>4. PICK p : Left(g, p)
    BY <1>1, <1>2, <1>3, BeginsStatement
  <1>5. Fit(g, M, p, idx, scopes, Len(scopes), breaks, conts) /\ g \in Nat
    BY <1>4 DEF Left
  <1>6. Tail(work) \in Seq(TaskSet) /\ TasksOf(p) = Tail(work) /\ idx \in Nat /\ nr \in Nat
    BY <1>4 DEF Left
  <1>7. t \in TaskSet /\ t.do = "if_end" /\ t.n = nr /\ u \in TaskSet /\ u.do = "else" /\ u.n = nr
    BY <1>6, TheTasks DEF Tasks
  <1>8. Owes(t) = {k} /\ Owes(u) = {l} /\ Due(t, idx) = {<<k, idx>>} /\ Due(u, idx) = {<<l, idx>>}
    BY DEF Owes, Task, Due
  <1>9. /\ l \in Label /\ (\A m \in M : m[1] # l) /\ (\A o \in OwedOf(p) : o[1] # l)
        /\ (\A o \in OwedOf(p) : o[1] # k) /\ l # k
    BY <1>4, LeftFresh DEF Kinds
  <1>10. N = {<<l, idx>>, <<k, idx>>}
    BY DEF Numbered
  <1>11. t = Task("if_end", u.n)
    BY <1>7
  <1> HIDE DEF M, J, N, t, u, l, k
  <1>12. Stackable(g, p, idx, t)
    BY <1>7, <1>8, <1>9 DEF Stackable
  <1>13. PICK q : Fit(g, M, q, idx, scopes, Len(scopes), breaks, conts) /\ Puts(t, idx, p, q)
    BY <1>5, <1>12, PutTask
  <1>14. PICK v : Fit(g, M, v, idx, scopes, Len(scopes), breaks, conts) /\ Controls(q, v)
    <2>1. Fit(g, M, q, idx, scopes, Len(scopes), breaks, conts)
      BY <1>13
    <2>. QED BY <2>1, PutStatement
  <1>15. OwedOf(v) = {<<k, idx>>} \cup OwedOf(p)
    BY <1>8, <1>13, <1>14 DEF Puts, Controls
  <1>16. Stackable(g, v, idx, u)
    <2>1. \A w \in OwedOf(v) : w[1] # l
      BY <1>9, <1>15
    <2>2. v[2] = q[1] /\ 2 \in 1 .. Len(v) /\ q[1].task = t
      <3>1. Len(p) \in Nat
        <4>1. p \in Seq(Entry)
          BY <1>5 DEF Fit, Ready
        <4>. QED BY <4>1, LenProperties
      <3>2. Len(q) \in Nat /\ 1 \in 1 .. Len(q) /\ 1 + 1 = 2 /\ q[1].task = t
        BY <1>13, <3>1 DEF Puts
      <3>. QED BY <1>14, <3>2 DEF Controls
    <2>3. g >= 1 => v[2].idx = idx
      <3>1. Finds(g, q, idx, scopes, Len(scopes), breaks, conts)
        BY <1>13 DEF Fit
      <3>. QED BY <2>2, <3>1 DEF Finds
    <2>. QED BY <1>7, <1>8, <1>11, <2>1, <2>2, <2>3 DEF Stackable
  <1>17. PICK w : Fit(g, M, w, idx, scopes, Len(scopes), breaks, conts) /\ Puts(u, idx, v, w)
    BY <1>14, <1>16, PutTask
  <1>18. PICK r : Fit(g, M, r, idx, scopes, Len(scopes), breaks, conts) /\ Controls(w, r)
    <2>1. Fit(g, M, w, idx, scopes, Len(scopes), breaks, conts)
      BY <1>17
    <2>. QED BY <2>1, PutStatement
  <1>19. OwedOf(r) = N \cup OwedOf(p)
    BY <1>8, <1>10, <1>15, <1>17, <1>18 DEF Puts, Controls
  <1>20. work' = TasksOf(r)
    <2>1. Tail(work) \in Seq(TaskSet) /\ Statement \in TaskSet /\ t \in TaskSet /\ u \in TaskSet
      BY <1>6, <1>7, NothingDue
    <2>2. <<Statement, u, Statement, t>> \o Tail(work)
          = <<Statement>> \o (<<u>> \o (<<Statement>> \o (<<t>> \o Tail(work))))
      <3>1. \A a, b, d, e \in TaskSet : <<a, b, d, e>> \o Tail(work)
              = <<a>> \o (<<b>> \o (<<d>> \o (<<e>> \o Tail(work))))
        BY <2>1, Groups
      <3>. QED BY <2>1, <3>1, ZenonT(60)
    <2>3. TasksOf(v) = <<Statement>> \o (<<t>> \o Tail(work))
      BY <1>6, <1>13, <1>14 DEF Puts, Controls
    <2>4. TasksOf(r) = <<Statement>> \o (<<u>> \o TasksOf(v))
      BY <1>17, <1>18 DEF Puts, Controls
    <2>. QED BY <1>1, <2>2, <2>3, <2>4
  <1>21. Typed'
    BY <1>1, <1>3 DEF Typed
  <1>22. Emitted(g, code', idx, M, J \cup {<<l, idx>>})
    <2>1. Emitted(g, code, idx, M, J) /\ code \in Seq(Instr)
      BY <1>4 DEF Left, M, J
    <2>2. Branch(l, n, idx) \in Instr
      BY <1>3, <1>6, <1>9, Instrs
    <2>3. code' = Append(code, Branch(l, n, idx))
      BY <1>1, <2>1, <2>2, OneByOne
    <2>4. Emitted(g, Append(code, Branch(l, n, idx)), idx, M, J \cup {<<l, idx>>})
      BY <1>3, <1>5, <1>6, <1>9, <2>1, EmitBranch
    <2>. QED BY <1>1, <2>3, <2>4
  <1>23. Labelled(g, M, J \cup {<<l, idx>>}, OwedOf(r), userset', nr')
    <2>1. Labelled(g, M, J, OwedOf(p), userset, nr)
      BY <1>4 DEF Left, M, J
    <2>2. /\ {} \in SUBSET Kinds /\ {"else", "if_end"} \in SUBSET Kinds
          /\ {} \cap {"else", "if_end"} = {} /\ {"else"} \in SUBSET ({} \cup {"else", "if_end"})
      BY DEF Kinds
    <2>3. Labelled(g, M \cup Numbered({}, nr, idx), J \cup Numbered({"else"}, nr, idx),
                   N \cup OwedOf(p), userset, nr + 1)
      BY <1>6, <2>1, <2>2, NewLabels DEF N
    <2>4. Numbered({"else"}, nr, idx) = {<<l, idx>>} /\ M \cup Numbered({}, nr, idx) = M
      BY Numbers DEF l
    <2>. QED BY <1>1, <1>19, <2>3, <2>4
  <1>24. Fit(g, M, r, idx, scopes', Len(scopes'), breaks', conts')
    BY <1>1, <1>18
  <1>. QED BY <1>1, <1>2, <1>3, <1>20, <1>21, <1>22, <1>23, <1>24, EndsStatement

\* A loop: its end with the statement on it.
Rounds(t, x, p, r) ==
  OwedOf(r) = Due(t, x) \cup OwedOf(p) /\ TasksOf(r) = <<Statement>> \o (<<t>> \o TasksOf(p))

\* So a plan for it exists, and its statement finds the labels pushed.
LEMMA LoopOn ==
  ASSUME NEW f, NEW M, NEW p, NEW x, NEW s, NEW o, NEW b, NEW c, Fit(f, M, p, x, s, o, b, c),
         NEW N, M \subseteq N, NEW t, Loopable(f, N, p, x, t)
  PROVE  \E r : Fit(f, N, r, x, s, o, EndsAt(t, b), Continues(t, c)) /\ Rounds(t, x, p, r)
PROOF
  <1>1. Fit(f, N, p, x, s, o, b, c)
    <2>1. f \in Nat /\ Ready(f, M, p) /\ f <= f
      BY DEF Fit
    <2>2. Ready(f, N, p)
      BY <2>1, Wilder
    <2>. QED BY <2>2 DEF Fit
  <1>2. PICK q : Fit(f, N, q, x, s, o, EndsAt(t, b), Continues(t, c)) /\ Puts(t, x, p, q)
    BY <1>1, PutLoop
  <1>3. Fit(f, N, q, x, s, o, EndsAt(t, b), Continues(t, c))
    BY <1>2
  <1>4. PICK r : Fit(f, N, r, x, s, o, EndsAt(t, b), Continues(t, c)) /\ Controls(q, r)
    BY <1>3, PutStatement
  <1>. QED BY <1>2, <1>4 DEF Puts, Controls, Rounds

\* What is known when a loop has pushed its labels.
LEMMA Pushes ==
  ASSUME Typed, NEW k \in Loops, NEW l \in Kinds, Cont(Task(k, nr)) = <<l, nr>>, EnterLoop(l)
  PROVE  /\ breaks' \in Seq(LoopLabel) /\ conts' \in Seq(LoopLabel) /\ nr' = nr + 1 /\ nr' \in Nat
         /\ breaks' = EndsAt(Task(k, nr), breaks) /\ conts' = Continues(Task(k, nr), conts)
PROOF
  <1>1. nr \in Nat /\ nr' = nr + 1
    BY DEF Typed, EnterLoop
  <1>2. <<"end", nr>> \in LoopLabel /\ <<l, nr>> \in LoopLabel
    BY <1>1 DEF LoopLabel, Kinds
  <1>3. breaks' = <<<<"end", nr>>>> \o breaks /\ conts' = <<<<l, nr>>>> \o conts
    BY DEF EnterLoop
  <1>4. breaks' \in Seq(LoopLabel) /\ conts' \in Seq(LoopLabel)
    BY <1>2, <1>3, Pushed DEF Typed
  <1>5. breaks' = EndsAt(Task(k, nr), breaks) /\ conts' = Continues(Task(k, nr), conts)
    BY <1>3 DEF EndsAt, Continues, Task
  <1>. QED BY <1>1, <1>4, <1>5

\* A while marks its start and owes its end.
LEMMA WhileKeeps == ASSUME IInv, NEW n \in StackBytes, While(n) PROVE IInv'
PROOF
  <1> DEFINE M == MarksOf(code)
             J == JumpsOf(code)
             a == <<"start", nr>>
             b == <<"end", nr>>
             t == Task("end_while", nr)
             M2 == M \cup {<<a, idx>>}
             J2 == J \cup {<<b, idx>>}
             N == Numbered({"end"}, nr, idx)
  <1>1. /\ Typed /\ phase = "gen" /\ AtStatement
        /\ code' = code \o <<Mark(a, idx), Branch(b, n, idx)>>
        /\ UNCHANGED <<phase, pc, depth, scopes, userset>> /\ Generated(n, idx)
        /\ EnterLoop("start") /\ work' = <<Statement, t>> \o Tail(work)
    BY DEF IInv, While, AtStatement, At, Emit, machine
  <1>2. PICK g : g = Discipline'
    OBVIOUS
  <1>3. n \in Nat /\ idx' \in Nat /\ uses \subseteq uses' /\ (g >= 1 => n = 0 /\ idx' = idx)
    BY <1>1, <1>2, FrameAssumption, Grown DEF Typed
  <1>4. PICK p : Left(g, p)
    BY <1>1, <1>2, <1>3, BeginsStatement
  <1>5. Fit(g, M, p, idx, scopes, Len(scopes), breaks, conts) /\ g \in Nat
    BY <1>4 DEF Left
  <1>6. Tail(work) \in Seq(TaskSet) /\ TasksOf(p) = Tail(work) /\ idx \in Nat /\ nr \in Nat
    BY <1>4 DEF Left
  <1>7. t \in TaskSet /\ t.do = "end_while" /\ t.n = nr
    BY <1>6, TheTasks DEF Tasks
  <1>8. /\ breaks' \in Seq(LoopLabel) /\ conts' \in Seq(LoopLabel) /\ nr' = nr + 1 /\ nr' \in Nat
        /\ breaks' = EndsAt(t, breaks) /\ conts' = Continues(t, conts)
    <2>1. Cont(t) = <<"start", nr>> /\ "end_while" \in Loops /\ "start" \in Kinds
      BY DEF Cont, Task, Loops, Kinds
    <2>. QED BY <1>1, <2>1, Pushes
  <1>9. Due(t, idx) = N
    BY <1>6, TheTasks
  <1>10. /\ a \in Label /\ b \in Label /\ (\A m \in M : m[1] # a)
        /\ \A k \in {"end"} : \A o \in OwedOf(p) : o[1] # <<k, nr>>
    BY <1>4, LeftFresh DEF Kinds
  <1>11. Owes(t) = {<<k, nr>> : k \in {"end"}}
    BY DEF Owes, Cont, Task
  <1>12. Loopable(g, M2, p, idx, t)
    <2>1. t.do \in Loops
      BY <1>7 DEF Loops
    <2>2. \A l \in Owes(t), w \in OwedOf(p) : w[1] # l
      BY <1>10, <1>11
    <2>3. <<a, idx>> \in M2 /\ <<a, idx>>[1] = a /\ <<a, idx>>[2] = idx
      OBVIOUS
    <2>4. \A e \in Entry : e.task = t /\ e.idx = idx => Backed(g, M2, e)
      BY <1>7, <2>3 DEF Backed
    <2>. QED BY <1>7, <2>1, <2>2, <2>4 DEF Loopable
  <1> HIDE DEF M, J, N, t
  <1>13. PICK r : /\ Fit(g, M2, r, idx, scopes, Len(scopes), EndsAt(t, breaks), Continues(t, conts))
                  /\ Rounds(t, idx, p, r)
    <2>1. Fit(g, M, p, idx, scopes, Len(scopes), breaks, conts) /\ M \subseteq M2
      BY <1>5
    <2>. HIDE DEF M2
    <2>. QED BY <1>12, <2>1, LoopOn
  <1>14. OwedOf(r) = N \cup OwedOf(p)
    BY <1>9, <1>13 DEF Rounds
  <1>15. work' = TasksOf(r)
    <2>1. Tail(work) \in Seq(TaskSet) /\ Statement \in TaskSet /\ t \in TaskSet
      BY <1>6, <1>7, NothingDue
    <2>2. <<Statement, t>> \o Tail(work) = <<Statement>> \o (<<t>> \o Tail(work))
      <3>1. \A h, i \in TaskSet : <<h, i>> \o Tail(work) = <<h>> \o (<<i>> \o Tail(work))
        BY <2>1, Groups
      <3>. QED BY <2>1, <3>1, Zenon
    <2>. QED BY <1>1, <1>6, <1>13, <2>2 DEF Rounds
  <1>16. Typed'
    BY <1>1, <1>3, <1>8 DEF Typed
  <1> HIDE DEF a, b
  <1>17. Emitted(g, code', idx, M2, J2)
    <2>1. Emitted(g, code, idx, M, J) /\ code \in Seq(Instr)
      BY <1>4 DEF Left, M, J
    <2>2. Mark(a, idx) \in Instr /\ Branch(b, n, idx) \in Instr
      BY <1>3, <1>6, <1>10, Instrs
    <2>3. code' = Append(Append(code, Mark(a, idx)), Branch(b, n, idx))
      BY <1>1, <2>1, <2>2, OneByOne
    <2>4. Emitted(g, Append(code, Mark(a, idx)), idx, M2, J)
      BY <1>5, <1>6, <1>10, <2>1, EmitMark
    <2>. QED BY <1>3, <1>5, <1>6, <1>10, <2>3, <2>4, EmitBranch
  <1>18. Labelled(g, M2, J2, OwedOf(r), userset', nr')
    <2>1. Labelled(g, M, J, OwedOf(p), userset, nr)
      BY <1>4 DEF Left, M, J
    <2>2. /\ {"start"} \in SUBSET Kinds /\ {"end"} \in SUBSET Kinds
          /\ {"start"} \cap {"end"} = {} /\ {"end"} \in SUBSET ({"start"} \cup {"end"})
      BY DEF Kinds
    <2>3. Labelled(g, M \cup Numbered({"start"}, nr, idx), J \cup Numbered({"end"}, nr, idx),
                   N \cup OwedOf(p), userset, nr + 1)
      BY <1>6, <2>1, <2>2, NewLabels DEF N
    <2>4. M \cup Numbered({"start"}, nr, idx) = M2 /\ J \cup Numbered({"end"}, nr, idx) = J2
      BY Numbers DEF a, b
    <2>. QED BY <1>1, <1>8, <1>14, <2>3, <2>4
  <1>19. Fit(g, M2, r, idx, scopes', Len(scopes'), breaks', conts')
    BY <1>1, <1>8, <1>13
  <1> HIDE DEF M2, J2
  <1>. QED BY <1>1, <1>2, <1>3, <1>15, <1>16, <1>17, <1>18, <1>19, EndsStatement

\* A do marks its start and owes the condition and its end.
LEMMA DoKeeps == ASSUME IInv, Do PROVE IInv'
PROOF
  <1> DEFINE M == MarksOf(code)
             J == JumpsOf(code)
             a == <<"start", nr>>
             b == <<"end", nr>>
             t == Task("end_do", nr)
             M2 == M \cup {<<a, idx>>}
             J2 == J
             N == Numbered({"condition", "end"}, nr, idx)
  <1>1. /\ Typed /\ phase = "gen" /\ AtStatement
        /\ code' = code \o <<Mark(a, idx)>>
        /\ UNCHANGED <<phase, pc, depth, idx, scopes, userset, uses>>
        /\ EnterLoop("condition") /\ work' = <<Statement, t>> \o Tail(work)
    BY DEF IInv, Do, AtStatement, At, Emit, machine
  <1>2. PICK g : g = Discipline'
    OBVIOUS
  <1>3. PICK p : Left(g, p)
    BY <1>1, <1>2, BeginsStatement
  <1>4. Fit(g, M, p, idx, scopes, Len(scopes), breaks, conts) /\ g \in Nat
    BY <1>3 DEF Left
  <1>5. Tail(work) \in Seq(TaskSet) /\ TasksOf(p) = Tail(work) /\ idx \in Nat /\ nr \in Nat
    BY <1>3 DEF Left
  <1>6. t \in TaskSet /\ t.do = "end_do" /\ t.n = nr
    BY <1>5, TheTasks DEF Tasks
  <1>7. /\ breaks' \in Seq(LoopLabel) /\ conts' \in Seq(LoopLabel) /\ nr' = nr + 1 /\ nr' \in Nat
        /\ breaks' = EndsAt(t, breaks) /\ conts' = Continues(t, conts)
    <2>1. Cont(t) = <<"condition", nr>> /\ "end_do" \in Loops /\ "condition" \in Kinds
      BY DEF Cont, Task, Loops, Kinds
    <2>. QED BY <1>1, <2>1, Pushes
  <1>8. Due(t, idx) = N
    BY <1>5, TheTasks
  <1>9. /\ a \in Label /\ b \in Label /\ (\A m \in M : m[1] # a)
        /\ \A k \in {"condition", "end"} : \A o \in OwedOf(p) : o[1] # <<k, nr>>
    BY <1>3, LeftFresh DEF Kinds
  <1>10. Owes(t) = {<<k, nr>> : k \in {"condition", "end"}}
    BY DEF Owes, Cont, Task
  <1>11. Loopable(g, M2, p, idx, t)
    <2>1. t.do \in Loops
      BY <1>6 DEF Loops
    <2>2. \A l \in Owes(t), w \in OwedOf(p) : w[1] # l
      BY <1>9, <1>10
    <2>3. <<a, idx>> \in M2 /\ <<a, idx>>[1] = a /\ <<a, idx>>[2] = idx
      OBVIOUS
    <2>4. \A e \in Entry : e.task = t /\ e.idx = idx => Backed(g, M2, e)
      BY <1>6, <2>3 DEF Backed
    <2>. QED BY <1>6, <2>1, <2>2, <2>4 DEF Loopable
  <1> HIDE DEF M, J, N, t
  <1>12. PICK r : /\ Fit(g, M2, r, idx, scopes, Len(scopes), EndsAt(t, breaks), Continues(t, conts))
                  /\ Rounds(t, idx, p, r)
    <2>1. Fit(g, M, p, idx, scopes, Len(scopes), breaks, conts) /\ M \subseteq M2
      BY <1>4
    <2>. HIDE DEF M2
    <2>. QED BY <1>11, <2>1, LoopOn
  <1>13. OwedOf(r) = N \cup OwedOf(p)
    BY <1>8, <1>12 DEF Rounds
  <1>14. work' = TasksOf(r)
    <2>1. Tail(work) \in Seq(TaskSet) /\ Statement \in TaskSet /\ t \in TaskSet
      BY <1>5, <1>6, NothingDue
    <2>2. <<Statement, t>> \o Tail(work) = <<Statement>> \o (<<t>> \o Tail(work))
      <3>1. \A h, i \in TaskSet : <<h, i>> \o Tail(work) = <<h>> \o (<<i>> \o Tail(work))
        BY <2>1, Groups
      <3>. QED BY <2>1, <3>1, Zenon
    <2>. QED BY <1>1, <1>5, <1>12, <2>2 DEF Rounds
  <1>15. Typed'
    BY <1>1, <1>7 DEF Typed
  <1> HIDE DEF a, b
  <1>16. Emitted(g, code', idx', M2, J2)
    <2>1. Emitted(g, code, idx, M, J) /\ code \in Seq(Instr)
      BY <1>3 DEF Left, M, J
    <2>2. Mark(a, idx) \in Instr
      BY <1>5, <1>9, Instrs
    <2>3. code' = Append(code, Mark(a, idx))
      BY <1>1, <2>1, <2>2, OneByOne
    <2>4. Emitted(g, code', idx, M2, J)
      BY <1>4, <1>5, <1>9, <2>1, <2>3, EmitMark
    <2>. QED BY <1>1, <2>4
  <1>17. Labelled(g, M2, J2, OwedOf(r), userset', nr')
    <2>1. Labelled(g, M, J, OwedOf(p), userset, nr)
      BY <1>3 DEF Left, M, J
    <2>2. /\ {"start"} \in SUBSET Kinds /\ {"condition", "end"} \in SUBSET Kinds
          /\ {"start"} \cap {"condition", "end"} = {} /\ {} \in SUBSET ({"start"} \cup {"condition", "end"})
      BY DEF Kinds
    <2>3. Labelled(g, M \cup Numbered({"start"}, nr, idx), J \cup Numbered({}, nr, idx),
                   N \cup OwedOf(p), userset, nr + 1)
      BY <1>5, <2>1, <2>2, NewLabels DEF N
    <2>4. M \cup Numbered({"start"}, nr, idx) = M2 /\ J \cup Numbered({}, nr, idx) = J2
      BY Numbers DEF a, b
    <2>. QED BY <1>7, <1>1, <1>13, <2>3, <2>4
  <1>18. Fit(g, M2, r, idx', scopes', Len(scopes'), breaks', conts')
    BY <1>1, <1>7, <1>12
  <1> HIDE DEF M2, J2
  <1>. QED BY <1>1, <1>2, <1>14, <1>15, <1>16, <1>17, <1>18, EndsStatement

\* A for marks its condition and owes the epilogue and its end.
LEMMA ForKeeps == ASSUME IInv, NEW n \in StackBytes, NEW m \in StackBytes, For(n, m) PROVE IInv'
PROOF
  <1> DEFINE M == MarksOf(code)
             J == JumpsOf(code)
             a == <<"condition", nr>>
             b == <<"end", nr>>
             t == Task("end_for", nr)
             M2 == M \cup {<<a, idx>>}
             J2 == J \cup {<<b, idx>>}
             N == Numbered({"epilogue", "end"}, nr, idx)
  <1>1. PICK y : y = idx + n
    OBVIOUS
  <1>2. /\ Typed /\ phase = "gen" /\ AtStatement
        /\ code' = code \o <<Eval(n, idx), Mark(a, y), Branch(b, m, y)>>
        /\ UNCHANGED <<phase, pc, depth, scopes, userset>> /\ Generated(n + m, idx)
        /\ EnterLoop("epilogue") /\ work' = <<Statement, t>> \o Tail(work)
    BY <1>1 DEF IInv, For, AtStatement, At, Emit, machine
  <1>3. PICK g : g = Discipline'
    OBVIOUS
  <1>4. /\ n \in Nat /\ m \in Nat /\ y \in Nat /\ idx' \in Nat /\ uses \subseteq uses'
        /\ g >= 1 => n = 0 /\ m = 0 /\ y = idx /\ idx' = idx
    <2>1. n \in Nat /\ m \in Nat /\ n + m \in Nat /\ idx \in Nat /\ y \in Nat
      BY <1>1, <1>2, FrameAssumption DEF Typed
    <2>2. idx' \in Nat /\ uses \subseteq uses' /\ (g >= 1 => n + m = 0 /\ idx' = idx)
      BY <1>2, <1>3, <2>1, Grown
    <2>. QED BY <1>1, <2>1, <2>2
  <1>5. PICK p : Left(g, p)
    BY <1>2, <1>3, <1>4, BeginsStatement
  <1>6. Fit(g, M, p, idx, scopes, Len(scopes), breaks, conts) /\ g \in Nat
    BY <1>5 DEF Left
  <1>7. Tail(work) \in Seq(TaskSet) /\ TasksOf(p) = Tail(work) /\ idx \in Nat /\ nr \in Nat
    BY <1>5 DEF Left
  <1>8. t \in TaskSet /\ t.do = "end_for" /\ t.n = nr
    BY <1>7, TheTasks DEF Tasks
  <1>9. /\ breaks' \in Seq(LoopLabel) /\ conts' \in Seq(LoopLabel) /\ nr' = nr + 1 /\ nr' \in Nat
        /\ breaks' = EndsAt(t, breaks) /\ conts' = Continues(t, conts)
    <2>1. Cont(t) = <<"epilogue", nr>> /\ "end_for" \in Loops /\ "epilogue" \in Kinds
      BY DEF Cont, Task, Loops, Kinds
    <2>. QED BY <1>2, <2>1, Pushes
  <1>10. Due(t, idx) = N
    BY <1>7, TheTasks
  <1>11. /\ a \in Label /\ b \in Label /\ (\A k \in M : k[1] # a)
        /\ \A k \in {"epilogue", "end"} : \A o \in OwedOf(p) : o[1] # <<k, nr>>
    BY <1>5, LeftFresh DEF Kinds
  <1>12. Owes(t) = {<<k, nr>> : k \in {"epilogue", "end"}}
    BY DEF Owes, Cont, Task
  <1>13. Loopable(g, M2, p, idx, t)
    <2>1. t.do \in Loops
      BY <1>8 DEF Loops
    <2>2. \A l \in Owes(t), w \in OwedOf(p) : w[1] # l
      BY <1>11, <1>12
    <2>3. <<a, idx>> \in M2 /\ <<a, idx>>[1] = a /\ <<a, idx>>[2] = idx
      OBVIOUS
    <2>4. \A e \in Entry : e.task = t /\ e.idx = idx => Backed(g, M2, e)
      BY <1>8, <2>3 DEF Backed
    <2>. QED BY <1>8, <2>1, <2>2, <2>4 DEF Loopable
  <1> HIDE DEF M, J, N, t
  <1>14. PICK r : /\ Fit(g, M2, r, idx, scopes, Len(scopes), EndsAt(t, breaks), Continues(t, conts))
                  /\ Rounds(t, idx, p, r)
    <2>1. Fit(g, M, p, idx, scopes, Len(scopes), breaks, conts) /\ M \subseteq M2
      BY <1>6
    <2>. HIDE DEF M2
    <2>. QED BY <1>13, <2>1, LoopOn
  <1>15. OwedOf(r) = N \cup OwedOf(p)
    BY <1>10, <1>14 DEF Rounds
  <1>16. work' = TasksOf(r)
    <2>1. Tail(work) \in Seq(TaskSet) /\ Statement \in TaskSet /\ t \in TaskSet
      BY <1>7, <1>8, NothingDue
    <2>2. <<Statement, t>> \o Tail(work) = <<Statement>> \o (<<t>> \o Tail(work))
      <3>1. \A h, i \in TaskSet : <<h, i>> \o Tail(work) = <<h>> \o (<<i>> \o Tail(work))
        BY <2>1, Groups
      <3>. QED BY <2>1, <3>1, Zenon
    <2>. QED BY <1>2, <1>7, <1>14, <2>2 DEF Rounds
  <1>17. Typed'
    BY <1>2, <1>4, <1>9 DEF Typed
  <1> HIDE DEF a, b
  <1>18. Emitted(g, code', idx, M2, J2)
    <2>1. Emitted(g, code, idx, M, J) /\ code \in Seq(Instr)
      BY <1>5 DEF Left, M, J
    <2>2. Eval(n, idx) \in Instr /\ Mark(a, y) \in Instr /\ Branch(b, m, y) \in Instr
      BY <1>4, <1>7, <1>11, Instrs
    <2>3. code' = Append(Append(Append(code, Eval(n, idx)), Mark(a, y)), Branch(b, m, y))
      BY <1>2, <2>1, <2>2, OneByOne
    <2>4. Emitted(g, Append(code, Eval(n, idx)), idx, M, J)
      BY <1>4, <1>6, <1>7, <2>1, EmitPlain
    <2>5. Emitted(g, Append(Append(code, Eval(n, idx)), Mark(a, y)), idx, M2, J)
      BY <1>4, <1>6, <1>7, <1>11, <2>4, EmitMark
    <2>. QED BY <1>4, <1>6, <1>7, <1>11, <2>3, <2>5, EmitBranch
  <1>19. Labelled(g, M2, J2, OwedOf(r), userset', nr')
    <2>1. Labelled(g, M, J, OwedOf(p), userset, nr)
      BY <1>5 DEF Left, M, J
    <2>2. /\ {"condition"} \in SUBSET Kinds /\ {"epilogue", "end"} \in SUBSET Kinds
          /\ {"condition"} \cap {"epilogue", "end"} = {} /\ {"end"} \in SUBSET ({"condition"} \cup {"epilogue", "end"})
      BY DEF Kinds
    <2>3. Labelled(g, M \cup Numbered({"condition"}, nr, idx), J \cup Numbered({"end"}, nr, idx),
                   N \cup OwedOf(p), userset, nr + 1)
      BY <1>7, <2>1, <2>2, NewLabels DEF N
    <2>4. M \cup Numbered({"condition"}, nr, idx) = M2 /\ J \cup Numbered({"end"}, nr, idx) = J2
      BY Numbers DEF a, b
    <2>. QED BY <1>2, <1>9, <1>15, <2>3, <2>4
  <1>20. Fit(g, M2, r, idx, scopes', Len(scopes'), breaks', conts')
    BY <1>2, <1>9, <1>14
  <1> HIDE DEF M2, J2
  <1>. QED BY <1>2, <1>3, <1>4, <1>16, <1>17, <1>18, <1>19, <1>20, EndsStatement

\* A for with a declaration does so in a scope of its own, with one variable.
LEMMA ForDeclKeeps == ASSUME IInv, NEW n \in StackBytes, NEW m \in StackBytes, ForDecl(n, m) PROVE IInv'
PROOF
  <1> DEFINE M == MarksOf(code)
             J == JumpsOf(code)
             a == <<"condition", nr>>
             b == <<"end", nr>>
             t == Task("end_for", nr)
             u == Task("close", idx)
  <1>1. PICK y : y = idx + 4
    OBVIOUS
  <1>2. PICK z : z = idx + 4 + n
    OBVIOUS
  <1> DEFINE M2 == M \cup {<<a, y>>}
             J2 == J \cup {<<b, y>>}
             N == Numbered({"epilogue", "end"}, nr, y)
  <1>3. /\ Typed /\ phase = "gen" /\ AtStatement
        /\ code' = code \o <<Sub(idx), Eval(n, y), Mark(a, z), Branch(b, m, z)>>
        /\ UNCHANGED <<phase, pc, depth, userset>> /\ Generated(n + m, y)
        /\ scopes' = <<1>> \o scopes
        /\ EnterLoop("epilogue") /\ work' = <<Statement, t, u>> \o Tail(work)
    <2>1. Statement \in TaskSet /\ t \in TaskSet /\ u \in TaskSet
      BY NothingDue, TheTasks DEF IInv, Typed, Tasks
    <2>2. <<Statement, t>> \o <<u>> = <<Statement, t, u>>
      BY <2>1, Three, Zenon
    <2>. HIDE DEF t, u
    <2>3. Emit(<<Sub(idx), Eval(n, y), Mark(a, z), Branch(b, m, z)>>, <<Statement, t, u>>)
      BY <1>1, <1>2, <2>2 DEF ForDecl, Scope, t, u
    <2>. QED BY <1>1, <2>3 DEF IInv, ForDecl, AtStatement, At, Emit, machine
  <1>4. PICK g : g = Discipline'
    OBVIOUS
  <1>5. /\ n \in Nat /\ m \in Nat /\ y \in Nat /\ z \in Nat /\ idx' \in Nat /\ uses \subseteq uses'
        /\ g >= 1 => n = 0 /\ m = 0 /\ z = y /\ idx' = y
    <2>1. n \in Nat /\ m \in Nat /\ n + m \in Nat /\ y \in Nat /\ z \in Nat
      BY <1>1, <1>2, <1>3, FrameAssumption DEF Typed
    <2>2. idx' \in Nat /\ uses \subseteq uses' /\ (g >= 1 => n + m = 0 /\ idx' = y)
      BY <1>3, <1>4, <2>1, Grown
    <2>. QED BY <1>1, <1>2, <2>1, <2>2
  <1>6. PICK p : Left(g, p)
    BY <1>3, <1>4, <1>5, BeginsStatement
  <1>7. Fit(g, M, p, idx, scopes, Len(scopes), breaks, conts) /\ g \in Nat
    BY <1>6 DEF Left
  <1>8. /\ Tail(work) \in Seq(TaskSet) /\ TasksOf(p) = Tail(work)
        /\ idx \in Nat /\ nr \in Nat /\ y \in Nat
    BY <1>1, <1>6 DEF Left
  <1>9. t \in TaskSet /\ t.do = "end_for" /\ t.n = nr /\ u \in TaskSet
    BY <1>8, TheTasks DEF Tasks
  <1>10. /\ breaks' \in Seq(LoopLabel) /\ conts' \in Seq(LoopLabel) /\ nr' = nr + 1 /\ nr' \in Nat
        /\ breaks' = EndsAt(t, breaks) /\ conts' = Continues(t, conts)
    <2>1. Cont(t) = <<"epilogue", nr>> /\ "end_for" \in Loops /\ "epilogue" \in Kinds
      BY DEF Cont, Task, Loops, Kinds
    <2>. QED BY <1>3, <2>1, Pushes
  <1>11. Due(t, y) = N
    BY <1>8, TheTasks
  <1>12. /\ a \in Label /\ b \in Label /\ (\A k \in M : k[1] # a)
         /\ \A k \in {"epilogue", "end"} : \A o \in OwedOf(p) : o[1] # <<k, nr>>
    BY <1>6, LeftFresh DEF Kinds
  <1>13. Owes(t) = {<<k, nr>> : k \in {"epilogue", "end"}}
    BY DEF Owes, Cont, Task
  <1>14. /\ scopes' \in Seq(Nat) /\ Len(scopes') = Len(scopes) + 1 /\ scopes' # <<>>
         /\ Head(scopes') = 1 /\ Tail(scopes') = scopes /\ Len(scopes') \in Nat
    <2>1. scopes \in Seq(Nat) /\ 1 \in Nat /\ scopes' = <<1>> \o scopes
      BY <1>3 DEF Typed
    <2>. QED BY <2>1, Pushed, LenProperties
  <1>15. Closes(idx, scopes, Len(scopes), y, scopes', Len(scopes'))
    <2>1. Len(scopes) \in Nat /\ idx = y - 4 * 1 /\ Len(scopes) = Len(scopes') - 1
      BY <1>1, <1>3, <1>8, <1>14, LenProperties DEF Typed
    <2>. QED BY <1>8, <1>14, <2>1 DEF Closes
  <1>16. /\ \A e \in Entry : e.task = t /\ e.idx = y => Backed(g, M2, e)
         /\ t.do \in Loops /\ M \subseteq M2
    <2>1. <<a, y>> \in M2 /\ <<a, y>>[1] = a /\ <<a, y>>[2] = y
      OBVIOUS
    <2>. QED BY <1>9, <2>1 DEF Backed, Loops
  <1>17. Typed'
    BY <1>3, <1>5, <1>8, <1>10, <1>14 DEF Typed
  <1> HIDE DEF M, J, N, t
  <1>18. PICK q : /\ Fit(g, M, q, y, scopes', Len(scopes'), breaks, conts)
                  /\ Puts(u, y, p, q)
    BY <1>7, <1>15, PutClose
  <1> HIDE DEF u
  <1>19. Due(u, y) = {} /\ OwedOf(q) = OwedOf(p) /\ TasksOf(q) = <<u>> \o TasksOf(p)
    <2>1. Due(u, y) = {}
      BY DEF Due, Owes, u, Task
    <2>. QED BY <1>18, <2>1 DEF Puts
  <1>20. Loopable(g, M2, q, y, t)
    BY <1>9, <1>12, <1>13, <1>16, <1>19 DEF Loopable
  <1>21. PICK r : /\ Fit(g, M2, r, y, scopes', Len(scopes'), EndsAt(t, breaks), Continues(t, conts))
                  /\ Rounds(t, y, q, r)
    <2>1. Fit(g, M, q, y, scopes', Len(scopes'), breaks, conts) /\ M \subseteq M2
      BY <1>16, <1>18
    <2>. HIDE DEF M2
    <2>. QED BY <1>20, <2>1, LoopOn
  <1>22. OwedOf(r) = N \cup OwedOf(p)
    BY <1>11, <1>19, <1>21 DEF Rounds
  <1>23. work' = TasksOf(r)
    <2>1. Tail(work) \in Seq(TaskSet) /\ Statement \in TaskSet /\ t \in TaskSet /\ u \in TaskSet
      BY <1>8, <1>9, NothingDue
    <2>2. <<Statement, t, u>> \o Tail(work) = <<Statement>> \o (<<t>> \o (<<u>> \o Tail(work)))
      <3>1. \A h, i, j \in TaskSet : <<h, i, j>> \o Tail(work) = <<h>> \o (<<i>> \o (<<j>> \o Tail(work)))
        BY <2>1, Groups
      <3>. QED BY <2>1, <3>1, Zenon
    <2>. QED BY <1>3, <1>8, <1>19, <1>21, <2>2 DEF Rounds
  <1> HIDE DEF a, b
  <1>24. Emitted(g, code', y, M2, J2)
    <2>1. Emitted(g, code, idx, M, J) /\ code \in Seq(Instr)
      BY <1>6 DEF Left, M, J
    <2>2. Sub(idx) \in Instr /\ Eval(n, y) \in Instr /\ Mark(a, z) \in Instr /\ Branch(b, m, z) \in Instr
      BY <1>5, <1>8, <1>12, Instrs
    <2>3. PICK c : c = Append(Append(code, Sub(idx)), Eval(n, y))
      OBVIOUS
    <2>4. code' = Append(Append(c, Mark(a, z)), Branch(b, m, z))
      BY <1>3, <2>1, <2>2, <2>3, OneByOne
    <2>5. Emitted(g, Append(code, Sub(idx)), y, M, J)
      BY <1>1, <1>7, <1>8, <2>1, EmitSub
    <2>6. Emitted(g, c, y, M, J)
      BY <1>5, <1>7, <1>8, <2>3, <2>5, EmitPlain
    <2>7. Emitted(g, Append(c, Mark(a, z)), y, M2, J)
      BY <1>5, <1>7, <1>8, <1>12, <2>6, EmitMark
    <2>. QED BY <1>5, <1>7, <1>8, <1>12, <2>4, <2>7, EmitBranch
  <1>25. Labelled(g, M2, J2, OwedOf(r), userset', nr')
    <2>1. Labelled(g, M, J, OwedOf(p), userset, nr)
      BY <1>6 DEF Left, M, J
    <2>2. /\ {"condition"} \in SUBSET Kinds /\ {"epilogue", "end"} \in SUBSET Kinds
          /\ {"condition"} \cap {"epilogue", "end"} = {}
          /\ {"end"} \in SUBSET ({"condition"} \cup {"epilogue", "end"})
      BY DEF Kinds
    <2>3. Labelled(g, M \cup Numbered({"condition"}, nr, y), J \cup Numbered({"end"}, nr, y),
                   N \cup OwedOf(p), userset, nr + 1)
      BY <1>8, <2>1, <2>2, NewLabels DEF N
    <2>4. M \cup Numbered({"condition"}, nr, y) = M2 /\ J \cup Numbered({"end"}, nr, y) = J2
      BY Numbers DEF a, b
    <2>. QED BY <1>3, <1>10, <1>22, <2>3, <2>4
  <1>26. Fit(g, M2, r, y, scopes', Len(scopes'), breaks', conts')
    BY <1>3, <1>10, <1>21
  <1> HIDE DEF M2, J2
  <1>. QED BY <1>3, <1>4, <1>5, <1>17, <1>23, <1>24, <1>25, <1>26, EndsStatement

-----------------------------------------------------------------------------
(***************************************************************************)
(* The end of a scope and declarations.                                    *)
(***************************************************************************)
\* The task at hand and what is left behind it.
Hand(g, e, p) ==
  LET M == MarksOf(code)
      J == JumpsOf(code)
  IN  /\ g \in 0 .. 2 /\ g \in Nat /\ idx \in Nat /\ nr \in Nat /\ code \in Seq(Instr)
      /\ e \in Entry /\ e.task = Head(work) /\ Head(work) \in TaskSet
      /\ Tail(work) \in Seq(TaskSet) /\ TasksOf(p) = Tail(work)
      /\ Ready(g, M, p) /\ Right(g, e) /\ Before(g, e, p[1]) /\ Backed(g, M, e)
      /\ \A j \in 1 .. Len(p) : Above(g, e, p[j])
      /\ e.task.do = "else" => \E j \in 1 .. Len(p) : Ends(g, e, p[j])
      /\ e.breaks # <<>> => Owns(e, e) \/ \E j \in 1 .. Len(p) : Owns(e, p[j])
      /\ Finds(g, Stack(e, p), idx, scopes, Len(scopes), breaks, conts)
      /\ Stack(e, p)[1] = e
      /\ Context(idx, scopes, Len(scopes), breaks, conts)
      /\ Emitted(g, code, idx, M, J)
      /\ Labelled(g, M, J, OwedBy(e) \cup OwedOf(p), userset, nr)
      /\ \A a \in OwedBy(e), b \in OwedOf(p) : a[1] # b[1]

\* There are such a task and plan before every step but the end of the function.
LEMMA BeginsHand ==
  ASSUME IInv, phase = "gen", Head(work).do # "end_function", uses \subseteq uses',
         NEW g, g = Discipline'
  PROVE  \E e, p : Hand(g, e, p)
PROOF
  <1>1. PICK q : Inv(q)
    BY DEF IInv
  <1>2. Typed /\ g \in 0 .. 2 /\ g <= Discipline /\ idx \in Nat /\ nr \in Nat
    BY Disciplines DEF IInv, Typed
  <1> DEFINE p == Tail(q)
             e == q[1]
             M == MarksOf(code)
             J == JumpsOf(code)
  <1>3. /\ Tail(work) \in Seq(TaskSet) /\ Head(work) \in TaskSet /\ e.task = Head(work) /\ e \in Entry /\ g \in Nat
        /\ Ready(g, M, q) /\ Ready(g, M, p) /\ TasksOf(p) = Tail(work)
        /\ Finds(g, q, idx, scopes, Len(scopes), breaks, conts)
        /\ Right(g, e) /\ Before(g, e, p[1])
        /\ \A j \in 1 .. Len(p) : Above(g, e, p[j])
        /\ Len(q) = Len(p) + 1 /\ Len(p) \in Nat \ {0} /\ \A i \in 1 .. Len(p) : p[i] = q[i + 1]
        /\ \A a \in OwedBy(e), b \in OwedOf(p) : a[1] # b[1]
        /\ Emitted(g, code, idx, M, J)
        /\ Labelled(g, M, J, OwedBy(e) \cup OwedOf(p), userset, nr)
        /\ Context(idx, scopes, Len(scopes), breaks, conts)
    BY <1>1, <1>2, Begins
  <1>4. code \in Seq(Instr) /\ Backed(g, M, e)
    <2>1. 1 \in 1 .. Len(q)
      BY <1>3
    <2>. QED BY <1>3, <2>1 DEF Emitted, Ready
  <1>5. Stack(e, p) = q /\ Stack(e, p)[1] = e
    <2>1. q \in Seq(Entry) /\ q # <<>>
      BY <1>3 DEF Ready
    <2>2. Head(q) = q[1] /\ Tail(q) \in Seq(Entry)
      BY <2>1, HeadTailProperties
    <2>3. PICK r : r = <<q[1]>> \o Tail(q)
      OBVIOUS
    <2>4. /\ r \in Seq(Entry) /\ Len(r) = Len(Tail(q)) + 1 /\ r[1] = q[1]
          /\ \A i \in 1 .. Len(Tail(q)) : r[i + 1] = Tail(q)[i]
      BY <1>3, <2>2, <2>3, Pushed
    <2>5. ASSUME NEW i \in 1 .. Len(r) PROVE r[i] = q[i]
      <3>1. CASE i = 1
        BY <2>4, <3>1
      <3>2. CASE i # 1
        <4>1. Len(r) = Len(p) + 1 /\ Len(p) \in Nat
          BY <1>3, <2>4
        <4>. HIDE DEF p
        <4>2. i - 1 \in 1 .. Len(p) /\ (i - 1) + 1 = i
          BY <3>2, <4>1
        <4>. QED BY <1>3, <2>4, <4>2, ZenonT(60) DEF p
      <3>. QED BY <3>1, <3>2
    <2>6. r = q
      BY <1>3, <2>1, <2>4, <2>5, SeqEqual
    <2>. QED BY <2>3, <2>6 DEF Stack
  <1>6. /\ e.task.do = "else" => \E j \in 1 .. Len(p) : Ends(g, e, p[j])
        /\ e.breaks # <<>> => Owns(e, e) \/ \E j \in 1 .. Len(p) : Owns(e, p[j])
    <2>1. Well(g, q) /\ 1 \in 1 .. Len(q)
      BY <1>3 DEF Ready
    <2>2. ASSUME e.task.do = "else" PROVE \E j \in 1 .. Len(p) : Ends(g, e, p[j])
      <3>1. PICK j \in 1 .. Len(q) : 1 < j /\ Ends(g, q[1], q[j])
        BY <2>1, <2>2 DEF Well
      <3>2. j - 1 \in 1 .. Len(p) /\ (j - 1) + 1 = j
        BY <1>3, <3>1
      <3>. QED BY <1>3, <3>1, <3>2
    <2>3. ASSUME e.breaks # <<>> PROVE Owns(e, e) \/ \E j \in 1 .. Len(p) : Owns(e, p[j])
      <3>1. PICK j \in 1 .. Len(q) : 1 <= j /\ Owns(q[1], q[j])
        BY <2>1, <2>3 DEF Well
      <3>2. CASE j = 1
        BY <3>1, <3>2
      <3>3. CASE j # 1
        <4>1. j \in 1 .. Len(q) /\ Len(q) = Len(p) + 1 /\ Len(p) \in Nat
          BY <1>3
        <4>2. j - 1 \in 1 .. Len(p) /\ (j - 1) + 1 = j
          BY <3>3, <4>1
        <4>. QED BY <1>3, <3>1, <4>2
      <3>. QED BY <3>2, <3>3
    <2>. QED BY <2>2, <2>3
  <1> HIDE DEF p, e, M, J
  <1>7. Hand(g, e, p)
    BY <1>2, <1>3, <1>4, <1>5, <1>6 DEF Hand, M, J
  <1>. QED BY <1>7

\* What the context says of the task at hand.
LEMMA HandFinds ==
  ASSUME NEW g, NEW e, NEW p, Hand(g, e, p)
  PROVE  /\ e.open = Len(scopes) /\ e.breaks = breaks /\ e.conts = conts
         /\ g >= 1 => e.idx = idx /\ e.scopes = scopes
         /\ Len(scopes) \in Nat /\ idx \in Nat /\ scopes \in Seq(Nat) /\ e.task \in TaskSet
         /\ breaks \in Seq(LoopLabel) /\ conts \in Seq(LoopLabel)
         /\ p \in Seq(Entry) /\ Len(p) \in Nat \ {0} /\ p[1] \in Entry
PROOF
  <1>1. /\ Finds(g, Stack(e, p), idx, scopes, Len(scopes), breaks, conts)
        /\ Stack(e, p)[1] = e /\ Context(idx, scopes, Len(scopes), breaks, conts)
        /\ Ready(g, MarksOf(code), p) /\ g \in Nat /\ e.task \in TaskSet
    BY DEF Hand
  <1>2. p \in Seq(Entry) /\ Len(p) \in Nat \ {0} /\ p[1] \in Entry
    BY <1>1, Highest DEF Ready
  <1>. QED BY <1>1, <1>2 DEF Finds, Context

\* A close releases the variables of its scope: index and scopes are those outside.
LEMMA CloseKeeps == ASSUME IInv, CloseScope PROVE IInv'
PROOF
  <1> DEFINE M == MarksOf(code)
             J == JumpsOf(code)
             n == 4 * Head(scopes)
  <1>1. /\ Typed /\ phase = "gen" /\ Head(work).do = "close" /\ Head(work).do # "end_function"
        /\ code' = code \o <<Add(n, idx)>> /\ work' = <<>> \o Tail(work)
        /\ UNCHANGED <<phase, pc, depth, breaks, conts, nr, userset, uses>>
        /\ idx' = Head(work).n /\ scopes' = Tail(scopes)
    BY DEF IInv, CloseScope, At, Emit, machine
  <1>2. PICK g : g = Discipline'
    OBVIOUS
  <1>3. PICK e, p : Hand(g, e, p)
    BY <1>1, <1>2, BeginsHand
  <1>4. /\ e.task.do = "close" /\ e.task.n = idx' /\ idx' \in Nat /\ g \in Nat
        /\ e.open >= 1 /\ (g >= 1 => idx' = e.idx - 4 * Head(e.scopes))
        /\ OwedBy(e) = {}
    <2>1. Head(work) \in TaskSet /\ e.task = Head(work) /\ Right(g, e) /\ g \in Nat
      BY <1>3 DEF Hand
    <2>2. e.task.do = "close" /\ e.task.n = idx'
      BY <1>1, <2>1
    <2>. QED BY <2>1, <2>2 DEF Right, TaskSet, OwedBy, Owes
  <1>5. /\ e.open = Len(scopes) /\ e.breaks = breaks /\ e.conts = conts
        /\ g >= 1 => e.idx = idx /\ e.scopes = scopes
        /\ Len(scopes) \in Nat /\ idx \in Nat /\ scopes \in Seq(Nat)
    BY <1>3, HandFinds
  <1>6. /\ scopes # <<>> /\ Head(scopes) \in Nat /\ scopes' \in Seq(Nat)
        /\ Len(scopes') = Len(scopes) - 1 /\ Len(scopes') \in Nat
    <2>1. scopes # <<>>
      BY <1>4, <1>5, EmptySeq
    <2>. QED BY <1>1, <1>4, <1>5, <2>1, HeadTailProperties
  <1>7. n \in Nat /\ (g >= 1 => idx' = idx - n)
    BY <1>4, <1>5, <1>6, SMTT(30)
  <1> HIDE DEF n, M, J
  <1>8. Typed'
    BY <1>1, <1>4, <1>6 DEF Typed
  <1>9. Emitted(g, code', idx', M, J)
    <2>1. Emitted(g, code, idx, M, J) /\ code \in Seq(Instr)
      BY <1>3 DEF Hand, M, J
    <2>2. Add(n, idx) \in Instr
      BY <1>5, <1>7, Instrs
    <2>3. code' = Append(code, Add(n, idx))
      BY <1>1, <2>1, <2>2, OneByOne
    <2>4. Emitted(g, code', idx - n, M, J)
      BY <1>4, <1>5, <1>7, <2>1, <2>3, EmitAdd
    <2>. QED BY <1>7, <2>4 DEF Emitted
  <1>10. Labelled(g, M, J, OwedOf(p), userset', nr')
    <2>1. Labelled(g, M, J, OwedBy(e) \cup OwedOf(p), userset, nr)
      BY <1>3 DEF Hand, M, J
    <2>2. OwedBy(e) \cup OwedOf(p) = OwedOf(p)
      BY <1>4
    <2>. QED BY <1>1, <2>1, <2>2
  <1>11. Finds(g, p, idx', scopes', Len(scopes'), breaks', conts')
    <2>1. Before(g, e, p[1])
      BY <1>3 DEF Hand
    <2>. QED BY <1>1, <1>4, <1>5, <1>6, <2>1 DEF Before, Finds, Loops
  <1>12. Context(idx', scopes', Len(scopes'), breaks', conts')
    BY <1>4, <1>6, <1>8 DEF Context, Typed
  <1>13. Fit(g, M, p, idx', scopes', Len(scopes'), breaks', conts')
    BY <1>3, <1>4, <1>11, <1>12 DEF Fit, Hand, M
  <1>14. work' = TasksOf(p)
    <2>1. Tail(work) \in Seq(TaskSet) /\ TasksOf(p) = Tail(work)
      BY <1>3 DEF Hand
    <2>. QED BY <1>1, <2>1, Groups
  <1>. QED BY <1>1, <1>2, <1>8, <1>9, <1>10, <1>13, <1>14, EndsStatement

\* A plan with and without its first entry.
LEMMA Uncovered ==
  ASSUME NEW f \in Nat, NEW M, NEW q, Ready(f, M, q), q[1].task.do # "end_function"
  PROVE  LET p == Tail(q)
         IN  /\ Ready(f, M, p) /\ q[1] \in Entry /\ p[1] \in Entry
             /\ Right(f, q[1]) /\ Before(f, q[1], p[1])
             /\ OwedOf(q) = OwedBy(q[1]) \cup OwedOf(p)
             /\ TasksOf(q) = <<q[1].task>> \o TasksOf(p)
             /\ \A a \in OwedBy(q[1]), b \in OwedOf(p) : a[1] # b[1]
PROOF
  <1> DEFINE p == Tail(q)
  <1>1. /\ Ready(f, M, p) /\ Len(p) \in Nat \ {0} /\ Right(f, q[1]) /\ Before(f, q[1], p[1])
        /\ \A j \in 1 .. Len(p) : Above(f, q[1], p[j])
    BY Unstacked
  <1>2. p \in Seq(Entry) /\ q \in Seq(Entry) /\ q # <<>>
    BY <1>1 DEF Ready
  <1>3. Len(q) = Len(p) + 1 /\ \A i \in 1 .. Len(p) : p[i] = q[i + 1]
    <2>1. /\ Len(p) = Len(q) - 1 /\ Len(q) \in Nat
          /\ \A i \in 1 .. Len(p) : p[i] = q[i + 1]
      BY <1>2, HeadTailProperties, LenProperties
    <2>. QED BY <2>1
  <1> HIDE DEF p
  <1>4. /\ Ready(f, M, p) /\ Right(f, q[1]) /\ Before(f, q[1], p[1])
        /\ Len(q) = Len(p) + 1 /\ \A i \in 1 .. Len(p) : p[i] = q[i + 1]
        /\ \A j \in 1 .. Len(p) : Above(f, q[1], p[j])
    BY <1>1, <1>3
  <1>5. q[1] \in Entry /\ p[1] \in Entry
    BY <1>4, Highest
  <1>6. OwedOf(q) = OwedBy(q[1]) \cup OwedOf(p) /\ TasksOf(q) = <<q[1].task>> \o TasksOf(p)
    <2>1. \A i \in 1 .. Len(p) : q[i + 1] = p[i]
      BY <1>4
    <2>2. Len(q) = Len(p) + 1
      BY <1>4
    <2>. QED BY <1>2, <2>1, <2>2, Parts
  <1>7. ASSUME NEW a \in OwedBy(q[1]), NEW b \in OwedOf(p) PROVE a[1] # b[1]
    <2>1. PICK j \in 1 .. Len(p) : b \in OwedBy(p[j])
      BY DEF OwedOf
    <2>2. a[1] \in Owes(q[1].task) /\ b[1] \in Owes(p[j].task)
      BY <2>1 DEF OwedBy
    <2>. QED BY <1>4, <2>2 DEF Above
  <1>. QED BY <1>4, <1>5, <1>6, <1>7 DEF p

\* One more variable in the scope a block is in.
LEMMA OneMore ==
  ASSUME NEW f, NEW M, NEW p, NEW x, NEW s, NEW o, NEW b, NEW c, Fit(f, M, p, x, s, o, b, c),
         f >= 1, p[1].task.do = "items",
         NEW y, y = x + 4, NEW z \in Seq(Nat),
         s # <<>> => z # <<>> /\ Tail(z) = Tail(s) /\ Head(z) = Head(s) + 1
  PROVE  \E r : Fit(f, M, r, y, z, o, b, c) /\ OwedOf(r) = OwedOf(p) /\ TasksOf(r) = TasksOf(p)
PROOF
  <1>1. f \in Nat /\ Ready(f, M, p) /\ Context(x, s, o, b, c) /\ Finds(f, p, x, s, o, b, c)
    BY DEF Fit
  <1>2. p[1].task.do # "end_function"
    OBVIOUS
  <1>3. PICK q : q = Tail(p)
    OBVIOUS
  <1>4. /\ Ready(f, M, q) /\ p[1] \in Entry /\ q[1] \in Entry
        /\ Before(f, p[1], q[1])
        /\ OwedOf(p) = OwedBy(p[1]) \cup OwedOf(q) /\ TasksOf(p) = <<p[1].task>> \o TasksOf(q)
    BY <1>1, <1>2, <1>3, Uncovered
  <1>5. q[1].task.do = "close" /\ q[1].task.do # "end_function" /\ Finds(f, q, x, s, o, b, c)
    BY <1>1, <1>4 DEF Before, Finds, Loops
  <1>6. PICK v : v = Tail(q)
    OBVIOUS
  <1>7. /\ Ready(f, M, v) /\ v[1] \in Entry
        /\ Right(f, q[1]) /\ Before(f, q[1], v[1])
        /\ OwedOf(q) = OwedBy(q[1]) \cup OwedOf(v) /\ TasksOf(q) = <<q[1].task>> \o TasksOf(v)
    BY <1>1, <1>4, <1>5, <1>6, Uncovered
  <1>8. PICK n : n = q[1].task.n
    OBVIOUS
  <1>9. q[1].task = Task("close", n) /\ n \in Nat
    BY <1>4, <1>5, <1>8 DEF Entry, TaskSet, Task
  <1>10. /\ s # <<>> /\ o >= 1 /\ n = x - 4 * Head(s)
         /\ Finds(f, v, n, Tail(s), o - 1, b, c)
    BY <1>5, <1>7, <1>8 DEF Right, Before, Finds, Loops
  <1>11. /\ Tail(s) \in Seq(Nat) /\ Head(s) \in Nat /\ x \in Nat /\ y \in Nat
         /\ o \in Nat /\ o - 1 \in Nat /\ b \in Seq(LoopLabel) /\ c \in Seq(LoopLabel)
    <2>1. /\ s \in Seq(Nat) /\ x \in Nat /\ o \in Nat /\ o >= 1 /\ s # <<>>
          /\ b \in Seq(LoopLabel) /\ c \in Seq(LoopLabel)
      BY <1>1, <1>10 DEF Context
    <2>2. Tail(s) \in Seq(Nat) /\ Head(s) \in Nat
      BY <2>1, HeadTailProperties
    <2>3. y \in Nat /\ o - 1 \in Nat
      BY <2>1
    <2>. QED BY <2>1, <2>2, <2>3
  <1>12. Fit(f, M, v, n, Tail(s), o - 1, b, c)
    BY <1>1, <1>7, <1>9, <1>10, <1>11 DEF Fit, Context
  <1>13. Closes(n, Tail(s), o - 1, y, z, o)
    <2>1. n = y - 4 * Head(z)
      <3>1. Head(z) = Head(s) + 1 /\ n = x - 4 * Head(s) /\ Head(s) \in Nat /\ x \in Nat
        BY <1>10, <1>11
      <3>. QED BY <3>1
    <2>. QED BY <1>9, <1>10, <1>11, <2>1 DEF Closes
  <1>14. PICK w : Fit(f, M, w, y, z, o, b, c) /\ Puts(Task("close", n), y, v, w)
    BY <1>12, <1>13, PutClose
  <1>15. OwedOf(w) = OwedOf(q) /\ TasksOf(w) = TasksOf(q) /\ w[1].task.do = "close"
    <2>1. Due(Task("close", n), y) = {} /\ OwedBy(q[1]) = {} /\ Task("close", n).do = "close"
      BY <1>5 DEF Due, Owes, Task, OwedBy
    <2>. QED BY <1>7, <1>9, <1>14, <2>1 DEF Puts
  <1>16. PICK t : t = p[1].task
    OBVIOUS
  <1>17. t \in TaskSet /\ t.do = "items" /\ Owes(t) = {} /\ OwedBy(p[1]) = {}
    BY <1>4, <1>16 DEF Entry, Owes, OwedBy
  <1>18. Stackable(f, w, y, t)
    BY <1>15, <1>17 DEF Stackable
  <1>19. Fit(f, M, w, y, z, o, b, c)
    BY <1>14
  <1>20. PICK r : Fit(f, M, r, y, z, o, b, c) /\ Puts(t, y, w, r)
    BY <1>18, <1>19, PutTask
  <1>21. OwedOf(r) = OwedOf(p) /\ TasksOf(r) = TasksOf(p)
    BY <1>4, <1>15, <1>16, <1>17, <1>20 DEF Puts, Due
  <1>. QED BY <1>20, <1>21

\* A variable moves the index and belongs to the scope whose close is in the plan.
LEMMA VarDeclKeeps == ASSUME IInv, NEW n \in StackBytes, VarDecl(n) PROVE IInv'
PROOF
  <1> DEFINE M == MarksOf(code)
             J == JumpsOf(code)
  <1>1. PICK y : y = idx + 4
    OBVIOUS
  <1>2. /\ Typed /\ phase = "gen" /\ Head(work).do = "item" /\ AtStatement
        /\ code' = code \o <<Sub(idx), Eval(n, y)>> /\ work' = <<>> \o Tail(work)
        /\ UNCHANGED <<phase, pc, depth, breaks, conts, nr, userset>> /\ Generated(n, y)
        /\ scopes' = [scopes EXCEPT ![1] = @ + 1]
    BY <1>1 DEF IInv, VarDecl, AtStatement, At, Emit, machine
  <1>3. PICK g : g = Discipline'
    OBVIOUS
  <1>4. /\ n \in Nat /\ y \in Nat /\ idx' \in Nat /\ uses \subseteq uses'
        /\ g >= 1 => n = 0 /\ idx' = y
    <2>1. n \in Nat /\ y \in Nat
      BY <1>1, <1>2, FrameAssumption DEF Typed
    <2>. QED BY <1>2, <1>3, <2>1, Grown
  <1>5. PICK e, p : Hand(g, e, p)
    BY <1>2, <1>3, <1>4, BeginsHand DEF AtStatement, At
  <1>6. /\ e.open = Len(scopes) /\ e.breaks = breaks /\ e.conts = conts
        /\ g >= 1 => e.idx = idx /\ e.scopes = scopes
        /\ Len(scopes) \in Nat /\ idx \in Nat /\ scopes \in Seq(Nat)
    BY <1>5, HandFinds
  <1>7. e.task.do = "item" /\ OwedBy(e) = {} /\ g \in Nat /\ y \in Nat
    <2>1. e.task = Head(work) /\ g \in Nat
      BY <1>5 DEF Hand
    <2>2. e.task.do = "item"
      BY <1>2, <2>1
    <2>. QED BY <1>1, <1>6, <2>1, <2>2 DEF OwedBy, Owes
  <1>8. /\ scopes' \in Seq(Nat) /\ Len(scopes') = Len(scopes)
        /\ scopes # <<>> => scopes' # <<>> /\ Tail(scopes') = Tail(scopes) /\ Head(scopes') = Head(scopes) + 1
    <2>1. scopes' = [scopes EXCEPT ![1] = @ + 1]
      BY <1>2
    <2>2. CASE scopes = <<>>
      <3>1. scopes' = scopes
        BY <2>1, <2>2
      <3>. QED BY <1>6, <2>2, <3>1
    <2>3. CASE scopes # <<>>
      <3>1. 1 \in 1 .. Len(scopes) /\ scopes[1] \in Nat /\ Head(scopes) = scopes[1]
        BY <1>6, <2>3, EmptySeq, ElementOfSeq
      <3>2. scopes[1] + 1 \in Nat
        BY <3>1
      <3>3. /\ scopes' \in Seq(Nat) /\ Len(scopes') = Len(scopes)
            /\ \A i \in 1 .. Len(scopes) : scopes'[i] = IF i = 1 THEN scopes[1] + 1 ELSE scopes[i]
        BY <1>6, <2>1, <3>1, <3>2, ExceptSeq
      <3>4. scopes' # <<>> /\ Head(scopes') = scopes'[1] /\ scopes'[1] = scopes[1] + 1
        BY <1>6, <2>3, <3>1, <3>3, EmptySeq
      <3>. QED BY <3>1, <3>3, <3>4
    <2>. QED BY <2>2, <2>3
  <1>9. Typed'
    BY <1>2, <1>4, <1>8 DEF Typed
  <1>10. Finds(g, p, idx, scopes, Len(scopes), breaks, conts)
    <2>1. Before(g, e, p[1])
      BY <1>5 DEF Hand
    <2>. QED BY <1>6, <1>7, <2>1 DEF Before, Finds, Loops
  <1>11. Context(idx, scopes, Len(scopes), breaks, conts)
    BY <1>5 DEF Hand
  <1>12. \E r : Fit(g, M, r, y, scopes', Len(scopes), breaks, conts) /\ OwedOf(r) = OwedOf(p) /\ TasksOf(r) = TasksOf(p)
    <2>1. Ready(g, M, p) /\ Before(g, e, p[1])
      BY <1>5 DEF Hand
    <2>. HIDE DEF M, J
    <2>2. CASE g >= 1
      <3>1. p[1].task.do = "items"
        BY <1>7, <2>1, <2>2 DEF Before
      <3>2. Fit(g, M, p, idx, scopes, Len(scopes), breaks, conts)
        BY <1>7, <1>10, <1>11, <2>1 DEF Fit
      <3>3. PICK z \in Seq(Nat) : z = scopes'
        BY <1>8
      <3>4. /\ y = idx + 4 /\ g >= 1
            /\ scopes # <<>> => z # <<>> /\ Tail(z) = Tail(scopes) /\ Head(z) = Head(scopes) + 1
        BY <1>1, <1>8, <2>2, <3>3
      <3>5. \E r : Fit(g, M, r, y, z, Len(scopes), breaks, conts) /\ OwedOf(r) = OwedOf(p) /\ TasksOf(r) = TasksOf(p)
        BY <3>1, <3>2, <3>4, OneMore
      <3>. QED BY <3>3, <3>5
    <2>3. CASE ~(g >= 1)
      BY <1>7, <1>8, <1>10, <1>11, <2>1, <2>3 DEF Fit, Finds, Context
    <2>. QED BY <2>2, <2>3
  <1> HIDE DEF M, J
  <1>13. PICK r : /\ Fit(g, M, r, y, scopes', Len(scopes), breaks, conts)
                  /\ OwedOf(r) = OwedOf(p) /\ TasksOf(r) = TasksOf(p)
    BY <1>12
  <1>14. Emitted(g, code', y, M, J)
    <2>1. Emitted(g, code, idx, M, J) /\ code \in Seq(Instr)
      BY <1>5 DEF Hand, M, J
    <2>2. Sub(idx) \in Instr /\ Eval(n, y) \in Instr
      BY <1>4, <1>6, <1>7, Instrs
    <2>3. code' = Append(Append(code, Sub(idx)), Eval(n, y))
      BY <1>2, <2>1, <2>2, OneByOne
    <2>4. Emitted(g, Append(code, Sub(idx)), y, M, J)
      BY <1>1, <1>6, <1>7, <2>1, EmitSub
    <2>. QED BY <1>4, <1>7, <2>3, <2>4, EmitPlain
  <1>15. Labelled(g, M, J, OwedOf(r), userset', nr')
    <2>1. Labelled(g, M, J, OwedBy(e) \cup OwedOf(p), userset, nr)
      BY <1>5 DEF Hand, M, J
    <2>2. OwedBy(e) \cup OwedOf(p) = OwedOf(r)
      BY <1>7, <1>13
    <2>. QED BY <1>2, <2>1, <2>2
  <1>16. work' = TasksOf(r)
    <2>1. Tail(work) \in Seq(TaskSet) /\ TasksOf(p) = Tail(work)
      BY <1>5 DEF Hand
    <2>. QED BY <1>2, <1>13, <2>1, Groups
  <1>17. Fit(g, M, r, y, scopes', Len(scopes'), breaks', conts')
    BY <1>2, <1>8, <1>13
  <1>. QED BY <1>2, <1>3, <1>4, <1>9, <1>14, <1>15, <1>16, <1>17, EndsStatement

-----------------------------------------------------------------------------
(***************************************************************************)
(* Jumps out of the loop, labels and goto.                                 *)
(***************************************************************************)
\* Where break and continue go to is marked or owed, and not above.
LEMMA WayOut ==
  ASSUME NEW g, NEW e, NEW p, Hand(g, e, p), e.task.do \notin Loops, g # 2,
         NEW l, (breaks # <<>> /\ l = Head(breaks)) \/ (conts # <<>> /\ l = Head(conts))
  PROVE  l \in Label /\ \E m \in MarksOf(code) \cup OwedOf(p) : m[1] = l /\ Fits(g, idx, m[2])
PROOF
  <1>1. /\ e.breaks = breaks /\ e.conts = conts /\ (g >= 1 => e.idx = idx)
        /\ breaks \in Seq(LoopLabel) /\ conts \in Seq(LoopLabel) /\ idx \in Nat
        /\ p \in Seq(Entry) /\ Len(p) \in Nat \ {0}
    BY HandFinds
  <1>2. /\ Right(g, e) /\ Ready(g, MarksOf(code), p) /\ g \in Nat
        /\ \A j \in 1 .. Len(p) : Above(g, e, p[j])
        /\ e.breaks # <<>> => Owns(e, e) \/ \E j \in 1 .. Len(p) : Owns(e, p[j])
    BY DEF Hand
  <1>3. breaks # <<>>
    <2>1. Len(breaks) = Len(conts)
      BY <1>1, <1>2 DEF Right
    <2>. QED BY <1>1, <2>1, EmptySeq
  <1>4. PICK j \in 1 .. Len(p) : Owns(e, p[j])
    BY <1>1, <1>2, <1>3 DEF Owns
  <1>5. PICK d : d = p[j]
    OBVIOUS
  <1>6. /\ d \in Entry /\ d.task.do \in Loops /\ d.breaks = breaks /\ d.conts = conts
        /\ OwedBy(d) \subseteq OwedOf(p)
        /\ Right(g, d) /\ Backed(g, MarksOf(code), d) /\ Above(g, e, d)
    <2>1. d \in Entry /\ OwedBy(d) \subseteq OwedOf(p)
      BY <1>1, <1>5, ElementOfSeq DEF OwedOf
    <2>. QED BY <1>1, <1>2, <1>4, <1>5, <2>1 DEF Ready, Well, Owns
  <1>7. d.idx \in Nat /\ d.task.n \in Nat
    BY <1>6 DEF Entry, TaskSet
  <1>8. Fits(g, idx, d.idx)
    BY <1>1, <1>2, <1>6, <1>7 DEF Fits, Above
  <1>9. Head(breaks) = <<"end", d.task.n>> /\ (conts # <<>> => Head(conts) = Cont(d.task))
    BY <1>6 DEF Right
  <1>10. \A k \in Kinds : <<k, d.task.n>> \in Label
    BY <1>7 DEF Label, LoopLabel
  <1>11. \A k : k \in Owes(d.task) => \E m \in MarksOf(code) \cup OwedOf(p) : m[1] = k /\ Fits(g, idx, m[2])
    <2> SUFFICES ASSUME NEW k, k \in Owes(d.task)
                 PROVE  \E m \in MarksOf(code) \cup OwedOf(p) : m[1] = k /\ Fits(g, idx, m[2])
      OBVIOUS
    <2>1. PICK m : m = <<k, d.idx>>
      OBVIOUS
    <2>2. m \in OwedBy(d) /\ m[1] = k /\ m[2] = d.idx
      BY <2>1 DEF OwedBy
    <2>. QED BY <1>6, <1>8, <2>2
  <1>12. CASE l = <<"end", d.task.n>>
    <2>1. l \in Owes(d.task) /\ l \in Label
      BY <1>6, <1>10, <1>12 DEF Owes, Loops, Kinds
    <2>. QED BY <1>11, <2>1
  <1>13. CASE l = Cont(d.task)
    <2>1. CASE d.task.do \in {"end_do", "end_for"}
      <3>1. l \in Owes(d.task) /\ l \in Label
        BY <1>10, <1>13, <2>1 DEF Owes, Cont, Kinds
      <3>. QED BY <1>11, <3>1
    <2>2. CASE d.task.do = "end_while"
      <3>1. l = <<"start", d.task.n>> /\ l \in Label
        BY <1>10, <1>13, <2>2 DEF Cont, Kinds
      <3>2. PICK m \in MarksOf(code) : m[1] = l /\ (g >= 1 => m[2] = d.idx)
        BY <1>6, <2>2, <3>1 DEF Backed
      <3>3. Fits(g, idx, m[2])
        BY <1>2, <1>8, <3>2 DEF Fits
      <3>. QED BY <3>1, <3>2, <3>3
    <2>. QED BY <1>6, <2>1, <2>2 DEF Loops
  <1>. QED BY <1>9, <1>12, <1>13

\* So a break or a continue keeps the invariant, with less claimed from then on.
LEMMA LeapKeeps ==
  ASSUME IInv, AtStatement,
         NEW l, (breaks # <<>> /\ l = Head(breaks)) \/ (conts # <<>> /\ l = Head(conts)),
         Emit(<<Jump(l, idx)>>, <<>>), uses' = uses \cup {"loop"},
         UNCHANGED <<idx, scopes, breaks, conts, nr, userset>>
  PROVE  IInv'
PROOF
  <1> DEFINE M == MarksOf(code)
             J == JumpsOf(code)
             J2 == J \cup {<<l, idx>>}
  <1>1. /\ Typed /\ phase = "gen" /\ Head(work).do \in {"statement", "item"} /\ Head(work).do # "end_function"
        /\ code' = code \o <<Jump(l, idx)>> /\ work' = <<>> \o Tail(work)
        /\ UNCHANGED <<phase, pc, depth, idx, scopes, breaks, conts, nr, userset>>
        /\ uses \subseteq uses' /\ uses' # {}
    BY DEF IInv, AtStatement, At, Emit, machine
  <1>2. PICK g : g = Discipline'
    OBVIOUS
  <1>3. g # 2
    BY <1>1, <1>2 DEF Discipline
  <1>4. PICK e, p : Hand(g, e, p)
    BY <1>1, <1>2, BeginsHand
  <1>5. e.task = Head(work) /\ g \in Nat /\ g \in 0 .. 2
    BY <1>4 DEF Hand
  <1>6. e.task.do \in {"statement", "item"} /\ OwedBy(e) = {}
    BY <1>1, <1>5 DEF OwedBy, Owes
  <1>7. l \in Label /\ \E m \in M \cup OwedOf(p) : m[1] = l /\ Fits(g, idx, m[2])
    <2>1. e.task.do \notin Loops
      BY <1>6 DEF Loops
    <2>. QED BY <1>3, <1>4, <2>1, WayOut
  <1>8. /\ e.open = Len(scopes) /\ e.breaks = breaks /\ e.conts = conts
        /\ g >= 1 => e.idx = idx /\ e.scopes = scopes
        /\ Len(scopes) \in Nat /\ idx \in Nat /\ scopes \in Seq(Nat)
    BY <1>4, HandFinds
  <1> HIDE DEF M, J
  <1>9. Emitted(g, code', idx', M, J2)
    <2>1. Emitted(g, code, idx, M, J) /\ code \in Seq(Instr)
      BY <1>4 DEF Hand, M, J
    <2>2. Jump(l, idx) \in Instr
      BY <1>7, <1>8, Instrs
    <2>3. code' = Append(code, Jump(l, idx))
      BY <1>1, <2>1, <2>2, OneByOne
    <2>4. Emitted(g, Append(code, Jump(l, idx)), idx, M, J2)
      BY <1>5, <1>7, <1>8, <2>1, EmitJump
    <2>. QED BY <1>1, <2>3, <2>4
  <1>10. Labelled(g, M, J2, OwedOf(p), userset', nr')
    <2>1. Labelled(g, M, J, OwedBy(e) \cup OwedOf(p), userset, nr)
      BY <1>4 DEF Hand, M, J
    <2>2. OwedBy(e) \cup OwedOf(p) = OwedOf(p)
      BY <1>6
    <2>3. Labelled(g, M, J, OwedOf(p), userset, nr)
      BY <2>1, <2>2
    <2>4. Labelled(g, M, J2, OwedOf(p), userset, nr)
      BY <1>7, <2>3, AddJump
    <2>. QED BY <1>1, <2>4
  <1>11. Fit(g, M, p, idx', scopes', Len(scopes'), breaks', conts')
    <2>1. Ready(g, M, p) /\ Before(g, e, p[1]) /\ Context(idx, scopes, Len(scopes), breaks, conts)
      BY <1>4 DEF Hand, M
    <2>2. Finds(g, p, idx, scopes, Len(scopes), breaks, conts)
      BY <1>6, <1>8, <2>1 DEF Before, Finds, Loops
    <2>. QED BY <1>1, <1>5, <2>1, <2>2 DEF Fit
  <1>12. work' = TasksOf(p)
    <2>1. Tail(work) \in Seq(TaskSet) /\ TasksOf(p) = Tail(work)
      BY <1>4 DEF Hand
    <2>. QED BY <1>1, <2>1, Groups
  <1>13. Typed'
    BY <1>1 DEF Typed
  <1> HIDE DEF J2
  <1>. QED BY <1>1, <1>2, <1>9, <1>10, <1>11, <1>12, <1>13, EndsStatement

LEMMA BreakKeeps == ASSUME IInv, JumpOut(breaks) PROVE IInv'
PROOF
  <1>1. CASE breaks = <<>>
    BY <1>1, DieKeeps DEF JumpOut
  <1>2. CASE breaks # <<>>
    <2>1. PICK l : l = Head(breaks)
      OBVIOUS
    <2>2. /\ AtStatement /\ Emit(<<Jump(l, idx)>>, <<>>) /\ uses' = uses \cup {"loop"}
          /\ UNCHANGED <<idx, scopes, breaks, conts, nr, userset>>
      BY <1>2, <2>1 DEF JumpOut
    <2>3. (breaks # <<>> /\ l = Head(breaks)) \/ (conts # <<>> /\ l = Head(conts))
      BY <1>2, <2>1
    <2>. QED BY <2>2, <2>3, LeapKeeps
  <1>. QED BY <1>1, <1>2

LEMMA ContinueKeeps == ASSUME IInv, JumpOut(conts) PROVE IInv'
PROOF
  <1>1. CASE conts = <<>>
    BY <1>1, DieKeeps DEF JumpOut
  <1>2. CASE conts # <<>>
    <2>1. PICK l : l = Head(conts)
      OBVIOUS
    <2>2. /\ AtStatement /\ Emit(<<Jump(l, idx)>>, <<>>) /\ uses' = uses \cup {"loop"}
          /\ UNCHANGED <<idx, scopes, breaks, conts, nr, userset>>
      BY <1>2, <2>1 DEF JumpOut
    <2>3. (breaks # <<>> /\ l = Head(breaks)) \/ (conts # <<>> /\ l = Head(conts))
      BY <1>2, <2>1
    <2>. QED BY <2>2, <2>3, LeapKeeps
  <1>. QED BY <1>1, <1>2

\* A user label is marked once. From then on only the labels are claimed to be right.
LEMMA LabeledKeeps == ASSUME IInv, NEW l \in Labels, Labeled(l) PROVE IInv'
PROOF
  <1>1. CASE userset[l] = "defined"
    BY <1>1, DieKeeps DEF Labeled
  <1> SUFFICES ASSUME userset[l] # "defined" PROVE IInv'
    BY <1>1
  <1> DEFINE M == MarksOf(code)
             J == JumpsOf(code)
             k == UserLabel(l)
             M2 == M \cup {<<k, idx>>}
             us == [userset EXCEPT ![l] = "defined"]
  <1>2. /\ Typed /\ phase = "gen" /\ AtStatement
        /\ code' = code \o <<Mark(k, idx)>> /\ work' = <<Item>> \o Tail(work)
        /\ UNCHANGED <<phase, pc, depth, idx, scopes, breaks, conts, nr>>
        /\ userset' = us /\ uses \subseteq uses' /\ "label" \in uses'
    BY DEF IInv, Labeled, AtStatement, At, Emit, machine
  <1>3. PICK g : g = Discipline'
    OBVIOUS
  <1>4. g = 0
    BY <1>2, <1>3 DEF Discipline
  <1>5. PICK p : Left(g, p)
    BY <1>2, <1>3, BeginsStatement
  <1>6. /\ Fit(g, M, p, idx, scopes, Len(scopes), breaks, conts)
        /\ Tail(work) \in Seq(TaskSet) /\ TasksOf(p) = Tail(work) /\ idx \in Nat
    BY <1>5 DEF Left
  <1>7. k \in Label /\ us \in [Labels -> {"unknown", "referenced", "defined"}]
    BY <1>2 DEF UserLabel, Label, Typed
  <1> HIDE DEF M, J, k, us
  <1>8. Labelled(g, M2, J, OwedOf(p), us, nr) /\ \A m \in M : m[1] # k
    <2>1. Labelled(g, M, J, OwedOf(p), userset, nr) /\ userset \in [Labels -> {"unknown", "referenced", "defined"}]
      BY <1>2, <1>5 DEF Left, M, J, Typed
    <2>2. userset[l] # "defined"
      OBVIOUS
    <2>3. Labelled(g, M \cup {<<UserLabel(l), idx>>}, J, OwedOf(p), [userset EXCEPT ![l] = "defined"], nr)
      BY <2>1, <2>2, MarkUser
    <2>4. \A m \in M : m[1] # UserLabel(l)
      BY <2>1, <2>2, UserUnmarked
    <2>. QED BY <2>3, <2>4 DEF k, us
  <1>9. Fit(g, M2, p, idx, scopes, Len(scopes), breaks, conts)
    <2>1. g \in Nat /\ Ready(g, M, p) /\ g <= g /\ M \subseteq M2
      BY <1>6 DEF Fit
    <2> HIDE DEF M2
    <2>2. Ready(g, M2, p)
      BY <2>1, Wilder
    <2>. QED BY <1>6, <2>2 DEF Fit
  <1>10. Stackable(g, p, idx, Item)
    <2>1. Item \in TaskSet /\ Item.do = "item" /\ Owes(Item) = {}
      BY NothingDue DEF Item, Task
    <2>. QED BY <1>4, <2>1 DEF Stackable
  <1>11. PICK r : Fit(g, M2, r, idx, scopes, Len(scopes), breaks, conts) /\ Puts(Item, idx, p, r)
    <2> HIDE DEF M2
    <2>. QED BY <1>9, <1>10, PutTask
  <1>12. OwedOf(r) = OwedOf(p) /\ work' = TasksOf(r)
    BY <1>2, <1>6, <1>11, NothingDue DEF Puts
  <1>13. Emitted(g, code', idx', M2, J)
    <2>1. Emitted(g, code, idx, M, J) /\ code \in Seq(Instr) /\ g \in Nat
      BY <1>4, <1>5 DEF Left, M, J
    <2>2. Mark(k, idx) \in Instr
      BY <1>6, <1>7, Instrs
    <2>3. code' = Append(code, Mark(k, idx))
      BY <1>2, <2>1, <2>2, OneByOne
    <2>4. Emitted(g, Append(code, Mark(k, idx)), idx, M2, J)
      BY <1>6, <1>7, <1>8, <2>1, EmitMark
    <2>. QED BY <1>2, <2>3, <2>4
  <1>14. Typed'
    BY <1>2, <1>7 DEF Typed
  <1>15. Fit(g, M2, r, idx', scopes', Len(scopes'), breaks', conts')
    BY <1>2, <1>11
  <1>16. Labelled(g, M2, J, OwedOf(r), userset', nr')
    BY <1>2, <1>8, <1>12
  <1> HIDE DEF M2
  <1>. QED BY <1>2, <1>3, <1>12, <1>13, <1>14, <1>15, <1>16, EndsStatement

\* A goto may come before its label: it is referenced until then.
LEMMA GotoKeeps == ASSUME IInv, NEW l \in Labels, Goto(l) PROVE IInv'
PROOF
  <1> DEFINE M == MarksOf(code)
             J == JumpsOf(code)
             k == UserLabel(l)
             J2 == J \cup {<<k, idx>>}
             us == [userset EXCEPT ![l] = IF @ = "unknown" THEN "referenced" ELSE @]
  <1>1. /\ Typed /\ phase = "gen" /\ AtStatement
        /\ code' = code \o <<Jump(k, idx)>> /\ work' = <<>> \o Tail(work)
        /\ UNCHANGED <<phase, pc, depth, idx, scopes, breaks, conts, nr>>
        /\ userset' = us /\ uses \subseteq uses' /\ "goto" \in uses'
    BY DEF IInv, Goto, AtStatement, At, Emit, machine
  <1>2. PICK g : g = Discipline'
    OBVIOUS
  <1>3. g = 0
    BY <1>1, <1>2 DEF Discipline
  <1>4. PICK p : Left(g, p)
    BY <1>1, <1>2, BeginsStatement
  <1>5. /\ Fit(g, M, p, idx, scopes, Len(scopes), breaks, conts)
        /\ Tail(work) \in Seq(TaskSet) /\ TasksOf(p) = Tail(work) /\ idx \in Nat
    BY <1>4 DEF Left
  <1>6. k \in Label /\ us \in [Labels -> {"unknown", "referenced", "defined"}]
    BY <1>1 DEF UserLabel, Label, Typed
  <1> HIDE DEF M, J, k, us
  <1>7. Labelled(g, M, J2, OwedOf(p), us, nr)
    <2>1. Labelled(0, M, J, OwedOf(p), userset, nr) /\ userset \in [Labels -> {"unknown", "referenced", "defined"}]
      BY <1>1, <1>3, <1>4 DEF Left, M, J, Typed
    <2>. QED BY <1>3, <2>1, JumpUser DEF k, us
  <1>8. work' = TasksOf(p)
    BY <1>1, <1>5, Groups
  <1>9. Emitted(g, code', idx', M, J2)
    <2>1. Emitted(g, code, idx, M, J) /\ code \in Seq(Instr) /\ g \in Nat
      BY <1>3, <1>4 DEF Left, M, J
    <2>2. Jump(k, idx) \in Instr
      BY <1>5, <1>6, Instrs
    <2>3. code' = Append(code, Jump(k, idx))
      BY <1>1, <2>1, <2>2, OneByOne
    <2>4. Emitted(g, Append(code, Jump(k, idx)), idx, M, J2)
      BY <1>5, <1>6, <2>1, EmitJump
    <2>. QED BY <1>1, <2>3, <2>4
  <1>10. Typed'
    BY <1>1, <1>6 DEF Typed
  <1>11. Fit(g, M, p, idx', scopes', Len(scopes'), breaks', conts')
    BY <1>1, <1>5
  <1>12. Labelled(g, M, J2, OwedOf(p), userset', nr')
    BY <1>1, <1>7
  <1> HIDE DEF J2
  <1>. QED BY <1>1, <1>2, <1>8, <1>9, <1>10, <1>11, <1>12, EndsStatement

-----------------------------------------------------------------------------
(***************************************************************************)
(* The ends of the generators.                                             *)
(***************************************************************************)
EndTasks == {"else", "if_end"} \cup Loops

\* What they mark, and where they jump to.
Paying(t) == {<<l, idx>> : l \in Owes(t)}
Back(t) ==
  <<IF t.do = "else" THEN "if_end" ELSE IF t.do = "end_for" THEN "condition" ELSE "start", t.n>>

LEMMA HandPays ==
  ASSUME NEW g, NEW e, NEW p, Hand(g, e, p),
         NEW J, Labelled(g, MarksOf(code), J, OwedBy(e) \cup OwedOf(p), userset, nr)
  PROVE  Labelled(g, MarksOf(code) \cup Paying(e.task), J, OwedOf(p), userset, nr)
PROOF
  <1> DEFINE P == OwedBy(e)
             R == OwedOf(p)
             M == MarksOf(code)
  <1>1. /\ g \in Nat /\ \A a \in P, b \in R : a[1] # b[1]
    BY DEF Hand
  <1>2. g >= 1 => e.idx = idx
    BY HandFinds
  <1>3. g >= 1 => \A a \in P : a[2] = idx
    BY <1>2 DEF OwedBy
  <1>4. Paying(e.task) = MarkedAt(P, idx)
    <2>1. \A l \in Owes(e.task) : <<l, e.idx>> \in P /\ <<l, e.idx>>[1] = l
      BY DEF OwedBy
    <2>2. \A a \in P : a[1] \in Owes(e.task)
      BY DEF OwedBy
    <2> HIDE DEF P
    <2>. QED BY <2>1, <2>2 DEF Paying, MarkedAt
  <1> HIDE DEF P, R, M
  <1>5. Labelled(g, M, J, P \cup R, userset, nr)
    BY DEF P, R, M
  <1>6. Labelled(g, M \cup MarkedAt(P, idx), J, R, userset, nr)
    BY <1>1, <1>3, <1>5, Paid
  <1>. QED BY <1>4, <1>6 DEF R, M

\* What the task owes is a label not marked yet.
LEMMA HandOwes ==
  ASSUME NEW g, NEW e, NEW p, Hand(g, e, p), NEW l \in Owes(e.task)
  PROVE  l \in Label /\ \A m \in MarksOf(code) : m[1] # l
PROOF
  <1> DEFINE M == MarksOf(code)
             O == OwedBy(e) \cup OwedOf(p)
  <1>1. Labelled(g, M, JumpsOf(code), O, userset, nr)
    BY DEF Hand
  <1>2. PICK o : o = <<l, e.idx>>
    OBVIOUS
  <1>3. o \in O /\ o[1] = l
    BY <1>2 DEF OwedBy
  <1> HIDE DEF M, O
  <1>4. \A m \in M : m[1] # o[1]
    BY <1>1, <1>3, OwedUnmarked
  <1>5. o[1] \in LoopLabel
    BY <1>1, <1>3 DEF Labelled
  <1>. QED BY <1>3, <1>4, <1>5 DEF Label, M

\* Where it jumps to is owed or marked, at the same index.
LEMMA HandBack ==
  ASSUME NEW g, NEW e, NEW p, Hand(g, e, p), e.task.do \in {"else"} \cup Loops
  PROVE  LET l == Back(e.task)
         IN  /\ l \in Label
             /\ Labelled(g, MarksOf(code), JumpsOf(code) \cup {<<l, idx>>}, OwedBy(e) \cup OwedOf(p), userset, nr)
PROOF
  <1> DEFINE M == MarksOf(code)
             O == OwedBy(e) \cup OwedOf(p)
             l == Back(e.task)
  <1>1. /\ g \in Nat /\ Backed(g, M, e) /\ e.task \in TaskSet
        /\ e.task.do = "else" => \E j \in 1 .. Len(p) : Ends(g, e, p[j])
        /\ Labelled(g, M, JumpsOf(code), O, userset, nr)
    BY DEF Hand
  <1>2. (g >= 1 => e.idx = idx) /\ idx \in Nat
    BY HandFinds
  <1>3. l \in Label
    BY <1>1 DEF Back, Label, LoopLabel, Kinds, TaskSet
  <1>4. \E m \in M \cup O : m[1] = l /\ Fits(g, idx, m[2])
    <2>1. CASE e.task.do = "else"
      <3>1. PICK j \in 1 .. Len(p) : Ends(g, e, p[j])
        BY <1>1, <2>1
      <3>2. PICK m : m = <<l, p[j].idx>>
        OBVIOUS
      <3>3. l = <<"if_end", e.task.n>> /\ p[j].task = Task("if_end", e.task.n) /\ (g >= 1 => p[j].idx = e.idx)
        BY <2>1, <3>1 DEF Back, Ends
      <3>4. l \in Owes(p[j].task)
        BY <3>3 DEF Owes, Task
      <3>5. m \in OwedBy(p[j])
        BY <3>2, <3>4 DEF OwedBy
      <3>6. m \in O /\ m[1] = l /\ m[2] = p[j].idx
        BY <3>2, <3>5 DEF OwedOf
      <3>7. Fits(g, idx, m[2])
        BY <1>1, <1>2, <3>3, <3>6 DEF Fits
      <3>. QED BY <3>6, <3>7
    <2>2. CASE e.task.do \in {"end_while", "end_do"}
      <3>1. l = <<"start", e.task.n>>
        BY <2>2 DEF Back
      <3>2. PICK m \in M : m[1] = <<"start", e.task.n>> /\ (g >= 1 => m[2] = e.idx)
        BY <1>1, <2>2 DEF Backed
      <3>3. Fits(g, idx, m[2])
        BY <1>1, <1>2, <3>2 DEF Fits
      <3>. QED BY <3>1, <3>2, <3>3
    <2>3. CASE e.task.do = "end_for"
      <3>1. l = <<"condition", e.task.n>>
        BY <2>3 DEF Back
      <3>2. PICK m \in M : m[1] = <<"condition", e.task.n>> /\ (g >= 1 => m[2] = e.idx)
        BY <1>1, <2>3 DEF Backed
      <3>3. Fits(g, idx, m[2])
        BY <1>1, <1>2, <3>2 DEF Fits
      <3>. QED BY <3>1, <3>2, <3>3
    <2>. QED BY <2>1, <2>2, <2>3 DEF Loops
  <1> HIDE DEF M, O, l
  <1>5. Labelled(g, M, JumpsOf(code) \cup {<<l, idx>>}, O, userset, nr)
    BY <1>1, <1>4, AddJump
  <1>. QED BY <1>3, <1>5 DEF M, O, l

\* The end of a step that ends a generator.
LEMMA EndStep ==
  ASSUME IInv, phase = "gen", Head(work).do \in EndTasks, work' = <<>> \o Tail(work),
         UNCHANGED <<phase, pc, depth, scopes, nr, userset>>, idx' \in Nat,
         breaks' = IF Head(work).do \in Loops THEN Tail(breaks) ELSE breaks,
         conts' = IF Head(work).do \in Loops THEN Tail(conts) ELSE conts,
         NEW g, g = Discipline', g >= 1 => idx' = idx, NEW e, NEW p, Hand(g, e, p),
         NEW J, Labelled(g, MarksOf(code), J, OwedBy(e) \cup OwedOf(p), userset, nr),
         Emitted(g, code', idx, MarksOf(code) \cup Paying(e.task), J)
  PROVE  IInv'
PROOF
  <1> DEFINE M == MarksOf(code) \cup Paying(e.task)
  <1>1. /\ g \in Nat /\ e.task = Head(work) /\ Right(g, e) /\ Before(g, e, p[1])
        /\ Ready(g, MarksOf(code), p) /\ Context(idx, scopes, Len(scopes), breaks, conts)
        /\ Tail(work) \in Seq(TaskSet) /\ TasksOf(p) = Tail(work)
    BY DEF Hand
  <1>2. /\ e.open = Len(scopes) /\ e.breaks = breaks /\ e.conts = conts
        /\ g >= 1 => e.idx = idx /\ e.scopes = scopes
    BY HandFinds
  <1>3. /\ breaks' \in Seq(LoopLabel) /\ conts' \in Seq(LoopLabel)
        /\ p[1].breaks = breaks' /\ p[1].conts = conts'
    <2>1. CASE Head(work).do \in Loops
      <3>1. breaks # <<>> /\ conts # <<>>
        BY <1>1, <1>2, <2>1 DEF Right
      <3>2. Tail(breaks) \in Seq(LoopLabel) /\ Tail(conts) \in Seq(LoopLabel)
        BY <1>1, <3>1, HeadTailProperties DEF Context
      <3>. QED BY <1>1, <1>2, <2>1, <3>2 DEF Before
    <2>2. CASE Head(work).do \notin Loops
      BY <1>1, <1>2, <2>2 DEF Before, Context
    <2>. QED BY <2>1, <2>2
  <1>4. Typed'
    BY <1>3 DEF IInv, Typed
  <1>5. Labelled(g, M, J, OwedOf(p), userset', nr')
    BY HandPays
  <1>6. Ready(g, M, p)
    <2>1. MarksOf(code) \subseteq M /\ g <= g
      BY <1>1
    <2> HIDE DEF M
    <2>. QED BY <1>1, <2>1, Wilder
  <1>7. Finds(g, p, idx, scopes, Len(scopes), breaks', conts')
    <2>1. Head(work).do # "close"
      BY DEF EndTasks, Loops
    <2>. QED BY <1>1, <1>2, <1>3, <2>1 DEF Before, Finds
  <1>8. Fit(g, M, p, idx, scopes', Len(scopes'), breaks', conts')
    BY <1>1, <1>3, <1>6, <1>7 DEF Fit, Context
  <1>9. work' = TasksOf(p)
    BY <1>1, Groups
  <1> HIDE DEF M
  <1>10. Emitted(g, code', idx, M, J)
    BY DEF M
  <1>. QED BY <1>4, <1>5, <1>8, <1>9, <1>10, EndsStatement

\* The end of the then branch jumps to the end of the if, which is still owed.
LEMMA ElseKeeps == ASSUME IInv, Else PROVE IInv'
PROOF
  <1> DEFINE n == Head(work).n
             M == MarksOf(code)
             J == JumpsOf(code)
             l == <<"if_end", n>>
             a == <<"else", n>>
             J2 == J \cup {<<l, idx>>}
  <1>1. /\ Typed /\ phase = "gen" /\ Head(work).do = "else" /\ work' = <<>> \o Tail(work)
        /\ code' = code \o <<Jump(l, idx), Mark(a, idx)>>
        /\ UNCHANGED <<phase, pc, depth, idx, scopes, nr, userset, uses>>
        /\ breaks' = breaks /\ conts' = conts
    BY DEF IInv, Else, At, Emit, number, machine, ctx
  <1>2. /\ Head(work).do \in EndTasks /\ Head(work).do # "end_function" /\ uses \subseteq uses'
        /\ idx' \in Nat /\ idx' = idx
        /\ breaks' = IF Head(work).do \in Loops THEN Tail(breaks) ELSE breaks
        /\ conts' = IF Head(work).do \in Loops THEN Tail(conts) ELSE conts
    BY <1>1 DEF EndTasks, Loops, Typed
  <1>3. PICK g : g = Discipline'
    OBVIOUS
  <1>4. PICK e, p : Hand(g, e, p)
    BY <1>1, <1>2, <1>3, BeginsHand
  <1>5. /\ g \in Nat /\ idx \in Nat /\ code \in Seq(Instr) /\ e.task = Head(work)
        /\ Emitted(g, code, idx, M, J)
        /\ Labelled(g, M, J, OwedBy(e) \cup OwedOf(p), userset, nr)
    BY <1>4 DEF Hand
  <1>6. Owes(e.task) = {a}
    BY <1>1, <1>5 DEF Owes, Cont
  <1>7. Paying(e.task) = {<<a, idx>>}
    BY <1>6 DEF Paying
  <1>8. a \in Label /\ (\A m \in M : m[1] # a)
    BY <1>4, <1>6, HandOwes
  <1>9. l \in Label /\ Labelled(g, M, J2, OwedBy(e) \cup OwedOf(p), userset, nr)
    <2>1. l = Back(e.task) /\ e.task.do \in {"else"} \cup Loops
      BY <1>1, <1>5 DEF Back, Loops
    <2> HIDE DEF l
    <2>. QED BY <1>4, <2>1, HandBack
  <1> HIDE DEF M, J, J2, l, a, n
  <1>10. Emitted(g, code', idx, M \cup Paying(e.task), J2)
    <2>1. Jump(l, idx) \in Instr /\ Mark(a, idx) \in Instr
      BY <1>5, <1>8, <1>9, Instrs
    <2>2. PICK c2 : c2 = Append(code, Jump(l, idx))
      OBVIOUS
    <2>3. Emitted(g, c2, idx, M, J2)
      BY <1>5, <1>9, <2>2, <1>5, EmitJump DEF J2
    <2>4. code' = Append(c2, Mark(a, idx))
      BY <1>1, <1>5, <2>1, <2>2, OneByOne
    <2>5. Emitted(g, code', idx, M \cup {<<a, idx>>}, J2)
      BY <1>5, <1>8, <2>4, <2>3, EmitMark
    <2>6. M \cup {<<a, idx>>} = M \cup Paying(e.task)
      BY <1>7
    <2>. QED BY <2>5, <2>6
  <1>11. Labelled(g, M, J2, OwedBy(e) \cup OwedOf(p), userset, nr)
    BY <1>9
  <1>. QED BY <1>1, <1>2, <1>3, <1>4, <1>10, <1>11, EndStep DEF M, J2

\* The end of an if marks the label the condition goes to.
LEMMA EndIfKeeps == ASSUME IInv, EndIf PROVE IInv'
PROOF
  <1> DEFINE n == Head(work).n
             M == MarksOf(code)
             J == JumpsOf(code)
             a == <<"if_end", n>>
  <1>1. /\ Typed /\ phase = "gen" /\ Head(work).do = "if_end" /\ work' = <<>> \o Tail(work)
        /\ code' = code \o <<Mark(a, idx)>>
        /\ UNCHANGED <<phase, pc, depth, idx, scopes, nr, userset, uses>>
        /\ breaks' = breaks /\ conts' = conts
    BY DEF IInv, EndIf, At, Emit, number, machine, ctx
  <1>2. /\ Head(work).do \in EndTasks /\ Head(work).do # "end_function" /\ uses \subseteq uses'
        /\ idx' \in Nat /\ idx' = idx
        /\ breaks' = IF Head(work).do \in Loops THEN Tail(breaks) ELSE breaks
        /\ conts' = IF Head(work).do \in Loops THEN Tail(conts) ELSE conts
    BY <1>1 DEF EndTasks, Loops, Typed
  <1>3. PICK g : g = Discipline'
    OBVIOUS
  <1>4. PICK e, p : Hand(g, e, p)
    BY <1>1, <1>2, <1>3, BeginsHand
  <1>5. /\ g \in Nat /\ idx \in Nat /\ code \in Seq(Instr) /\ e.task = Head(work)
        /\ Emitted(g, code, idx, M, J)
        /\ Labelled(g, M, J, OwedBy(e) \cup OwedOf(p), userset, nr)
    BY <1>4 DEF Hand
  <1>6. Owes(e.task) = {a}
    BY <1>1, <1>5 DEF Owes, Cont
  <1>7. Paying(e.task) = {<<a, idx>>}
    BY <1>6 DEF Paying
  <1>8. a \in Label /\ (\A m \in M : m[1] # a)
    BY <1>4, <1>6, HandOwes
  <1> HIDE DEF M, J, a, n
  <1>9. Emitted(g, code', idx, M \cup Paying(e.task), J)
    <2>1. Mark(a, idx) \in Instr
      BY <1>5, <1>8, Instrs
    <2>2. code' = Append(code, Mark(a, idx))
      BY <1>1, <1>5, <2>1, OneByOne
    <2>3. Emitted(g, code', idx, M \cup {<<a, idx>>}, J)
      BY <1>5, <1>8, <2>2, <1>5, EmitMark
    <2>4. M \cup {<<a, idx>>} = M \cup Paying(e.task)
      BY <1>7
    <2>. QED BY <2>3, <2>4
  <1>10. Labelled(g, M, J, OwedBy(e) \cup OwedOf(p), userset, nr)
    BY <1>5
  <1>. QED BY <1>1, <1>2, <1>3, <1>4, <1>9, <1>10, EndStep DEF M, J

\* The ends of the loops pop what the loop pushed, and pay what it owed.
LEMMA EndWhileKeeps == ASSUME IInv, EndWhile PROVE IInv'
PROOF
  <1> DEFINE n == Head(work).n
             M == MarksOf(code)
             J == JumpsOf(code)
             l == <<"start", n>>
             a == <<"end", n>>
             J2 == J \cup {<<l, idx>>}
  <1>1. /\ Typed /\ phase = "gen" /\ Head(work).do = "end_while" /\ work' = <<>> \o Tail(work)
        /\ code' = code \o <<Jump(l, idx), Mark(a, idx)>>
        /\ UNCHANGED <<phase, pc, depth, idx, scopes, nr, userset, uses>>
        /\ breaks' = Tail(breaks) /\ conts' = Tail(conts)
    BY DEF IInv, EndWhile, LeaveLoop, At, Emit, number, machine
  <1>2. /\ Head(work).do \in EndTasks /\ Head(work).do # "end_function" /\ uses \subseteq uses'
        /\ idx' \in Nat /\ idx' = idx
        /\ breaks' = IF Head(work).do \in Loops THEN Tail(breaks) ELSE breaks
        /\ conts' = IF Head(work).do \in Loops THEN Tail(conts) ELSE conts
    BY <1>1 DEF EndTasks, Loops, Typed
  <1>3. PICK g : g = Discipline'
    OBVIOUS
  <1>4. PICK e, p : Hand(g, e, p)
    BY <1>1, <1>2, <1>3, BeginsHand
  <1>5. /\ g \in Nat /\ idx \in Nat /\ code \in Seq(Instr) /\ e.task = Head(work)
        /\ Emitted(g, code, idx, M, J)
        /\ Labelled(g, M, J, OwedBy(e) \cup OwedOf(p), userset, nr)
    BY <1>4 DEF Hand
  <1>6. Owes(e.task) = {a}
    BY <1>1, <1>5 DEF Owes, Cont
  <1>7. Paying(e.task) = {<<a, idx>>}
    BY <1>6 DEF Paying
  <1>8. a \in Label /\ (\A m \in M : m[1] # a)
    BY <1>4, <1>6, HandOwes
  <1>9. l \in Label /\ Labelled(g, M, J2, OwedBy(e) \cup OwedOf(p), userset, nr)
    <2>1. l = Back(e.task) /\ e.task.do \in {"else"} \cup Loops
      BY <1>1, <1>5 DEF Back, Loops
    <2> HIDE DEF l
    <2>. QED BY <1>4, <2>1, HandBack
  <1> HIDE DEF M, J, J2, l, a, n
  <1>10. Emitted(g, code', idx, M \cup Paying(e.task), J2)
    <2>1. Jump(l, idx) \in Instr /\ Mark(a, idx) \in Instr
      BY <1>5, <1>8, <1>9, Instrs
    <2>2. PICK c2 : c2 = Append(code, Jump(l, idx))
      OBVIOUS
    <2>3. Emitted(g, c2, idx, M, J2)
      BY <1>5, <1>9, <2>2, <1>5, EmitJump DEF J2
    <2>4. code' = Append(c2, Mark(a, idx))
      BY <1>1, <1>5, <2>1, <2>2, OneByOne
    <2>5. Emitted(g, code', idx, M \cup {<<a, idx>>}, J2)
      BY <1>5, <1>8, <2>4, <2>3, EmitMark
    <2>6. M \cup {<<a, idx>>} = M \cup Paying(e.task)
      BY <1>7
    <2>. QED BY <2>5, <2>6
  <1>11. Labelled(g, M, J2, OwedBy(e) \cup OwedOf(p), userset, nr)
    BY <1>9
  <1>. QED BY <1>1, <1>2, <1>3, <1>4, <1>10, <1>11, EndStep DEF M, J2

LEMMA EndDoKeeps == ASSUME IInv, NEW k \in StackBytes, EndDo(k) PROVE IInv'
PROOF
  <1> DEFINE n == Head(work).n
             M == MarksOf(code)
             J == JumpsOf(code)
             l == <<"start", n>>
             a == <<"condition", n>>
             b == <<"end", n>>
             J2 == J \cup {<<l, idx>>}
  <1>1. PICK y : y = idx + k
    OBVIOUS
  <1>2. /\ Typed /\ phase = "gen" /\ Head(work).do = "end_do" /\ work' = <<>> \o Tail(work)
        /\ code' = code \o <<Mark(a, idx), Branch(l, k, idx), Mark(b, y)>>
        /\ UNCHANGED <<phase, pc, depth, scopes, nr, userset>> /\ Generated(k, idx)
        /\ breaks' = Tail(breaks) /\ conts' = Tail(conts)
    BY <1>1 DEF IInv, EndDo, LeaveLoop, At, Emit, number, machine
  <1>3. /\ Head(work).do \in EndTasks /\ Head(work).do # "end_function"
        /\ breaks' = IF Head(work).do \in Loops THEN Tail(breaks) ELSE breaks
        /\ conts' = IF Head(work).do \in Loops THEN Tail(conts) ELSE conts
    BY <1>2 DEF EndTasks, Loops
  <1>4. PICK g : g = Discipline'
    OBVIOUS
  <1>5. /\ k \in Nat /\ y \in Nat /\ idx' \in Nat /\ uses \subseteq uses'
        /\ g >= 1 => k = 0 /\ y = idx /\ idx' = idx
    <2>1. k \in Nat /\ idx \in Nat /\ y \in Nat
      BY <1>1, <1>2, FrameAssumption DEF Typed
    <2>. QED BY <1>1, <1>2, <1>4, <2>1, Grown
  <1>6. PICK e, p : Hand(g, e, p)
    BY <1>2, <1>3, <1>4, <1>5, BeginsHand
  <1>7. /\ g \in Nat /\ idx \in Nat /\ code \in Seq(Instr) /\ e.task = Head(work)
        /\ Emitted(g, code, idx, M, J)
        /\ Labelled(g, M, J, OwedBy(e) \cup OwedOf(p), userset, nr)
    BY <1>6 DEF Hand
  <1>8. Owes(e.task) = {a, b}
    BY <1>2, <1>7 DEF Owes, Cont
  <1>9. Paying(e.task) = {<<a, idx>>, <<b, idx>>}
    BY <1>8 DEF Paying
  <1>10. /\ a \in Label /\ (\A m \in M : m[1] # a)
        /\ b \in Label /\ (\A m \in M : m[1] # b) /\ <<a, idx>>[1] # b
    BY <1>6, <1>8, HandOwes
  <1>11. l \in Label /\ Labelled(g, M, J2, OwedBy(e) \cup OwedOf(p), userset, nr)
    <2>1. l = Back(e.task) /\ e.task.do \in {"else"} \cup Loops
      BY <1>2, <1>7 DEF Back, Loops
    <2> HIDE DEF l
    <2>. QED BY <1>6, <2>1, HandBack
  <1> HIDE DEF M, J, J2, l, a, b, n
  <1>12. Emitted(g, code', idx, M \cup Paying(e.task), J2)
    <2>1. Mark(a, idx) \in Instr /\ Branch(l, k, idx) \in Instr /\ Mark(b, y) \in Instr
      BY <1>5, <1>7, <1>10, <1>11, Instrs
    <2>2. PICK c2 : c2 = Append(code, Mark(a, idx))
      OBVIOUS
    <2>3. Emitted(g, c2, idx, M \cup {<<a, idx>>}, J)
      BY <1>7, <1>10, <2>2, EmitMark
    <2>4. PICK c4 : c4 = Append(c2, Branch(l, k, idx))
      OBVIOUS
    <2>5. Emitted(g, c4, idx, M \cup {<<a, idx>>}, J2)
      BY <1>5, <1>7, <1>11, <2>4, <2>3, EmitBranch DEF J2
    <2>6. code' = Append(c4, Mark(b, y))
      BY <1>2, <1>7, <2>1, <2>2, <2>4, OneByOne
    <2>7. Emitted(g, code', idx, M \cup {<<a, idx>>} \cup {<<b, idx>>}, J2)
      <3>1. \A m \in M \cup {<<a, idx>>} : m[1] # b
        BY <1>10
      <3>. QED BY <1>5, <1>7, <1>10, <2>6, <2>5, <3>1, EmitMark
    <2>8. M \cup {<<a, idx>>} \cup {<<b, idx>>} = M \cup Paying(e.task)
      BY <1>9
    <2>. QED BY <2>7, <2>8
  <1>13. Labelled(g, M, J2, OwedBy(e) \cup OwedOf(p), userset, nr)
    BY <1>11
  <1>. QED BY <1>2, <1>3, <1>4, <1>5, <1>6, <1>12, <1>13, EndStep DEF M, J2

LEMMA EndForKeeps == ASSUME IInv, NEW k \in StackBytes, EndFor(k) PROVE IInv'
PROOF
  <1> DEFINE n == Head(work).n
             M == MarksOf(code)
             J == JumpsOf(code)
             l == <<"condition", n>>
             a == <<"epilogue", n>>
             b == <<"end", n>>
             J2 == J \cup {<<l, idx>>}
  <1>1. PICK y : y = idx + k
    OBVIOUS
  <1>2. /\ Typed /\ phase = "gen" /\ Head(work).do = "end_for" /\ work' = <<>> \o Tail(work)
        /\ code' = code \o <<Mark(a, idx), Eval(k, idx), Jump(l, y), Mark(b, y)>>
        /\ UNCHANGED <<phase, pc, depth, scopes, nr, userset>> /\ Generated(k, idx)
        /\ breaks' = Tail(breaks) /\ conts' = Tail(conts)
    BY <1>1 DEF IInv, EndFor, LeaveLoop, At, Emit, number, machine
  <1>3. /\ Head(work).do \in EndTasks /\ Head(work).do # "end_function"
        /\ breaks' = IF Head(work).do \in Loops THEN Tail(breaks) ELSE breaks
        /\ conts' = IF Head(work).do \in Loops THEN Tail(conts) ELSE conts
    BY <1>2 DEF EndTasks, Loops
  <1>4. PICK g : g = Discipline'
    OBVIOUS
  <1>5. /\ k \in Nat /\ y \in Nat /\ idx' \in Nat /\ uses \subseteq uses'
        /\ g >= 1 => k = 0 /\ y = idx /\ idx' = idx
    <2>1. k \in Nat /\ idx \in Nat /\ y \in Nat
      BY <1>1, <1>2, FrameAssumption DEF Typed
    <2>. QED BY <1>1, <1>2, <1>4, <2>1, Grown
  <1>6. PICK e, p : Hand(g, e, p)
    BY <1>2, <1>3, <1>4, <1>5, BeginsHand
  <1>7. /\ g \in Nat /\ idx \in Nat /\ code \in Seq(Instr) /\ e.task = Head(work)
        /\ Emitted(g, code, idx, M, J)
        /\ Labelled(g, M, J, OwedBy(e) \cup OwedOf(p), userset, nr)
    BY <1>6 DEF Hand
  <1>8. Owes(e.task) = {a, b}
    BY <1>2, <1>7 DEF Owes, Cont
  <1>9. Paying(e.task) = {<<a, idx>>, <<b, idx>>}
    BY <1>8 DEF Paying
  <1>10. /\ a \in Label /\ (\A m \in M : m[1] # a)
        /\ b \in Label /\ (\A m \in M : m[1] # b) /\ <<a, idx>>[1] # b
    BY <1>6, <1>8, HandOwes
  <1>11. l \in Label /\ Labelled(g, M, J2, OwedBy(e) \cup OwedOf(p), userset, nr)
    <2>1. l = Back(e.task) /\ e.task.do \in {"else"} \cup Loops
      BY <1>2, <1>7 DEF Back, Loops
    <2> HIDE DEF l
    <2>. QED BY <1>6, <2>1, HandBack
  <1> HIDE DEF M, J, J2, l, a, b, n
  <1>12. Emitted(g, code', idx, M \cup Paying(e.task), J2)
    <2>1. Mark(a, idx) \in Instr /\ Eval(k, idx) \in Instr /\ Jump(l, y) \in Instr /\ Mark(b, y) \in Instr
      BY <1>5, <1>7, <1>10, <1>11, Instrs
    <2>2. PICK c2 : c2 = Append(code, Mark(a, idx))
      OBVIOUS
    <2>3. Emitted(g, c2, idx, M \cup {<<a, idx>>}, J)
      BY <1>7, <1>10, <2>2, EmitMark
    <2>4. PICK c4 : c4 = Append(c2, Eval(k, idx))
      OBVIOUS
    <2>5. Emitted(g, c4, idx, M \cup {<<a, idx>>}, J)
      BY <1>5, <1>7, <2>4, <2>3, EmitPlain
    <2>6. PICK c6 : c6 = Append(c4, Jump(l, y))
      OBVIOUS
    <2>7. Emitted(g, c6, idx, M \cup {<<a, idx>>}, J2)
      BY <1>5, <1>7, <1>11, <2>6, <2>5, EmitJump DEF J2
    <2>8. code' = Append(c6, Mark(b, y))
      BY <1>2, <1>7, <2>1, <2>2, <2>4, <2>6, OneByOne
    <2>9. Emitted(g, code', idx, M \cup {<<a, idx>>} \cup {<<b, idx>>}, J2)
      <3>1. \A m \in M \cup {<<a, idx>>} : m[1] # b
        BY <1>10
      <3>. QED BY <1>5, <1>7, <1>10, <2>8, <2>7, <3>1, EmitMark
    <2>10. M \cup {<<a, idx>>} \cup {<<b, idx>>} = M \cup Paying(e.task)
      BY <1>9
    <2>. QED BY <2>9, <2>10
  <1>13. Labelled(g, M, J2, OwedBy(e) \cup OwedOf(p), userset, nr)
    BY <1>11
  <1>. QED BY <1>2, <1>3, <1>4, <1>5, <1>6, <1>12, <1>13, EndStep DEF M, J2

-----------------------------------------------------------------------------
(***************************************************************************)
(* The whole function.                                                     *)
(***************************************************************************)
\* What is left when nothing is left.
LEMMA NoneLeft ==
  /\ <<>> \in Seq(Entry) /\ TasksOf(<<>>) = <<>> /\ OwedOf(<<>>) = {}
  /\ MarksOf(<<>>) = {} /\ JumpsOf(<<>>) = {}
PROOF
  <1>1. Len(<<>>) = 0 /\ 1 .. 0 = {}
    OBVIOUS
  <1>2. TasksOf(<<>>) = <<>>
    <2>1. TasksOf(<<>>) = [i \in 1 .. 0 |-> <<>>[i].task]
      BY <1>1 DEF TasksOf
    <2>2. PICK t : t = TasksOf(<<>>)
      OBVIOUS
    <2>3. DOMAIN t = {} /\ t = [i \in {} |-> <<>>[i].task]
      BY <1>1, <2>1, <2>2
    <2>4. <<>> = [i \in {} |-> <<>>[i].task]
      OBVIOUS
    <2>. QED BY <2>2, <2>3, <2>4
  <1>. QED BY <1>1, <1>2 DEF OwedOf, MarksOf, JumpsOf

\* The end of a function is the last of the plan.
LEMMA LastTask ==
  ASSUME NEW f, NEW M, NEW q, Ready(f, M, q), q[1].task.do = "end_function"
  PROVE  /\ q = <<q[1]>> /\ q[1] \in Entry /\ TasksOf(q) = <<q[1].task>> /\ OwedOf(q) = {}
PROOF
  <1>1. q \in Seq(Entry) /\ q # <<>> /\ Well(f, q) /\ Len(q) \in Nat \ {0}
    BY EmptySeq, LenProperties DEF Ready
  <1>2. Len(q) = 1
    <2> SUFFICES ASSUME Len(q) # 1 PROVE FALSE
      OBVIOUS
    <2>1. 1 \in 1 .. Len(q) - 1
      BY <1>1
    <2>. QED BY <1>1, <2>1 DEF Well, Before
  <1>3. q[1] \in Entry
    BY <1>1, <1>2, ElementOfSeq
  <1>4. q = <<q[1]>>
    <2>1. PICK e \in Entry : e = q[1]
      BY <1>3
    <2>2. <<e>> \in Seq(Entry) /\ Len(<<e>>) = 1 /\ <<e>>[1] = e
      OBVIOUS
    <2>3. Len(q) = Len(<<e>>) /\ \A i \in 1 .. Len(q) : q[i] = <<e>>[i]
      BY <1>2, <2>1, <2>2
    <2>4. q = <<e>>
      BY <1>1, <2>2, <2>3, SeqEqual
    <2>. QED BY <2>1, <2>4
  <1>5. OwedOf(q) = {}
    <2>1. OwedBy(q[1]) = {}
      BY DEF OwedBy, Owes
    <2>2. \A i \in 1 .. Len(q) : OwedBy(q[i]) = {}
      BY <1>2, <2>1
    <2>. QED BY <2>2 DEF OwedOf
  <1>6. TasksOf(q) = <<q[1].task>>
    BY <1>2 DEF TasksOf
  <1>. QED BY <1>3, <1>4, <1>5, <1>6

\* The function ends when nothing is owed, and no user label only referenced.
LEMMA EndFunctionKeeps == ASSUME IInv, EndFunction PROVE IInv'
PROOF
  <1> SUFFICES ASSUME ~Die PROVE IInv'
    BY DieKeeps
  <1> DEFINE g == Discipline
             M == MarksOf(code)
             J == JumpsOf(code)
  <1>1. /\ Typed /\ Runs /\ phase = "gen" /\ Head(work).do = "end_function"
        /\ code' = Append(code, Ret(idx)) /\ work' = Tail(work) /\ phase' = "run"
        /\ UNCHANGED <<pc, depth, idx, scopes, breaks, conts, nr, userset, uses>>
        /\ \A l \in Labels : userset[l] # "referenced"
    BY DEF IInv, EndFunction, At, ctx, machine
  <1>2. PICK q : Inv(q)
    BY DEF IInv
  <1>3. /\ q # <<>> /\ work = TasksOf(q) /\ Ready(g, M, q)
        /\ Emitted(g, code, idx, M, J) /\ Labelled(g, M, J, OwedOf(q), userset, nr)
    BY <1>1, <1>2 DEF Inv, Planned, Resolved
  <1>4. g \in 0 .. 2 /\ g \in Nat /\ idx \in Nat /\ Discipline' = g
    BY <1>1, Disciplines DEF Typed
  <1> HIDE DEF g, M, J
  <1>5. q \in Seq(Entry) /\ Len(q) \in Nat \ {0}
    BY <1>3, EmptySeq, LenProperties DEF Ready
  <1>6. q[1].task = Head(work)
    <2>1. 1 \in 1 .. Len(q)
      BY <1>5
    <2>2. Head(TasksOf(q)) = TasksOf(q)[1] /\ TasksOf(q)[1] = q[1].task
      BY <2>1 DEF TasksOf
    <2>. QED BY <1>3, <2>2
  <1>7. work = <<q[1].task>> /\ OwedOf(q) = {}
    <2>1. q[1].task.do = "end_function"
      BY <1>1, <1>6
    <2>. QED BY <1>3, <2>1, LastTask
  <1>8. work' = <<>>
    BY <1>1, <1>7
  <1>9. Emitted(g, code', idx, M, J)
    BY <1>1, <1>3, <1>4, EmitPlain
  <1>10. /\ Alike(g, M, MarksOf(code')) /\ Alike(g, J, JumpsOf(code')) /\ Once(code')
         /\ code \in Seq(Instr) /\ code' \in Seq(Instr) /\ (g >= 1 => Text(code', idx))
    BY <1>3, <1>9 DEF Emitted
  <1>11. /\ code' \in Seq(Instr) /\ code' # <<>> /\ Len(code') \in Nat \ {0}
         /\ code'[Len(code')] = Ret(idx) /\ 1 \in 1 .. Len(code')
    <2>1. Ret(idx) \in Instr
      BY <1>4, Instrs
    <2>2. /\ code' \in Seq(Instr) /\ Len(code') = Len(code) + 1 /\ Len(code) \in Nat
          /\ code'[Len(code) + 1] = Ret(idx)
      BY <1>1, <1>10, <2>1, AppendProperties, LenProperties
    <2>3. Len(code') \in Nat \ {0} /\ 1 \in 1 .. Len(code')
      BY <2>2
    <2>. QED BY <2>2, <2>3, EmptySeq
  <1>12. Fits(g, 0, code'[1].at)
    <2>1. g >= 1 => code'[1].at = 0
      BY <1>10, <1>11 DEF Text
    <2>. QED BY <1>4, <2>1 DEF Fits
  <1>13. Runs'
    <2>1. code'[Len(code')].op = "ret"
      BY <1>11 DEF Ret, Ins
    <2>2. pc' = 1 /\ depth' = 0
      BY <1>1 DEF Runs
    <2>3. Fits(Discipline', depth', code'[pc'].at)
      BY <1>4, <1>12, <2>2
    <2>. QED BY <1>1, <1>11, <2>1, <2>2, <2>3 DEF Runs
  <1>14. Typed'
    BY <1>1 DEF Typed, Phase
  <1>15. Planned(<<>>)'
    BY <1>1, <1>8, NoneLeft DEF Planned
  <1>16. Resolved(<<>>)'
    <2>1. Labelled(g, M, J, OwedOf(<<>>), userset', nr')
      BY <1>1, <1>3, <1>7, NoneLeft
    <2>2. Labelled(g, MarksOf(code'), JumpsOf(code'), OwedOf(<<>>), userset', nr')
      <3>1. CASE g >= 1
        BY <1>10, <2>1, <3>1 DEF Alike
      <3>2. CASE g = 0
        BY <1>10, <2>1, <3>2, Blind DEF Alike
      <3>. QED BY <1>4, <3>1, <3>2
    <2>3. Emitted(g, code', idx', MarksOf(code'), JumpsOf(code'))
      BY <1>1, <1>10 DEF Emitted, Alike
    <2>. QED BY <1>4, <2>2, <2>3 DEF Resolved
  <1>. QED BY <1>13, <1>14, <1>15, <1>16, NoneLeft DEF IInv, Inv

\* The code that copies the parameters.
LEMMA Parameters ==
  ASSUME NEW f, NEW k \in Nat, NEW c, c = [i \in 1 .. k |-> Sub(4 * (i - 1))]
  PROVE  Emitted(f, c, 4 * k, {}, {}) /\ MarksOf(c) = {} /\ JumpsOf(c) = {}
PROOF
  <1>1. \A i \in 1 .. k : 4 * (i - 1) \in Nat
    OBVIOUS
  <1>2. \A i \in 1 .. k : Sub(4 * (i - 1)) \in Instr
    BY <1>1, Instrs
  <1>3. c \in Seq(Instr) /\ Len(c) = k
    BY <1>2, IsASeq
  <1>4. \A i \in 1 .. k : c[i].op = "sub" /\ c[i].at = 4 * (i - 1) /\ c[i].by = 4
    BY DEF Sub, Ins
  <1>5. Once(c) /\ {} = MarksOf(c) /\ {} = JumpsOf(c)
    BY <1>3, <1>4 DEF Once, MarksOf, JumpsOf
  <1>6. \A i \in 1 .. k : Moves(c[i]) = 4 * (i - 1) + 4
    BY <1>4 DEF Moves
  <1>7. Text(c, 4 * k)
    <2>1. c = <<>> => 4 * k = 0
      BY <1>3
    <2>2. ASSUME c # <<>> PROVE c[1].at = 0 /\ 4 * k = Moves(c[Len(c)])
      <3>1. k # 0
        BY <1>3, <2>2, EmptySeq
      <3>2. 1 \in 1 .. k /\ k \in 1 .. k
        BY <3>1
      <3>3. Moves(c[k]) = 4 * (k - 1) + 4
        BY <1>6, <3>2
      <3>4. c[1].at = 4 * (1 - 1)
        BY <1>4, <3>2
      <3>. QED BY <1>3, <3>3, <3>4
    <2>3. ASSUME NEW i \in 1 .. Len(c) - 1 PROVE c[i + 1].at = Moves(c[i])
      <3>1. i \in 1 .. k /\ i + 1 \in 1 .. k
        BY <1>3
      <3>2. c[i + 1].at = 4 * ((i + 1) - 1) /\ Moves(c[i]) = 4 * (i - 1) + 4
        BY <1>4, <1>6, <3>1
      <3>. QED BY <3>2
    <2>4. \A i \in 1 .. Len(c) : c[i].op \in {"sub", "add"}
      BY <1>3, <1>4
    <2>. QED BY <2>1, <2>2, <2>3, <2>4 DEF Text
  <1>. QED BY <1>3, <1>5, <1>7 DEF Emitted, Alike

\* The plan of a function before its body is planned.
LEMMA LastPlan ==
  ASSUME NEW f \in Nat, NEW M
  PROVE  \E p : /\ Fit(f, M, p, 0, <<>>, 0, <<>>, <<>>)
                /\ TasksOf(p) = <<Task("end_function", 0)>> /\ OwedOf(p) = {}
PROOF
  <1> DEFINE t == Task("end_function", 0)
  <1>1. t \in TaskSet /\ t.do = "end_function" /\ Owes(t) = {}
    BY DEF Task, TaskSet, Tasks, Owes
  <1> HIDE DEF t
  <1>2. Context(0, <<>>, 0, <<>>, <<>>)
    BY DEF Context
  <1>3. PICK e : e = E(t, 0, <<>>, 0, <<>>, <<>>)
    OBVIOUS
  <1>4. /\ e \in Entry /\ e.task = t /\ e.idx = 0 /\ e.scopes = <<>> /\ e.open = 0
        /\ e.breaks = <<>> /\ e.conts = <<>>
    BY <1>1, <1>2, <1>3 DEF E, Entry, Context
  <1>5. PICK p : p = <<e>>
    OBVIOUS
  <1>6. p \in Seq(Entry) /\ Len(p) = 1 /\ p[1] = e /\ p # <<>>
    BY <1>4, <1>5
  <1>7. Right(f, e) /\ Backed(f, M, e) /\ e.task.do # "else"
    BY <1>1, <1>4 DEF Right, Backed, Loops
  <1>8. Well(f, p)
    <2>1. \A i \in 1 .. 1 : i = 1
      OBVIOUS
    <2>2. 1 .. Len(p) - 1 = {}
      BY <1>6
    <2>3. \A i, j \in 1 .. Len(p) : ~(i < j)
      BY <1>6
    <2>. QED BY <1>1, <1>4, <1>6, <1>7, <2>1, <2>2, <2>3 DEF Well
  <1>9. Ready(f, M, p)
    BY <1>6, <1>7, <1>8 DEF Ready
  <1>10. Finds(f, p, 0, <<>>, 0, <<>>, <<>>)
    BY <1>4, <1>6 DEF Finds
  <1>11. TasksOf(p) = <<t>> /\ OwedOf(p) = {}
    <2>1. p[1].task.do = "end_function" /\ p[1].task = t
      BY <1>1, <1>4, <1>6
    <2>. QED BY <1>9, <2>1, LastTask
  <1>. QED BY <1>2, <1>9, <1>10, <1>11 DEF Fit, t

\* A function starts with its items, the close of its scope and its end planned.
LEMMA StartFunctionKeeps ==
  ASSUME IInv, NEW k \in 0 .. MaxParams, StartFunction(k) PROVE IInv'
PROOF
  <1>1. PICK n \in Nat : n = k
    BY FrameAssumption
  <1>2. PICK x : x = 4 * n
    OBVIOUS
  <1>3. x \in Nat
    BY <1>2
  <1> DEFINE t == Task("close", 0)
             u == Task("end_function", 0)
  <1>4. /\ Typed /\ Runs /\ phase = "start" /\ phase' = "gen"
        /\ code' = [i \in 1 .. n |-> Sub(4 * (i - 1))] /\ idx' = x /\ scopes' = <<n>>
        /\ work' = <<Items, t, u>>
        /\ UNCHANGED <<breaks, conts, nr, userset, uses, pc, depth>>
    BY <1>1, <1>2 DEF IInv, StartFunction, machine
  <1>5. code = <<>> /\ breaks = <<>> /\ conts = <<>> /\ pc = 1 /\ depth = 0
    BY <1>4 DEF Runs
  <1>6. PICK q : Inv(q)
    BY DEF IInv
  <1>7. PICK g : g = Discipline
    OBVIOUS
  <1>8. g \in 0 .. 2 /\ g \in Nat /\ Discipline' = g
    BY <1>4, <1>7, Disciplines
  <1>9. Labelled(g, {}, {}, {}, userset, nr)
    <2>1. Labelled(g, MarksOf(code), JumpsOf(code), OwedOf(q), userset, nr) /\ q = <<>>
      BY <1>4, <1>6, <1>7 DEF Inv, Resolved, Planned
    <2>. QED BY <1>5, <2>1, NoneLeft
  <1>10. Emitted(g, code', x, {}, {})
    BY <1>2, <1>4, Parameters
  <1>11. /\ t \in TaskSet /\ t.do = "close" /\ u \in TaskSet /\ Items \in TaskSet
         /\ Items.do = "items" /\ Owes(Items) = {} /\ Due(t, x) = {} /\ Due(Items, x) = {}
    BY NothingDue DEF Task, TaskSet, Tasks, Items, Due, Owes
  <1> HIDE DEF t, u
  <1>12. PICK p : /\ Fit(g, {}, p, 0, <<>>, 0, <<>>, <<>>)
                  /\ TasksOf(p) = <<u>> /\ OwedOf(p) = {}
    BY <1>8, LastPlan DEF u
  <1>13. PICK z : z = <<n>>
    OBVIOUS
  <1>14. z \in Seq(Nat) /\ z # <<>> /\ Tail(z) = <<>> /\ Head(z) = n /\ Len(z) = 1
    BY <1>13
  <1>15. Closes(0, <<>>, 0, x, z, 1)
    BY <1>2, <1>3, <1>14 DEF Closes
  <1>16. PICK v : Fit(g, {}, v, x, z, 1, <<>>, <<>>) /\ Puts(t, x, p, v)
    BY <1>12, <1>15, PutClose DEF t
  <1>17. Stackable(g, v, x, Items)
    <2>1. v[1].task.do = "close"
      BY <1>11, <1>16 DEF Puts
    <2>. QED BY <1>11, <2>1 DEF Stackable
  <1>18. PICK r : Fit(g, {}, r, x, z, 1, <<>>, <<>>) /\ Puts(Items, x, v, r)
    <2>1. Fit(g, {}, v, x, z, 1, <<>>, <<>>)
      BY <1>16
    <2>. QED BY <1>17, <2>1, PutTask
  <1>19. OwedOf(r) = {} /\ TasksOf(r) = <<Items>> \o (<<t>> \o <<u>>)
    BY <1>11, <1>12, <1>16, <1>18 DEF Puts
  <1>20. work' = TasksOf(r)
    <2>1. <<u>> \in Seq(TaskSet) /\ <<Items, t>> \in Seq(TaskSet)
      BY <1>11
    <2>2. <<Items, t>> \o <<u>> = <<Items>> \o (<<t>> \o <<u>>)
      <3>1. \A a, b \in TaskSet : <<a, b>> \o <<u>> = <<a>> \o (<<b>> \o <<u>>)
        BY <2>1, Groups
      <3>. QED BY <1>11, <3>1, Zenon
    <2>3. <<Items, t>> \o <<u>> = <<Items, t, u>>
      BY <1>11, Three, Zenon
    <2>. QED BY <1>4, <1>19, <2>2, <2>3
  <1>21. Typed'
    BY <1>3, <1>4, <1>14, <1>13 DEF Typed, Phase
  <1>22. {} = MarksOf(code') /\ {} = JumpsOf(code')
    BY <1>4, Parameters
  <1>23. Planned(r)'
    <2>1. Ready(g, {}, r) /\ Finds(g, r, x, z, 1, <<>>, <<>>)
      BY <1>18 DEF Fit
    <2>2. r \in Seq(Entry) /\ r # <<>>
      BY <2>1 DEF Ready
    <2>3. Finds(Discipline', r, idx', scopes', Len(scopes'), breaks', conts')
      BY <1>4, <1>5, <1>8, <1>13, <1>14, <2>1
    <2>. QED BY <1>4, <1>8, <1>20, <1>22, <2>1, <2>2, <2>3 DEF Planned
  <1>24. Resolved(r)'
    <2>1. Emitted(g, code', idx', {}, {}) /\ Labelled(g, {}, {}, OwedOf(r), userset', nr')
      BY <1>4, <1>9, <1>10, <1>19
    <2>. QED BY <1>8, <1>22, <2>1 DEF Resolved
  <1>25. Runs'
    BY <1>4, <1>5 DEF Runs
  <1>26. r \in Seq(Entry)
    BY <1>18 DEF Fit, Ready
  <1>. QED BY <1>21, <1>23, <1>24, <1>25, <1>26 DEF IInv, Inv

-----------------------------------------------------------------------------
(***************************************************************************)
(* The processor.                                                          *)
(***************************************************************************)

\* A step of the processor to an instruction whose index fits, or out of the function.
LEMMA Goes ==
  ASSUME IInv, phase = "run", UNCHANGED <<work, code, idx, ctx>>,
         \/ /\ phase' = "run"
            /\ pc' \in 1 .. Len(code) /\ depth' \in Int /\ Fits(Discipline, depth', code[pc'].at)
         \/ phase' = "returned" /\ UNCHANGED machine
  PROVE  IInv'
PROOF
  <1>1. /\ Typed /\ Runs /\ phase' \in {"run", "returned"}
        /\ UNCHANGED <<work, code, idx, scopes, breaks, conts, nr, userset, uses>>
    BY DEF IInv, ctx
  <1>2. PICK q \in Seq(Entry) : Inv(q)
    BY DEF IInv
  <1>3. Discipline' = Discipline
    BY <1>1, Disciplines
  <1>4. pc' \in Nat \ {0} /\ depth' \in Int
    <2>1. Len(code) \in Nat
      <3>1. code \in Seq(Instr)
        BY <1>2 DEF Inv, Resolved, Emitted
      <3>. QED BY <3>1, LenProperties
    <2>. QED BY <1>1, <2>1 DEF Typed, machine
  <1>5. Typed'
    BY <1>1, <1>4 DEF Typed, Phase
  <1>6. Planned(q)' /\ Resolved(q)'
    BY <1>1, <1>2, <1>3 DEF Inv, Planned, Resolved
  <1>7. Runs'
    BY <1>1, <1>3 DEF Runs, machine
  <1>. QED BY <1>2, <1>5, <1>6, <1>7 DEF IInv, Inv

\* What is known when the function runs.
LEMMA InRun ==
  ASSUME IInv, phase = "run"
  PROVE  /\ Discipline \in 0 .. 2 /\ code \in Seq(Instr) /\ Once(code) /\ Len(code) \in Nat
         /\ Discipline >= 1 => \A i \in 1 .. Len(code) - 1 : code[i + 1].at = Moves(code[i])
         /\ Labelled(Discipline, MarksOf(code), JumpsOf(code), {}, userset, nr)
         /\ pc \in 1 .. Len(code) /\ Fits(Discipline, depth, cur.at) /\ depth \in Int
         /\ cur \in Instr /\ code[Len(code)].op = "ret"
         /\ Discipline >= 1 /\ cur.op \notin {"sub", "add"} => cur.by = 0
         /\ \A l \in Labels : userset[l] \in {"unknown", "defined"}
PROOF
  <1>1. PICK q \in Seq(Entry) : Inv(q)
    BY DEF IInv
  <1>2. q = <<>> /\ Emitted(Discipline, code, idx, MarksOf(code), JumpsOf(code))
        /\ Labelled(Discipline, MarksOf(code), JumpsOf(code), OwedOf(q), userset, nr)
    BY <1>1 DEF Inv, Planned, Resolved
  <1>3. Discipline \in 0 .. 2
    BY Disciplines
  <1>4. code \in Seq(Instr) /\ Once(code) /\ (Discipline >= 1 => Text(code, idx))
    BY <1>2 DEF Emitted
  <1>5. Len(code) \in Nat
    BY <1>4, LenProperties
  <1>6. Labelled(Discipline, MarksOf(code), JumpsOf(code), {}, userset, nr)
    BY <1>2, NoneLeft
  <1>7. /\ pc \in 1 .. Len(code) /\ Fits(Discipline, depth, cur.at) /\ depth \in Int
        /\ code[Len(code)].op = "ret" /\ \A l \in Labels : userset[l] \in {"unknown", "defined"}
    BY DEF IInv, Runs, Typed, cur
  <1>8. cur \in Instr
    BY <1>4, <1>7, ElementOfSeq DEF cur
  <1>9. Discipline >= 1 /\ cur.op \notin {"sub", "add"} => cur.by = 0
    BY <1>4, <1>7 DEF Text, cur
  <1>. QED BY <1>3, <1>4, <1>5, <1>6, <1>7, <1>8, <1>9 DEF Text

\* From one instruction to the next.
LEMMA Advances ==
  ASSUME IInv, phase = "run", UNCHANGED <<phase, work, code, idx, ctx>>, cur.op # "ret",
         pc' = pc + 1, depth' \in Int,
         Discipline >= 1 => depth' - depth = Moves(cur) - cur.at
  PROVE  IInv'
PROOF
  <1>1. /\ Discipline \in 0 .. 2 /\ code \in Seq(Instr) /\ Len(code) \in Nat
        /\ Discipline >= 1 => \A i \in 1 .. Len(code) - 1 : code[i + 1].at = Moves(code[i])
        /\ pc \in 1 .. Len(code) /\ Fits(Discipline, depth, cur.at) /\ depth \in Int
        /\ cur \in Instr /\ code[Len(code)].op = "ret"
    BY InRun
  <1>2. pc # Len(code)
    BY <1>1 DEF cur
  <1>3. pc \in 1 .. Len(code) - 1 /\ pc + 1 \in 1 .. Len(code)
    BY <1>1, <1>2
  <1>4. Fits(Discipline, depth', code[pc'].at)
    <2>1. Discipline >= 1 => code[pc'].at = Moves(cur)
      BY <1>1, <1>3 DEF cur
    <2>2. cur.at \in Nat /\ Moves(cur) \in Int
      BY <1>1 DEF Instr, Moves
    <2>. QED BY <1>1, <2>1, <2>2 DEF Fits
  <1>. QED BY <1>3, <1>4, Goes

\* Where no call leaves bytes an expression leaves %rsp where it was.
LEMMA StaysBehind ==
  ASSUME IInv, phase = "run", cur.op \notin {"sub", "add"}, depth' \in Behind
  PROVE  depth' \in Int /\ (Discipline >= 1 => depth' = depth)
PROOF
  <1>1. /\ depth \in Int /\ cur \in Instr
        /\ Discipline >= 1 => cur.by = 0
    BY InRun
  <1>2. cur.by \in Nat
    BY <1>1 DEF Instr
  <1>3. PICK k \in 0 .. cur.by : depth' = depth + k
    BY DEF Behind
  <1>. QED BY <1>1, <1>2, <1>3

\* The instructions one by one: only sub and add move %rsp, and the next
\* instruction was emitted at the index so moved.
LEMMA StraightKeeps == ASSUME IInv, Straight PROVE IInv'
PROOF
  <1>1. /\ phase = "run" /\ cur.op \in {"eval", "label", "branch"} /\ pc' = pc + 1
        /\ depth' \in Behind /\ UNCHANGED <<phase, work, code, idx, ctx>>
    BY DEF Straight, Running
  <1>2. depth \in Int /\ cur.at \in Nat
    BY <1>1, InRun DEF Instr
  <1>3. Moves(cur) = cur.at /\ cur.op # "ret"
    BY <1>1 DEF Moves
  <1>4. depth' \in Int /\ (Discipline >= 1 => depth' = depth)
    BY <1>1, StaysBehind
  <1>5. Discipline >= 1 => depth' - depth = Moves(cur) - cur.at
    BY <1>2, <1>3, <1>4
  <1>. QED BY <1>1, <1>3, <1>4, <1>5, Advances

LEMMA AllocateKeeps == ASSUME IInv, Allocate PROVE IInv'
PROOF
  <1>1. /\ phase = "run" /\ cur.op = "sub" /\ pc' = pc + 1 /\ depth' = depth + cur.by
        /\ UNCHANGED <<phase, work, code, idx, ctx>>
    BY DEF Allocate, Running
  <1>2. depth \in Int /\ cur.at \in Nat /\ cur.by \in Nat
    BY <1>1, InRun DEF Instr
  <1>3. Moves(cur) = cur.at + cur.by /\ cur.op # "ret"
    BY <1>1 DEF Moves
  <1>4. depth' \in Int /\ depth' - depth = Moves(cur) - cur.at
    BY <1>1, <1>2, <1>3
  <1>. QED BY <1>1, <1>3, <1>4, Advances

LEMMA ReleaseKeeps == ASSUME IInv, Release PROVE IInv'
PROOF
  <1>1. /\ phase = "run" /\ cur.op = "add" /\ pc' = pc + 1 /\ depth' = depth - cur.by
        /\ UNCHANGED <<phase, work, code, idx, ctx>>
    BY DEF Release, Running
  <1>2. depth \in Int /\ cur.at \in Nat /\ cur.by \in Nat
    BY <1>1, InRun DEF Instr
  <1>3. Moves(cur) = cur.at - cur.by /\ cur.op # "ret"
    BY <1>1 DEF Moves
  <1>4. depth' \in Int /\ depth' - depth = Moves(cur) - cur.at
    BY <1>1, <1>2, <1>3
  <1>. QED BY <1>1, <1>3, <1>4, Advances

\* A label that is jumped to has one place, at the index of the jump or less.
LEMMA Targets ==
  ASSUME IInv, phase = "run", NEW i \in 1 .. Len(code), code[i].op \in {"jmp", "branch"}
  PROVE  LET j == Target(code[i].label)
         IN  /\ j \in 1 .. Len(code) /\ code[j].op = "label" /\ code[j].label = code[i].label
             /\ Fits(Discipline, code[i].at, code[j].at)
PROOF
  <1> DEFINE l == code[i].label
             M == MarksOf(code)
  <1>1. /\ Discipline \in 0 .. 2 /\ code \in Seq(Instr) /\ Once(code)
        /\ Labelled(Discipline, M, JumpsOf(code), {}, userset, nr)
        /\ \A k \in Labels : userset[k] \in {"unknown", "defined"}
    BY InRun
  <1>2. PICK w : w = <<l, code[i].at>>
    OBVIOUS
  <1>3. w \in JumpsOf(code) /\ w[1] = l /\ w[2] = code[i].at
    BY <1>2 DEF JumpsOf
  <1>4. PICK m \in M : m[1] = l /\ Fits(Discipline, w[2], m[2])
    <2>1. CASE Discipline = 0 /\ \E k \in Labels : w[1] = UserLabel(k) /\ userset[k] # "unknown"
      <3>1. PICK k \in Labels : w[1] = UserLabel(k) /\ userset[k] = "defined"
        BY <1>1, <2>1
      <3>2. \E m \in M : m[1] = l
        BY <1>1, <1>3, <3>1 DEF Labelled
      <3>3. \A m \in M : Fits(Discipline, w[2], m[2])
        BY <2>1 DEF Fits
      <3>. QED BY <3>2, <3>3
    <2>2. CASE \E m \in M \cup {} : m[1] = w[1] /\ Fits(Discipline, w[2], m[2])
      BY <1>3, <2>2
    <2>. QED BY <1>1, <1>3, <2>1, <2>2 DEF Labelled
  <1>5. PICK n \in 1 .. Len(code) : code[n].op = "label" /\ m = <<code[n].label, code[n].at>>
    BY DEF MarksOf
  <1>6. code[n].label = l /\ code[n].at = m[2]
    BY <1>4, <1>5
  <1>7. DOMAIN code = 1 .. Len(code)
    BY <1>1, LenProperties
  <1>8. Target(l) \in 1 .. Len(code) /\ code[Target(l)].op = "label" /\ code[Target(l)].label = l
    BY <1>5, <1>6, <1>7 DEF Target
  <1>9. Target(l) = n
    BY <1>1, <1>5, <1>6, <1>8 DEF Once
  <1>. QED BY <1>3, <1>4, <1>6, <1>8, <1>9

\* A jump goes to its label, which was emitted at an index it may go to.
LEMMA JumpsKeeps == ASSUME IInv, Jumps PROVE IInv'
PROOF
  <1>1. /\ phase = "run" /\ cur.op \in {"jmp", "branch"} /\ pc' = Target(cur.label)
        /\ depth' \in Int /\ (Discipline >= 1 => depth' = depth)
        /\ UNCHANGED <<phase, work, code, idx, ctx>>
    BY StaysBehind DEF Jumps, Running
  <1>2. /\ Discipline \in 0 .. 2 /\ pc \in 1 .. Len(code) /\ Fits(Discipline, depth, cur.at)
        /\ depth \in Int /\ code \in Seq(Instr)
    BY <1>1, InRun
  <1>3. PICK j : j = pc'
    OBVIOUS
  <1>4. j \in 1 .. Len(code) /\ Fits(Discipline, cur.at, code[j].at)
    BY <1>1, <1>2, <1>3, Targets DEF cur
  <1>5. code[j].at \in Nat /\ cur.at \in Nat
    <2>1. \A i \in 1 .. Len(code) : code[i] \in Instr
      BY <1>2, ElementOfSeq
    <2>. QED BY <1>2, <1>4, <2>1 DEF Instr, cur
  <1>6. Fits(Discipline, depth', code[j].at)
    BY <1>1, <1>2, <1>4, <1>5 DEF Fits
  <1>. QED BY <1>1, <1>2, <1>3, <1>4, <1>6, Goes

\* The processor leaves the function.
LEMMA ReturnsKeeps == ASSUME IInv, Returns PROVE IInv'
PROOF
  <1>1. /\ phase = "run" /\ phase' = "returned" /\ UNCHANGED <<work, code, idx, ctx, machine>>
    BY DEF Returns, Running
  <1>. QED BY <1>1, Goes

-----------------------------------------------------------------------------
(***************************************************************************)
(* The invariant is inductive, and what follows from it.                   *)
(***************************************************************************)

\* Before a function is generated there is no plan.
LEMMA Initially == Init => IInv
PROOF
  <1> SUFFICES ASSUME Init PROVE IInv
    OBVIOUS
  <1>1. /\ phase = "start" /\ work = <<>> /\ code = <<>> /\ idx = 0 /\ scopes = <<>>
        /\ breaks = <<>> /\ conts = <<>> /\ nr = 0 /\ pc = 1 /\ depth = 0 /\ uses = {}
        /\ userset = [l \in Labels |-> "unknown"]
    BY DEF Init
  <1>2. Typed
    BY <1>1 DEF Typed, Phase
  <1>3. Runs
    BY <1>1 DEF Runs
  <1>4. Planned(<<>>)
    BY <1>1, NoneLeft DEF Planned
  <1>5. Resolved(<<>>)
    <2>1. code \in Seq(Instr) /\ Len(code) = 0
      BY <1>1
    <2>2. Once(code)
      BY <2>1 DEF Once
    <2>3. Text(code, idx)
      BY <1>1, <2>1 DEF Text
    <2>4. Labelled(Discipline, {}, {}, {}, userset, nr)
      BY <1>1 DEF Labelled
    <2>. QED BY <1>1, <2>1, <2>2, <2>3, <2>4, NoneLeft DEF Resolved, Emitted, Alike
  <1>. QED BY <1>2, <1>3, <1>4, <1>5, NoneLeft DEF IInv, Inv

\* Every step of the generators and of the processor keeps the invariant.
LEMMA Inductive == IInv /\ [Next]_vars => IInv'
PROOF
  <1> SUFFICES ASSUME IInv, [Next]_vars PROVE IInv'
    OBVIOUS
  <1>1. CASE UNCHANGED vars
    <2>1. PICK q \in Seq(Entry) : Inv(q)
      BY DEF IInv
    <2>2. UNCHANGED <<phase, work, code, idx, scopes, breaks, conts, nr, userset, uses, pc, depth>>
      BY <1>1 DEF vars, ctx, machine
    <2>3. Discipline' = Discipline
      BY <2>2, Disciplines
    <2>4. Typed' /\ Runs'
      BY <2>2, <2>3 DEF IInv, Typed, Runs
    <2>5. Planned(q)' /\ Resolved(q)'
      BY <2>1, <2>2, <2>3 DEF Inv, Planned, Resolved
    <2>. QED BY <2>4, <2>5 DEF IInv, Inv
  <1>2. CASE \E k \in 0 .. MaxParams : StartFunction(k)
    BY <1>2, StartFunctionKeeps
  <1>3. CASE EndFunction
    BY <1>3, EndFunctionKeeps
  <1>4. CASE NextItem
    BY <1>4, NextItemKeeps
  <1>5. CASE CloseScope
    BY <1>5, CloseKeeps
  <1>6. CASE \E n \in StackBytes : VarDecl(n)
    BY <1>6, VarDeclKeeps
  <1>7. CASE \E n \in StackBytes : Expression(n)
    BY <1>7, ExpressionKeeps
  <1>8. CASE \E n \in StackBytes : Return(n)
    BY <1>8, ReturnKeeps
  <1>9. CASE Block
    BY <1>9, BlockKeeps
  <1>10. CASE \E n \in StackBytes : If(n)
    BY <1>10, IfKeeps
  <1>11. CASE \E n \in StackBytes : IfElse(n)
    BY <1>11, IfElseKeeps
  <1>12. CASE \E n \in StackBytes : While(n)
    BY <1>12, WhileKeeps
  <1>13. CASE Do
    BY <1>13, DoKeeps
  <1>14. CASE \E n \in StackBytes : \E m \in StackBytes : For(n, m)
    BY <1>14, ForKeeps
  <1>15. CASE \E n \in StackBytes : \E m \in StackBytes : ForDecl(n, m)
    BY <1>15, ForDeclKeeps
  <1>16. CASE JumpOut(breaks)
    BY <1>16, BreakKeeps
  <1>17. CASE JumpOut(conts)
    BY <1>17, ContinueKeeps
  <1>18. CASE \E l \in Labels : Labeled(l) \/ Goto(l)
    BY <1>18, LabeledKeeps, GotoKeeps
  <1>19. CASE Else
    BY <1>19, ElseKeeps
  <1>20. CASE EndIf
    BY <1>20, EndIfKeeps
  <1>21. CASE EndWhile
    BY <1>21, EndWhileKeeps
  <1>22. CASE \E n \in StackBytes : EndDo(n)
    BY <1>22, EndDoKeeps
  <1>23. CASE \E n \in StackBytes : EndFor(n)
    BY <1>23, EndForKeeps
  <1>24. CASE Straight
    BY <1>24, StraightKeeps
  <1>25. CASE Jumps
    BY <1>25, JumpsKeeps
  <1>26. CASE Allocate
    BY <1>26, AllocateKeeps
  <1>27. CASE Release
    BY <1>27, ReleaseKeeps
  <1>28. CASE Returns
    BY <1>28, ReturnsKeeps
  <1>29. CASE ReturnDies
    BY <1>29, DieKeeps DEF ReturnDies
  <1>. QED
    BY <1>1, <1>2, <1>3, <1>4, <1>5, <1>6, <1>7, <1>8, <1>9, <1>10, <1>11, <1>12, <1>13,
       <1>14, <1>15, <1>16, <1>17, <1>18, <1>19, <1>20, <1>21, <1>22, <1>23, <1>24, <1>25,
       <1>26, <1>27, <1>28, <1>29 DEF Next

\* In every state there is a plan that fits the generators, their output and the
\* processor.
THEOREM Always == Spec => []IInv
PROOF
  BY Initially, Inductive, PTL DEF Spec

\* The generators, their output and the processor keep their types: indexes and
\* counters never go below zero, whatever the scopes give back.
THEOREM TypeCorrect == Spec => []TypeOK
PROOF
  <1>1. IInv => TypeOK
    <2> SUFFICES ASSUME IInv PROVE TypeOK
      OBVIOUS
    <2>1. PICK q \in Seq(Entry) : Inv(q)
      BY DEF IInv
    <2>2. work = TasksOf(q) /\ code \in Seq(Instr)
      BY <2>1 DEF Inv, Planned, Resolved, Emitted
    <2>3. \A i \in DOMAIN work : work[i].n \in Nat
      <3>1. \A e \in Entry : e.task.n \in Nat
        BY DEF Entry, TaskSet
      <3>2. \A i \in 1 .. Len(q) : q[i] \in Entry
        BY ElementOfSeq
      <3>. QED BY <2>2, <3>1, <3>2 DEF TasksOf
    <2>4. \A i \in DOMAIN code : code[i].op \in Op /\ code[i].by \in Nat /\ code[i].at \in Nat
      <3>1. \A i \in DOMAIN code : code[i] \in Instr
        BY <2>2, ElementOfSeq, LenProperties
      <3>. QED BY <3>1 DEF Instr
    <2>. QED BY <2>3, <2>4 DEF IInv, Typed, TypeOK
  <1>. QED BY <1>1, Always, PTL

\* No label is defined twice, and each jump of a function that was accepted has a
\* label to go to: what labelset.c and the static counters are for.
THEOREM EveryLabelResolves == Spec => []LabelsResolve
PROOF
  <1>1. IInv => LabelsResolve
    <2> SUFFICES ASSUME IInv PROVE LabelsResolve
      OBVIOUS
    <2>1. code \in Seq(Instr) /\ Once(code)
      BY DEF IInv, Inv, Resolved, Emitted
    <2>2. DOMAIN code = 1 .. Len(code)
      BY <2>1, LenProperties
    <2>3. ASSUME phase = "run", NEW l \in JumpLabels PROVE Marks(l) # {}
      <3>1. PICK i \in 1 .. Len(code) : code[i].op \in {"jmp", "branch"} /\ l = code[i].label
        BY <2>2 DEF JumpLabels
      <3>2. PICK j : j = Target(l)
        OBVIOUS
      <3>3. j \in 1 .. Len(code) /\ code[j].op = "label" /\ code[j].label = l
        BY <2>3, <3>1, <3>2, Targets
      <3>. QED BY <2>2, <3>3 DEF Marks
    <2>. QED BY <2>1, <2>2, <2>3 DEF LabelsResolve, Once
  <1>. QED BY <1>1, Always, PTL

\* In a function without goto, labels and calls with arguments on the stack no
\* expression is evaluated with a local variable below %rsp, whichever way break,
\* continue and return leave the scopes.
THEOREM LocalsKept == Spec => []StructuredSafe
PROOF
  <1>1. IInv => StructuredSafe
    <2> SUFFICES ASSUME IInv, uses \subseteq {"loop"}, phase = "run" PROVE depth >= cur.at
      BY DEF StructuredSafe, LocalsSafe
    <2>1. Fits(Discipline, depth, cur.at)
      BY InRun
    <2>2. Discipline >= 1
      BY Disciplines
    <2>. QED BY <2>1, <2>2 DEF Fits
  <1>. QED BY <1>1, Always, PTL

\* In a function without break, continue, goto, labels and calls with arguments on
\* the stack %rsp is always where stack_index says it is (x86.c:26).
THEOREM RspKnown == Spec => []RspExact
PROOF
  <1>1. IInv => RspExact
    <2> SUFFICES ASSUME IInv, uses = {}, phase = "run" PROVE depth = cur.at
      BY DEF RspExact, RspTracked
    <2>1. Fits(Discipline, depth, cur.at)
      BY InRun
    <2>2. Discipline = 2
      BY Disciplines
    <2>. QED BY <2>1, <2>2 DEF Fits
  <1>. QED BY <1>1, Always, PTL

-----------------------------------------------------------------------------
(***************************************************************************)
(* The loops in the work left, and their labels.                           *)
(***************************************************************************)
\* How many loops there are among the first i tasks.
Depth(w, i) == Cardinality(LoopsIn(w, i))

\* v is w with t before it.
On(v, t, w) ==
  /\ Len(w) \in Nat /\ Len(v) = Len(w) + 1 /\ v[1] = t
  /\ \A i \in 1 .. Len(w) : v[i + 1] = w[i]

\* The depth is a number, and zero only without loops.
LEMMA Depths ==
  ASSUME NEW w, NEW i \in Nat
  PROVE  /\ IsFiniteSet(LoopsIn(w, i)) /\ Depth(w, i) \in Nat
         /\ LoopsIn(w, i) # {} => Depth(w, i) >= 1
PROOF
  <1>1. IsFiniteSet(1 .. i)
    BY FS_Interval
  <1>2. LoopsIn(w, i) \in SUBSET (1 .. i)
    BY DEF LoopsIn
  <1>3. IsFiniteSet(LoopsIn(w, i))
    BY <1>1, <1>2, FS_Subset
  <1>4. Depth(w, i) \in Nat
    BY <1>3, FS_CardinalityType DEF Depth
  <1>5. Depth(w, i) = 0 => LoopsIn(w, i) = {}
    BY <1>3, FS_EmptySet DEF Depth
  <1>. QED BY <1>3, <1>4, <1>5

\* A task on top moves the loops down by one.
LEMMA Deeper ==
  ASSUME NEW v, NEW t, NEW w, On(v, t, w), NEW i \in 0 .. Len(w)
  PROVE  Depth(v, i + 1) = Depth(w, i) + IF t.do \in Loops THEN 1 ELSE 0
PROOF
  <1> DEFINE A == LoopsIn(w, i)
             B == LoopsIn(v, i + 1) \ {1}
             h == [j \in A |-> j + 1]
  <1>1. i \in Nat /\ IsFiniteSet(A) /\ Depth(w, i) \in Nat
    <2>1. i \in Nat
      BY DEF On
    <2>. QED BY <2>1, Depths
  <1>2. \A j \in A : j \in 1 .. i /\ j + 1 \in 1 .. i + 1 /\ j + 1 # 1 /\ v[j + 1] = w[j] /\ w[j].do \in Loops
    <2>1. SUFFICES ASSUME NEW j \in A
                   PROVE j \in 1 .. i /\ j + 1 \in 1 .. i + 1 /\ j + 1 # 1 /\ v[j + 1] = w[j] /\ w[j].do \in Loops
      OBVIOUS
    <2>2. j \in 1 .. i /\ w[j].do \in Loops
      BY DEF LoopsIn
    <2>3. j \in 1 .. Len(w) /\ j + 1 \in 1 .. i + 1 /\ j + 1 # 1
      BY <2>2 DEF On
    <2>. QED BY <2>2, <2>3 DEF On
  <1>3. h \in Bijection(A, B)
    <2>1. h \in [A -> B]
      <3>1. \A j \in A : j + 1 \in B
        BY <1>2 DEF LoopsIn
      <3>. QED BY <3>1
    <2>2. \A a, b \in A : h[a] = h[b] => a = b
      BY <1>2
    <2>3. \A y \in B : \E a \in A : h[a] = y
      <3>1. SUFFICES ASSUME NEW y \in B PROVE \E a \in A : h[a] = y
        OBVIOUS
      <3>2. y \in 1 .. i + 1 /\ y # 1 /\ v[y].do \in Loops
        BY DEF LoopsIn
      <3>3. y - 1 \in 1 .. i /\ y - 1 \in 1 .. Len(w) /\ (y - 1) + 1 = y
        BY <1>1, <3>2 DEF On
      <3>4. w[y - 1] = v[y]
        BY <3>3 DEF On
      <3>5. y - 1 \in A
        BY <3>2, <3>3, <3>4 DEF LoopsIn
      <3>. QED BY <3>3, <3>5
    <2>. QED BY <2>1, <2>2, <2>3 DEF Bijection, Injection, Surjection, IsInjective
  <1>4. ExistsBijection(A, B)
    BY <1>3 DEF ExistsBijection
  <1> HIDE DEF A, B, h
  <1>5. IsFiniteSet(B) /\ Cardinality(B) = Depth(w, i)
    BY <1>1, <1>4, FS_Bijection DEF A, Depth
  <1>6. 1 \notin B
    BY DEF B
  <1>7. CASE t.do \in Loops
    <2>1. LoopsIn(v, i + 1) = B \cup {1}
      <3>1. 1 \in 1 .. i + 1
        BY <1>1
      <3>2. 1 \in LoopsIn(v, i + 1)
        BY <1>7, <3>1 DEF LoopsIn, On
      <3>. QED BY <3>2 DEF B
    <2>2. Cardinality(B \cup {1}) = Cardinality(B) + 1
      BY <1>5, <1>6, FS_AddElement
    <2>. QED BY <1>5, <1>7, <2>1, <2>2 DEF Depth
  <1>8. CASE t.do \notin Loops
    <2>1. 1 \notin LoopsIn(v, i + 1)
      BY <1>8 DEF LoopsIn, On
    <2>2. LoopsIn(v, i + 1) = B
      BY <2>1 DEF B
    <2>. QED BY <1>1, <1>5, <1>8, <2>2 DEF Depth
  <1>. QED BY <1>7, <1>8

\* A task that is no loop changes nothing.
LEMMA NestedPlain ==
  ASSUME NEW v, NEW t, NEW w, On(v, t, w), t.do \notin Loops, NEW b, NEW c
  PROVE  Nested(v, b, c) <=> Nested(w, b, c)
PROOF
  <1>1. Len(w) \in Nat /\ Len(v) = Len(w) + 1
    BY DEF On
  <1>2. \A i \in 0 .. Len(w) : Depth(w, i) \in Nat /\ Depth(v, i + 1) = Depth(w, i)
    <2>1. SUFFICES ASSUME NEW i \in 0 .. Len(w)
                   PROVE Depth(w, i) \in Nat /\ Depth(v, i + 1) = Depth(w, i)
      OBVIOUS
    <2>2. i \in Nat
      BY <1>1
    <2>3. Depth(w, i) \in Nat
      BY <2>2, Depths
    <2>4. Depth(v, i + 1) = Depth(w, i) + 0
      BY Deeper
    <2>. QED BY <2>3, <2>4
  <1>3. \A i : i \in LoopsIn(w, Len(w)) => i \in 0 .. Len(w) /\ v[i + 1] = w[i] /\ i + 1 \in LoopsIn(v, Len(v))
    BY <1>1 DEF LoopsIn, On
  <1>4. \A j : j \in LoopsIn(v, Len(v)) => j - 1 \in LoopsIn(w, Len(w)) /\ (j - 1) + 1 = j
    <2>1. SUFFICES ASSUME NEW j \in LoopsIn(v, Len(v))
                   PROVE  j - 1 \in LoopsIn(w, Len(w)) /\ (j - 1) + 1 = j
      OBVIOUS
    <2>2. j \in 1 .. Len(v) /\ v[j].do \in Loops
      BY DEF LoopsIn
    <2>3. j # 1
      BY <2>2 DEF On
    <2>4. j - 1 \in 1 .. Len(w) /\ (j - 1) + 1 = j
      BY <1>1, <2>2, <2>3
    <2>5. w[j - 1] = v[j]
      BY <2>4 DEF On
    <2>. QED BY <2>2, <2>4, <2>5 DEF LoopsIn
  <1>5. Depth(v, Len(v)) = Depth(w, Len(w))
    BY <1>1, <1>2
  <1>6. ASSUME Nested(w, b, c) PROVE Nested(v, b, c)
    <2>1. Len(b) = Depth(v, Len(v)) /\ Len(c) = Len(b)
      BY <1>5, <1>6 DEF Nested, Depth
    <2>2. ASSUME NEW j \in LoopsIn(v, Len(v))
          PROVE  b[Depth(v, j)] = <<"end", v[j].n>> /\ c[Depth(v, j)][2] = v[j].n
      <3>1. PICK i : i \in LoopsIn(w, Len(w)) /\ i + 1 = j
        BY <1>4
      <3>2. i \in 0 .. Len(w) /\ v[j] = w[i]
        BY <1>3, <3>1
      <3>3. Depth(v, j) = Depth(w, i)
        BY <1>2, <3>1, <3>2
      <3>4. b[Depth(w, i)] = <<"end", w[i].n>> /\ c[Depth(w, i)][2] = w[i].n
        BY <1>6, <3>1 DEF Nested, Depth
      <3>. QED BY <3>2, <3>3, <3>4
    <2>. QED BY <2>1, <2>2 DEF Nested, Depth
  <1>7. ASSUME Nested(v, b, c) PROVE Nested(w, b, c)
    <2>1. Len(b) = Depth(w, Len(w)) /\ Len(c) = Len(b)
      BY <1>5, <1>7 DEF Nested, Depth
    <2>2. ASSUME NEW i \in LoopsIn(w, Len(w))
          PROVE  b[Depth(w, i)] = <<"end", w[i].n>> /\ c[Depth(w, i)][2] = w[i].n
      <3>1. PICK j : j = i + 1
        OBVIOUS
      <3>2. i \in 0 .. Len(w) /\ v[j] = w[i] /\ j \in LoopsIn(v, Len(v))
        BY <1>3, <3>1
      <3>3. Depth(v, j) = Depth(w, i)
        BY <1>2, <3>1, <3>2
      <3>4. b[Depth(v, j)] = <<"end", v[j].n>> /\ c[Depth(v, j)][2] = v[j].n
        BY <1>7, <3>2 DEF Nested, Depth
      <3>. QED BY <3>2, <3>3, <3>4
    <2>. QED BY <2>1, <2>2 DEF Nested, Depth
  <1>. QED BY <1>6, <1>7

\* A loop has its labels on top.
LEMMA NestedLoop ==
  ASSUME NEW v, NEW t, NEW w, On(v, t, w), t.do \in Loops,
         NEW d, NEW x, NEW b, On(d, x, b), NEW e, NEW y, NEW c, On(e, y, c)
  PROVE  Nested(v, d, e) <=> Nested(w, b, c) /\ x = <<"end", t.n>> /\ y[2] = t.n
PROOF
  <1>1. /\ Len(w) \in Nat /\ Len(v) = Len(w) + 1 /\ Len(b) \in Nat /\ Len(d) = Len(b) + 1
        /\ Len(c) \in Nat /\ Len(e) = Len(c) + 1 /\ v[1] = t /\ d[1] = x /\ e[1] = y
    BY DEF On
  <1>2. \A i \in 0 .. Len(w) : Depth(w, i) \in Nat /\ Depth(v, i + 1) = Depth(w, i) + 1
    <2>1. SUFFICES ASSUME NEW i \in 0 .. Len(w)
                   PROVE Depth(w, i) \in Nat /\ Depth(v, i + 1) = Depth(w, i) + 1
      OBVIOUS
    <2>2. i \in Nat
      BY <1>1
    <2>3. Depth(w, i) \in Nat
      BY <2>2, Depths
    <2>4. Depth(v, i + 1) = Depth(w, i) + 1
      BY Deeper
    <2>. QED BY <2>3, <2>4
  <1>3. \A i : i \in LoopsIn(w, Len(w)) => i \in 0 .. Len(w) /\ v[i + 1] = w[i] /\ i + 1 \in LoopsIn(v, Len(v))
    BY <1>1 DEF LoopsIn, On
  <1>4. \A j : j \in LoopsIn(v, Len(v)) => j = 1 \/ (j - 1 \in LoopsIn(w, Len(w)) /\ (j - 1) + 1 = j)
    <2>1. SUFFICES ASSUME NEW j \in LoopsIn(v, Len(v)), j # 1
                   PROVE  j - 1 \in LoopsIn(w, Len(w)) /\ (j - 1) + 1 = j
      OBVIOUS
    <2>2. j \in 1 .. Len(v) /\ v[j].do \in Loops
      BY DEF LoopsIn
    <2>3. j - 1 \in 1 .. Len(w) /\ (j - 1) + 1 = j
      BY <1>1, <2>1, <2>2
    <2>4. w[j - 1] = v[j]
      BY <2>3 DEF On
    <2>. QED BY <2>2, <2>3, <2>4 DEF LoopsIn
  <1>5. Depth(v, Len(v)) = Depth(w, Len(w)) + 1 /\ Depth(w, Len(w)) \in Nat
    BY <1>1, <1>2
  <1>6. 1 \in LoopsIn(v, Len(v)) /\ Depth(v, 1) = 1
    <2>1. 1 \in LoopsIn(v, Len(v))
      BY <1>1 DEF LoopsIn
    <2>2. LoopsIn(w, 0) = {}
      BY DEF LoopsIn
    <2>3. Depth(w, 0) = 0
      BY <2>2, FS_EmptySet DEF Depth
    <2>4. 0 \in 0 .. Len(w)
      BY <1>1
    <2>5. Depth(v, 0 + 1) = Depth(w, 0) + 1
      BY <1>2, <2>4
    <2>. QED BY <2>1, <2>3, <2>5
  \* the depth of a loop of w is a position on its stack
  <1>7. \A i \in LoopsIn(w, Len(w)) : Depth(w, i) \in 1 .. Depth(w, Len(w))
    <2>1. SUFFICES ASSUME NEW i \in LoopsIn(w, Len(w)) PROVE Depth(w, i) \in 1 .. Depth(w, Len(w))
      OBVIOUS
    <2>2. i \in 1 .. Len(w) /\ i \in Nat /\ i \in LoopsIn(w, i)
      BY <1>1 DEF LoopsIn
    <2>3. Depth(w, i) \in Nat /\ Depth(w, i) >= 1
      BY <2>2, Depths
    <2>4. LoopsIn(w, i) \in SUBSET LoopsIn(w, Len(w))
      BY <1>1, <2>2 DEF LoopsIn
    <2>5. IsFiniteSet(LoopsIn(w, Len(w)))
      BY <1>1, Depths
    <2>6. Depth(w, i) <= Depth(w, Len(w))
      BY <2>4, <2>5, FS_Subset DEF Depth
    <2>. QED BY <1>5, <2>3, <2>6
  <1>8. ASSUME Nested(w, b, c), x = <<"end", t.n>>, y[2] = t.n PROVE Nested(v, d, e)
    <2>1. Len(b) = Depth(w, Len(w)) /\ Len(c) = Len(b)
      BY <1>8 DEF Nested, Depth
    <2>2. Len(d) = Depth(v, Len(v)) /\ Len(e) = Len(d)
      BY <1>1, <1>5, <2>1
    <2>3. ASSUME NEW j \in LoopsIn(v, Len(v)), j # 1
          PROVE  d[Depth(v, j)] = <<"end", v[j].n>> /\ e[Depth(v, j)][2] = v[j].n
      <3>1. PICK i : i \in LoopsIn(w, Len(w)) /\ i + 1 = j
        BY <1>4, <2>3
      <3>2. i \in 0 .. Len(w) /\ v[j] = w[i]
        BY <1>3, <3>1
      <3>3. Depth(v, j) = Depth(w, i) + 1
        BY <1>2, <3>1, <3>2
      <3>4. b[Depth(w, i)] = <<"end", w[i].n>> /\ c[Depth(w, i)][2] = w[i].n
        BY <1>8, <3>1 DEF Nested, Depth
      <3>5. Depth(w, i) \in 1 .. Len(b) /\ Depth(w, i) \in 1 .. Len(c)
        BY <1>7, <2>1, <3>1
      <3>6. d[Depth(w, i) + 1] = b[Depth(w, i)] /\ e[Depth(w, i) + 1] = c[Depth(w, i)]
        BY <3>5 DEF On
      <3>. QED BY <3>2, <3>3, <3>4, <3>6
    <2>4. d[Depth(v, 1)] = <<"end", v[1].n>> /\ e[Depth(v, 1)][2] = v[1].n
      BY <1>1, <1>6, <1>8
    <2>5. \A j \in LoopsIn(v, Len(v)) : d[Depth(v, j)] = <<"end", v[j].n>> /\ e[Depth(v, j)][2] = v[j].n
      BY <2>3, <2>4
    <2>. QED BY <2>2, <2>5 DEF Nested, Depth
  <1>9. ASSUME Nested(v, d, e) PROVE Nested(w, b, c) /\ x = <<"end", t.n>> /\ y[2] = t.n
    <2>1. Len(d) = Depth(v, Len(v)) /\ Len(e) = Len(d)
      BY <1>9 DEF Nested, Depth
    <2>2. Len(b) = Depth(w, Len(w)) /\ Len(c) = Len(b)
      BY <1>1, <1>5, <2>1
    <2>3. d[Depth(v, 1)] = <<"end", v[1].n>> /\ e[Depth(v, 1)][2] = v[1].n
      BY <1>6, <1>9 DEF Nested, Depth
    <2>4. x = <<"end", t.n>> /\ y[2] = t.n
      BY <1>1, <1>6, <2>3
    <2>5. ASSUME NEW i \in LoopsIn(w, Len(w))
          PROVE  b[Depth(w, i)] = <<"end", w[i].n>> /\ c[Depth(w, i)][2] = w[i].n
      <3>1. PICK j : j = i + 1
        OBVIOUS
      <3>2. i \in 0 .. Len(w) /\ v[j] = w[i] /\ j \in LoopsIn(v, Len(v))
        BY <1>3, <3>1
      <3>3. Depth(v, j) = Depth(w, i) + 1
        BY <1>2, <3>1, <3>2
      <3>4. d[Depth(v, j)] = <<"end", v[j].n>> /\ e[Depth(v, j)][2] = v[j].n
        BY <1>9, <3>2 DEF Nested, Depth
      <3>5. Depth(w, i) \in 1 .. Len(b) /\ Depth(w, i) \in 1 .. Len(c)
        BY <1>7, <2>2
      <3>6. d[Depth(w, i) + 1] = b[Depth(w, i)] /\ e[Depth(w, i) + 1] = c[Depth(w, i)]
        BY <3>5 DEF On
      <3>. QED BY <3>2, <3>3, <3>4, <3>6
    <2>. QED BY <2>2, <2>4, <2>5 DEF Nested, Depth
  <1>. QED BY <1>8, <1>9

-----------------------------------------------------------------------------
(***************************************************************************)
(* The innermost loop.                                                     *)
(***************************************************************************)
Bound == phase \in {"start", "gen", "run"} => Nested(work, breaks, conts)

\* A sequence is its head on its tail; a push is on what was there.
LEMMA OnTail ==
  ASSUME NEW S, NEW s \in Seq(S), s # <<>>
  PROVE  On(s, Head(s), Tail(s)) /\ Tail(s) \in Seq(S)
PROOF
  <1>1. /\ Head(s) = s[1] /\ Tail(s) \in Seq(S) /\ Len(Tail(s)) = Len(s) - 1
        /\ \A i \in 1 .. Len(s) - 1 : Tail(s)[i] = s[i + 1]
    BY HeadTailProperties
  <1>2. Len(s) \in Nat \ {0} /\ Len(Tail(s)) \in Nat
    BY <1>1, EmptySeq, LenProperties
  <1>. QED BY <1>1, <1>2 DEF On

LEMMA OnPush ==
  ASSUME NEW S, NEW x \in S, NEW s \in Seq(S)
  PROVE  On(<<x>> \o s, x, s) /\ <<x>> \o s \in Seq(S)
PROOF
  <1>1. Len(s) \in Nat
    BY LenProperties
  <1>. QED BY <1>1, Pushed DEF On

\* The work and the stacks are sequences.
LEMMA WorkIsSeq ==
  ASSUME IInv
  PROVE  /\ work \in Seq(TaskSet) /\ breaks \in Seq(LoopLabel) /\ conts \in Seq(LoopLabel)
         /\ nr \in Nat /\ idx \in Nat
         /\ phase = "gen" => work # <<>>
         /\ phase = "start" => work = <<>> /\ breaks = <<>> /\ conts = <<>>
PROOF
  <1>1. PICK q \in Seq(Entry) : Inv(q)
    BY DEF IInv
  <1>2. /\ work = TasksOf(q)
        /\ phase = "gen" => q # <<>>
        /\ phase = "start" => q = <<>>
    BY <1>1 DEF Inv, Planned
  <1>3. Len(q) \in Nat /\ \A i \in 1 .. Len(q) : q[i].task \in TaskSet
    <2>1. \A e \in Entry : e.task \in TaskSet
      BY DEF Entry
    <2>. QED BY <2>1, ElementOfSeq, LenProperties
  <1>4. work \in Seq(TaskSet) /\ Len(work) = Len(q)
    BY <1>2, <1>3, IsASeq DEF TasksOf
  <1>5. q # <<>> => work # <<>>
    BY <1>3, <1>4, EmptySeq
  <1>. QED BY <1>2, <1>4, <1>5, NoneLeft DEF IInv, Typed, Runs

\* Tasks that are no loops are put on the work.
LEMMA PutsPlain ==
  ASSUME NEW w \in Seq(TaskSet), NEW b, NEW c, Nested(w, b, c), NEW t \in TaskSet, t.do \notin Loops
  PROVE  <<t>> \o w \in Seq(TaskSet) /\ Nested(<<t>> \o w, b, c)
PROOF
  <1>1. PICK v : v = <<t>> \o w
    OBVIOUS
  <1>2. On(v, t, w) /\ v \in Seq(TaskSet)
    BY <1>1, OnPush
  <1>3. Nested(v, b, c)
    BY <1>2, NestedPlain
  <1>. QED BY <1>1, <1>2, <1>3

\* .. and a loop.
LEMMA PutsLoop ==
  ASSUME NEW w \in Seq(TaskSet), NEW b \in Seq(LoopLabel), NEW c \in Seq(LoopLabel),
         Nested(w, b, c), NEW t \in TaskSet, t.do \in Loops, NEW k \in Kinds
  PROVE  /\ <<t>> \o w \in Seq(TaskSet)
         /\ Nested(<<t>> \o w, <<<<"end", t.n>>>> \o b, <<<<k, t.n>>>> \o c)
PROOF
  <1>1. PICK v : v = <<t>> \o w
    OBVIOUS
  <1>2. PICK x : x = <<"end", t.n>>
    OBVIOUS
  <1>3. PICK y : y = <<k, t.n>>
    OBVIOUS
  <1>4. PICK d : d = <<x>> \o b
    OBVIOUS
  <1>5. PICK e : e = <<y>> \o c
    OBVIOUS
  <1>6. x \in LoopLabel /\ y \in LoopLabel /\ y[2] = t.n
    BY <1>2, <1>3 DEF LoopLabel, Kinds, TaskSet
  <1>7. On(v, t, w) /\ v \in Seq(TaskSet)
    BY <1>1, OnPush
  <1>8. On(d, x, b)
    BY <1>4, <1>6, OnPush
  <1>9. On(e, y, c)
    BY <1>5, <1>6, OnPush
  <1>10. Nested(v, d, e)
    BY <1>2, <1>6, <1>7, <1>8, <1>9, NestedLoop
  <1>. QED BY <1>1, <1>2, <1>3, <1>4, <1>5, <1>7, <1>10

\* The task at hand is taken from the work.
LEMMA Takes ==
  ASSUME IInv, Bound, phase = "gen"
  PROVE  /\ Tail(work) \in Seq(TaskSet) /\ Head(work) \in TaskSet
         /\ Head(work).do \notin Loops => Nested(Tail(work), breaks, conts)
         /\ Head(work).do \in Loops => Nested(Tail(work), Tail(breaks), Tail(conts))
PROOF
  <1>1. /\ work \in Seq(TaskSet) /\ work # <<>> /\ Nested(work, breaks, conts)
        /\ breaks \in Seq(LoopLabel) /\ conts \in Seq(LoopLabel)
    BY WorkIsSeq DEF Bound
  <1>2. On(work, Head(work), Tail(work)) /\ Tail(work) \in Seq(TaskSet) /\ Head(work) \in TaskSet
    BY <1>1, OnTail, HeadTailProperties
  <1>3. ASSUME Head(work).do \notin Loops PROVE Nested(Tail(work), breaks, conts)
    BY <1>1, <1>2, <1>3, NestedPlain
  <1>4. ASSUME Head(work).do \in Loops PROVE Nested(Tail(work), Tail(breaks), Tail(conts))
    <2>1. Len(breaks) = Depth(work, Len(work)) /\ Len(conts) = Len(breaks)
      BY <1>1 DEF Nested, Depth
    <2>2. Len(work) \in Nat /\ 1 \in LoopsIn(work, Len(work))
      <3>1. Len(work) \in Nat \ {0} /\ work[1] = Head(work)
        BY <1>2 DEF On
      <3>. QED BY <1>4, <3>1 DEF LoopsIn
    <2>3. Len(breaks) >= 1 /\ Len(conts) >= 1
      BY <2>1, <2>2, Depths
    <2>4. breaks # <<>> /\ conts # <<>>
      BY <2>3
    <2>5. On(breaks, Head(breaks), Tail(breaks)) /\ On(conts, Head(conts), Tail(conts))
      BY <1>1, <2>4, OnTail
    <2>. QED BY <1>1, <1>2, <1>4, <2>5, NestedLoop
  <1>. QED BY <1>2, <1>3, <1>4

\* The tasks that are put on the work.
LEMMA TasksPut ==
  /\ {Statement, Item, Items} \subseteq TaskSet
  /\ \A t \in {Statement, Item, Items} : t.do \notin Loops
  /\ \A k \in {"if_end", "else", "close", "end_function"}, n \in Nat :
       Task(k, n) \in TaskSet /\ Task(k, n).do \notin Loops
  /\ \A k \in Loops, n \in Nat :
       Task(k, n) \in TaskSet /\ Task(k, n).do \in Loops /\ Task(k, n).n = n
PROOF
  BY DEF Statement, Item, Items, Task, TaskSet, Tasks, Loops

\* A statement, or the end of one that is no loop, leaves the stacks alone.
LEMMA LeavesLoops ==
  ASSUME IInv, Bound, phase = "gen", Head(work).do \notin Loops, breaks' = breaks, conts' = conts,
         \/ work' = Tail(work)
         \/ work' = <<Item>> \o Tail(work)
         \/ work' = <<Item, Items>> \o Tail(work)
         \/ work' = <<Items, Task("close", idx)>> \o Tail(work)
         \/ work' = <<Statement, Task("if_end", nr)>> \o Tail(work)
         \/ work' = <<Statement, Task("else", nr), Statement, Task("if_end", nr)>> \o Tail(work)
  PROVE  Bound'
PROOF
  <1> DEFINE w == Tail(work)
             Y == Task("close", idx)
             X == Task("if_end", nr)
             Z == Task("else", nr)
  <1>1. w \in Seq(TaskSet) /\ Nested(w, breaks, conts) /\ idx \in Nat /\ nr \in Nat
    BY Takes, WorkIsSeq
  <1>2. \A t \in {Statement, Item, Items, Y, X, Z} : t \in TaskSet /\ t.do \notin Loops
    BY <1>1, TasksPut
  <1> HIDE DEF w, Y, X, Z
  <1>3. \A t \in {Statement, Item, Items, Y, X, Z} :
          <<t>> \o w \in Seq(TaskSet) /\ Nested(<<t>> \o w, breaks, conts)
    BY <1>1, <1>2, PutsPlain
  <1>4. \A t, u \in {Statement, Item, Items, Y, X, Z} :
          /\ <<t>> \o (<<u>> \o w) \in Seq(TaskSet)
          /\ Nested(<<t>> \o (<<u>> \o w), breaks, conts)
    <2> TAKE t, u \in {Statement, Item, Items, Y, X, Z}
    <2>1. PICK v : v = <<u>> \o w
      OBVIOUS
    <2>2. v \in Seq(TaskSet) /\ Nested(v, breaks, conts) /\ t \in TaskSet /\ t.do \notin Loops
      BY <1>2, <1>3, <2>1
    <2>3. <<t>> \o v \in Seq(TaskSet) /\ Nested(<<t>> \o v, breaks, conts)
      BY <2>2, PutsPlain
    <2>. QED BY <2>1, <2>3
  <1>5. Nested(<<Statement, Z, Statement, X>> \o w, breaks, conts)
    <2>1. PICK v : v = <<Statement>> \o (<<X>> \o w)
      OBVIOUS
    <2>2. v \in Seq(TaskSet) /\ Nested(v, breaks, conts)
      BY <1>4, <2>1
    <2>3. PICK u : u = <<Z>> \o v
      OBVIOUS
    <2>4. u \in Seq(TaskSet) /\ Nested(u, breaks, conts)
      BY <1>2, <2>2, <2>3, PutsPlain
    <2>5. Nested(<<Statement>> \o u, breaks, conts)
      BY <1>2, <2>4, PutsPlain
    <2>6. <<Statement, Z, Statement, X>> \o w = <<Statement>> \o u
      <3>1. w \in Seq(TaskSet) /\ Statement \in TaskSet /\ Z \in TaskSet /\ X \in TaskSet
        BY <1>1, <1>2
      <3>2. \A a, b, d, e \in TaskSet :
              <<a, b, d, e>> \o w = <<a>> \o (<<b>> \o (<<d>> \o (<<e>> \o w)))
        BY <3>1, Groups
      <3>3. <<Statement, Z, Statement, X>> \o w = <<Statement>> \o (<<Z>> \o (<<Statement>> \o (<<X>> \o w)))
        BY <3>1, <3>2, ZenonT(60)
      <3>. QED BY <2>1, <2>3, <3>3
    <2>. QED BY <2>5, <2>6
  <1>6. \A t, u \in {Statement, Item, Items, Y, X, Z} : Nested(<<t, u>> \o w, breaks, conts)
    <2>1. \A t, u \in TaskSet : <<t, u>> \o w = <<t>> \o (<<u>> \o w)
      BY <1>1, Groups
    <2>. QED BY <1>2, <1>4, <2>1
  <1>7. Nested(work', breaks, conts)
    <2>1. \/ work' = w \/ work' = <<Item>> \o w \/ work' = <<Item, Items>> \o w
          \/ work' = <<Items, Y>> \o w \/ work' = <<Statement, X>> \o w
          \/ work' = <<Statement, Z, Statement, X>> \o w
      BY DEF w, Y, X, Z
    <2>. QED BY <1>1, <1>3, <1>5, <1>6, <2>1
  <1>. QED BY <1>7 DEF Bound

\* A loop is entered, ..
LEMMA EntersLoop ==
  ASSUME IInv, Bound, AtStatement, NEW do \in Loops, NEW k \in Kinds, EnterLoop(k),
         \/ work' = <<Statement, Task(do, nr)>> \o Tail(work)
         \/ work' = <<Statement, Task(do, nr), Task("close", idx)>> \o Tail(work)
  PROVE  Bound'
PROOF
  <1> DEFINE w == Tail(work)
             Y == Task("close", idx)
             X == Task(do, nr)
  <1>1. phase = "gen" /\ Head(work).do \notin Loops
    BY DEF AtStatement, At, Loops
  <1>2. /\ w \in Seq(TaskSet) /\ Nested(w, breaks, conts) /\ idx \in Nat /\ nr \in Nat
        /\ breaks \in Seq(LoopLabel) /\ conts \in Seq(LoopLabel)
    BY <1>1, Takes, WorkIsSeq
  <1>3. breaks' = <<<<"end", nr>>>> \o breaks /\ conts' = <<<<k, nr>>>> \o conts
    BY DEF EnterLoop
  <1>4. /\ Statement \in TaskSet /\ Statement.do \notin Loops /\ Y \in TaskSet /\ Y.do \notin Loops
        /\ X \in TaskSet /\ X.do \in Loops /\ X.n = nr
    BY <1>2, TasksPut
  <1> HIDE DEF w, Y, X
  <1>5. ASSUME NEW u, u \in Seq(TaskSet), Nested(u, breaks, conts)
        PROVE  Nested(<<Statement>> \o (<<X>> \o u), breaks', conts')
    <2>1. PICK v : v = <<X>> \o u
      OBVIOUS
    <2>2. v \in Seq(TaskSet) /\ Nested(v, <<<<"end", X.n>>>> \o breaks, <<<<k, X.n>>>> \o conts)
      BY <1>2, <1>4, <1>5, <2>1, PutsLoop
    <2>3. Nested(v, breaks', conts')
      BY <1>3, <1>4, <2>2
    <2>4. Nested(<<Statement>> \o v, breaks', conts')
      BY <1>4, <2>2, <2>3, PutsPlain
    <2>. QED BY <2>1, <2>4
  <1>6. CASE work' = <<Statement, X>> \o w
    <2>1. work' = <<Statement>> \o (<<X>> \o w)
      <3>1. w \in Seq(TaskSet) /\ Statement \in TaskSet /\ X \in TaskSet
        BY <1>2, <1>4
      <3>2. \A a, b \in TaskSet : <<a, b>> \o w = <<a>> \o (<<b>> \o w)
        BY <3>1, Groups
      <3>3. <<Statement, X>> \o w = <<Statement>> \o (<<X>> \o w)
        BY <3>1, <3>2, Zenon
      <3>. QED BY <1>6, <3>3
    <2>2. Nested(work', breaks', conts')
      BY <1>2, <1>5, <2>1
    <2>. QED BY <2>2 DEF Bound
  <1>7. CASE work' = <<Statement, X, Y>> \o w
    <2>1. PICK u : u = <<Y>> \o w
      OBVIOUS
    <2>2. u \in Seq(TaskSet) /\ Nested(u, breaks, conts)
      BY <1>2, <1>4, <2>1, PutsPlain
    <2>3. work' = <<Statement>> \o (<<X>> \o u)
      <3>1. w \in Seq(TaskSet) /\ Statement \in TaskSet /\ X \in TaskSet /\ Y \in TaskSet
        BY <1>2, <1>4
      <3>2. \A a, b, d \in TaskSet : <<a, b, d>> \o w = <<a>> \o (<<b>> \o (<<d>> \o w))
        BY <3>1, Groups
      <3>3. <<Statement, X, Y>> \o w = <<Statement>> \o (<<X>> \o (<<Y>> \o w))
        BY <3>1, <3>2, Zenon
      <3>. QED BY <1>7, <2>1, <3>3
    <2>4. Nested(work', breaks', conts')
      BY <1>5, <2>2, <2>3
    <2>. QED BY <2>4 DEF Bound
  <1>. QED BY <1>6, <1>7 DEF w, Y, X

\* .. and left.
LEMMA LeavesLoop ==
  ASSUME IInv, Bound, phase = "gen", Head(work).do \in Loops, work' = Tail(work),
         breaks' = Tail(breaks), conts' = Tail(conts)
  PROVE  Bound'
PROOF
  BY Takes DEF Bound

\* The empty function.
LEMMA NoLoops == Nested(<<>>, <<>>, <<>>)
PROOF
  <1>1. LoopsIn(<<>>, Len(<<>>)) = {}
    BY DEF LoopsIn
  <1>. QED BY <1>1, FS_EmptySet DEF Nested

\* A function starts without loops.
LEMMA StartsBound ==
  ASSUME IInv, Bound, NEW k, StartFunction(k)
  PROVE  Bound'
PROOF
  <1> DEFINE Y == Task("close", 0)
             X == Task("end_function", 0)
  <1>1. /\ phase = "start" /\ breaks' = breaks /\ conts' = conts
        /\ work' = <<Items, Y, X>>
    BY DEF StartFunction
  <1>2. breaks = <<>> /\ conts = <<>> /\ <<>> \in Seq(TaskSet)
    BY <1>1, WorkIsSeq
  <1>3. /\ Items \in TaskSet /\ Items.do \notin Loops /\ Y \in TaskSet /\ Y.do \notin Loops
        /\ X \in TaskSet /\ X.do \notin Loops
    BY TasksPut
  <1> HIDE DEF Y, X
  <1>4. PICK u : u = <<X>> \o <<>>
    OBVIOUS
  <1>5. u \in Seq(TaskSet) /\ Nested(u, <<>>, <<>>)
    BY <1>2, <1>3, <1>4, NoLoops, PutsPlain
  <1>6. PICK v : v = <<Y>> \o u
    OBVIOUS
  <1>7. v \in Seq(TaskSet) /\ Nested(v, <<>>, <<>>)
    BY <1>3, <1>5, <1>6, PutsPlain
  <1>8. Nested(<<Items>> \o v, <<>>, <<>>)
    BY <1>3, <1>7, PutsPlain
  <1>9. <<Items, Y, X>> \o <<>> = <<Items>> \o v
    <2>1. <<>> \in Seq(TaskSet) /\ Items \in TaskSet /\ Y \in TaskSet /\ X \in TaskSet
      BY <1>2, <1>3
    <2>2. \A a, b, d \in TaskSet : <<a, b, d>> \o <<>> = <<a>> \o (<<b>> \o (<<d>> \o <<>>))
      BY <2>1, Groups
    <2>3. <<Items, Y, X>> \o <<>> = <<Items>> \o (<<Y>> \o (<<X>> \o <<>>))
      BY <2>1, <2>2, Zenon
    <2>. QED BY <1>4, <1>6, <2>3
  <1>10. <<Items, Y, X>> \o <<>> = <<Items, Y, X>>
    <2>1. <<Items, Y, X>> \in Seq(TaskSet)
      BY <1>3
    <2>. QED BY <2>1, ConcatEmptySeq
  <1>. QED BY <1>1, <1>2, <1>8, <1>9, <1>10 DEF Bound

\* Every step keeps the stacks as deep as the loops are.
LEMMA BoundKept == IInv /\ Bound /\ [Next]_vars => Bound'
PROOF
  <1> SUFFICES ASSUME IInv, Bound, [Next]_vars PROVE Bound'
    OBVIOUS
  <1>1. CASE UNCHANGED vars
    BY <1>1 DEF Bound, vars, ctx
  <1>2. CASE \E k \in 0 .. MaxParams : StartFunction(k)
    BY <1>2, StartsBound
  <1>3. CASE Die
    BY <1>3 DEF Die, Bound
  <1>4. CASE EndFunction
    <2>1. CASE Die
      BY <1>3, <2>1
    <2>2. CASE ~Die
      <3>1. phase = "gen" /\ Head(work).do \notin Loops /\ work' = Tail(work)
            /\ breaks' = breaks /\ conts' = conts
        BY <1>4, <2>2 DEF EndFunction, At, Loops, ctx
      <3>. QED BY <3>1, LeavesLoops
    <2>. QED BY <2>1, <2>2
  <1>5. CASE NextItem
    <2>1. /\ phase = "gen" /\ Head(work).do \notin Loops /\ breaks' = breaks /\ conts' = conts
          /\ work' = <<Item, Items>> \o Tail(work) \/ work' = <<>> \o Tail(work)
      BY <1>5 DEF NextItem, At, Emit, Loops, ctx
    <2>. QED BY <2>1, Takes, Groups, LeavesLoops
  <1>6. CASE CloseScope
    <2>1. /\ phase = "gen" /\ Head(work).do \notin Loops /\ breaks' = breaks /\ conts' = conts
          /\ work' = <<>> \o Tail(work)
      BY <1>6 DEF CloseScope, At, Emit, Loops
    <2>. QED BY <2>1, Takes, Groups, LeavesLoops
  <1>7. ASSUME NEW n, VarDecl(n) PROVE Bound'
    <2>1. /\ phase = "gen" /\ Head(work).do \notin Loops /\ breaks' = breaks /\ conts' = conts
          /\ work' = <<>> \o Tail(work)
      BY <1>7 DEF VarDecl, At, Emit, Loops
    <2>. QED BY <2>1, Takes, Groups, LeavesLoops
  <1>8. ASSUME NEW n, Expression(n) PROVE Bound'
    <2>1. /\ phase = "gen" /\ Head(work).do \notin Loops /\ breaks' = breaks /\ conts' = conts
          /\ work' = <<>> \o Tail(work)
      BY <1>8 DEF Expression, At, Emit, Loops, ctx
    <2>. QED BY <2>1, Takes, Groups, LeavesLoops
  <1>9. ASSUME NEW n, Return(n) PROVE Bound'
    <2>1. /\ phase = "gen" /\ Head(work).do \notin Loops /\ breaks' = breaks /\ conts' = conts
          /\ work' = <<>> \o Tail(work)
      BY <1>9 DEF Return, AtStatement, At, Emit, Loops
    <2>. QED BY <2>1, Takes, Groups, LeavesLoops
  <1>10. CASE Block
    <2>1. /\ phase = "gen" /\ Head(work).do \notin Loops /\ breaks' = breaks /\ conts' = conts
          /\ work' = (<<Items>> \o <<Task("close", idx)>>) \o Tail(work)
      BY <1>10 DEF Block, AtStatement, At, Emit, Loops, Scope
    <2>2. <<Items>> \o <<Task("close", idx)>> = <<Items, Task("close", idx)>>
      <3>1. Items \in TaskSet /\ Task("close", idx) \in TaskSet
        BY WorkIsSeq, TasksPut
      <3>. QED BY <3>1, Two
    <2>3. work' = <<Items, Task("close", idx)>> \o Tail(work)
      BY <2>1, <2>2
    <2>. QED BY <2>1, <2>3, LeavesLoops
  <1>11. ASSUME NEW n, If(n) PROVE Bound'
    <2>1. /\ phase = "gen" /\ Head(work).do \notin Loops /\ breaks' = breaks /\ conts' = conts
          /\ work' = <<Statement, Task("if_end", nr)>> \o Tail(work)
      BY <1>11 DEF If, AtStatement, At, Emit, Loops
    <2>. QED BY <2>1, LeavesLoops
  <1>12. ASSUME NEW n, IfElse(n) PROVE Bound'
    <2>1. /\ phase = "gen" /\ Head(work).do \notin Loops /\ breaks' = breaks /\ conts' = conts
          /\ work' = <<Statement, Task("else", nr), Statement, Task("if_end", nr)>> \o Tail(work)
      BY <1>12 DEF IfElse, AtStatement, At, Emit, Loops
    <2>. QED BY <2>1, LeavesLoops
  <1>13. ASSUME NEW n, While(n) PROVE Bound'
    <2>1. AtStatement /\ EnterLoop("start") /\ work' = <<Statement, Task("end_while", nr)>> \o Tail(work)
      BY <1>13 DEF While, Emit
    <2>2. "end_while" \in Loops /\ "start" \in Kinds
      BY DEF Loops, Kinds
    <2>. QED BY <2>1, <2>2, EntersLoop
  <1>14. CASE Do
    <2>1. AtStatement /\ EnterLoop("condition") /\ work' = <<Statement, Task("end_do", nr)>> \o Tail(work)
      BY <1>14 DEF Do, Emit
    <2>2. "end_do" \in Loops /\ "condition" \in Kinds
      BY DEF Loops, Kinds
    <2>. QED BY <2>1, <2>2, EntersLoop
  <1>15. ASSUME NEW n, NEW m, For(n, m) PROVE Bound'
    <2>1. AtStatement /\ EnterLoop("epilogue") /\ work' = <<Statement, Task("end_for", nr)>> \o Tail(work)
      BY <1>15 DEF For, Emit
    <2>2. "end_for" \in Loops /\ "epilogue" \in Kinds
      BY DEF Loops, Kinds
    <2>. QED BY <2>1, <2>2, EntersLoop
  <1>16. ASSUME NEW n, NEW m, ForDecl(n, m) PROVE Bound'
    <2>1. /\ AtStatement /\ EnterLoop("epilogue")
          /\ work' = (<<Statement, Task("end_for", nr)>> \o <<Task("close", idx)>>) \o Tail(work)
      BY <1>16 DEF ForDecl, Emit, Scope
    <2>2. "end_for" \in Loops /\ "epilogue" \in Kinds
      BY DEF Loops, Kinds
    <2>3. Statement \in TaskSet /\ Task("end_for", nr) \in TaskSet /\ Task("close", idx) \in TaskSet
      BY <2>2, WorkIsSeq, TasksPut
    <2>4. work' = <<Statement, Task("end_for", nr), Task("close", idx)>> \o Tail(work)
      BY <2>1, <2>3, Three
    <2>. QED BY <2>1, <2>2, <2>4, EntersLoop
  <1>17. ASSUME NEW l, JumpOut(l) PROVE Bound'
    <2>1. CASE Die
      BY <1>3, <2>1
    <2>2. CASE ~Die
      <3>1. /\ phase = "gen" /\ Head(work).do \notin Loops /\ breaks' = breaks /\ conts' = conts
            /\ work' = <<>> \o Tail(work)
        BY <1>17, <2>2 DEF JumpOut, AtStatement, At, Emit, Loops
      <3>. QED BY <3>1, Takes, Groups, LeavesLoops
    <2>. QED BY <2>1, <2>2
  <1>18. ASSUME NEW l, Labeled(l) PROVE Bound'
    <2>1. CASE Die
      BY <1>3, <2>1
    <2>2. CASE ~Die
      <3>1. /\ phase = "gen" /\ Head(work).do \notin Loops /\ breaks' = breaks /\ conts' = conts
            /\ work' = <<Item>> \o Tail(work)
        BY <1>18, <2>2 DEF Labeled, AtStatement, At, Emit, Loops
      <3>. QED BY <3>1, LeavesLoops
    <2>. QED BY <2>1, <2>2
  <1>19. ASSUME NEW l, Goto(l) PROVE Bound'
    <2>1. /\ phase = "gen" /\ Head(work).do \notin Loops /\ breaks' = breaks /\ conts' = conts
          /\ work' = <<>> \o Tail(work)
      BY <1>19 DEF Goto, AtStatement, At, Emit, Loops
    <2>. QED BY <2>1, Takes, Groups, LeavesLoops
  <1>20. CASE Else \/ EndIf
    <2>1. /\ phase = "gen" /\ Head(work).do \notin Loops /\ breaks' = breaks /\ conts' = conts
          /\ work' = <<>> \o Tail(work)
      BY <1>20 DEF Else, EndIf, At, Emit, Loops, ctx
    <2>. QED BY <2>1, Takes, Groups, LeavesLoops
  <1>21. ASSUME NEW n, EndWhile \/ EndDo(n) \/ EndFor(n) PROVE Bound'
    <2>1. /\ phase = "gen" /\ Head(work).do \in Loops /\ breaks' = Tail(breaks) /\ conts' = Tail(conts)
          /\ work' = <<>> \o Tail(work)
      BY <1>21 DEF EndWhile, EndDo, EndFor, LeaveLoop, At, Emit, Loops
    <2>. QED BY <2>1, Takes, Groups, LeavesLoop
  <1>22. CASE Straight \/ Jumps \/ Allocate \/ Release \/ Returns
    <2>1. phase = "run" /\ UNCHANGED <<work, breaks, conts>>
      BY <1>22 DEF Straight, Jumps, Allocate, Release, Returns, Running, ctx
    <2>. QED BY <2>1 DEF Bound
  <1>23. CASE ReturnDies
    BY <1>3, <1>23 DEF ReturnDies
  <1>. QED
    BY <1>1, <1>2, <1>4, <1>5, <1>6, <1>7, <1>8, <1>9, <1>10, <1>11, <1>12, <1>13, <1>14,
       <1>15, <1>16, <1>17, <1>18, <1>19, <1>20, <1>21, <1>22, <1>23 DEF Next

\* A break or a continue binds to the innermost loop whose generator is running,
\* and at the end of the function the stacks of labels are empty.
THEOREM BreaksBindInnermost == Spec => []InnermostLoop
PROOF
  <1>1. Init => Bound
    BY NoLoops DEF Init, Bound
  <1>2. Bound => InnermostLoop
    BY DEF Bound, InnermostLoop
  <1>. QED BY <1>1, <1>2, Initially, Inductive, BoundKept, PTL DEF Spec

====
