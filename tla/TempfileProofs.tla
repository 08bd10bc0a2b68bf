--------------------------- MODULE TempfileProofs ---------------------------
(***************************************************************************)
(* Proofs about Tempfile, for any objects, paths and signals and for any   *)
(* constant of alloc_nr.                                                   *)
(***************************************************************************)
EXTENDS Tempfile, SequenceTheorems, TLAPS

(***************************************************************************)
(* What is left to do.  Now is the next step, Final the last one, and it   *)
(* says which call or handler is running.                                  *)
(***************************************************************************)
Now == IF todo = <<>> THEN "idle" ELSE todo[1]
Final == IF todo = <<>> THEN "idle" ELSE todo[Len(todo)]

Closers == {"close", "close or delete", "close or fail"}

\* Step t follows step s in a call or handler that ends with step last.
Follows(s, t, last) ==
  \/ /\ last = "activate"
     /\ \/ s = "register" /\ t = "grow"
        \/ s = "grow" /\ t = "append"
        \/ s = "move block" /\ t = "set pointer"
        \/ s = "set pointer" /\ t = "append"
        \/ s = "append" /\ t = "activate"
  \/ last = "close" /\ s = "forget fd" /\ t = "close"
  \/ /\ last \in {"free object", "committed"}
     /\ \/ s = "inactive" /\ t = "free name"
        \/ s = "free name" /\ t = "take out"
        \/ s \in {"take out", "shorten", "set pointer"} /\ t = "free object"
        \/ s = "move block" /\ t = "set pointer"
  \/ /\ last = "free object"
     /\ \/ s = "forget fd" /\ t \in {"close", "close or delete"}
        \/ s = "close" /\ t = "unlink me"
        \/ s = "close or delete" /\ t = "rename"
        \/ s \in {"unlink me", "rename"} /\ t = "inactive"
  \/ /\ last = "committed"
     /\ \/ s = "forget fd" /\ t = "close or fail"
        \/ s = "close or fail" /\ t = "inactive"
        \/ s = "free object" /\ t = "committed"
  \/ /\ last \in {"exit", "raise"}
     /\ \/ s = "scan" /\ t = "free list"
        \/ s = "free list" /\ t = "reset list"
        \/ s = "unlink" /\ t = "clear"
        \/ s = "clear" /\ t = "scan"
  \/ last = "exit" /\ s = "reset list" /\ t = "exit"
  \/ /\ last = "raise"
     /\ \/ s = "reset list" /\ t = "default action"
        \/ s = "default action" /\ t = "raise"

Finals == {"open new", "open any", "activate", "close", "free object", "committed",
           "exit", "raise"}

\* The steps left are the end of what the code does.
Program(s) ==
  /\ s \in Seq(Step)
  /\ s # <<>> => s[Len(s)] \in Finals
  /\ \A i \in 1 .. Len(s) - 1 : Follows(s[i], s[i + 1], s[Len(s)])

Programs == Program(todo)

Cleaning == Final \in {"exit", "raise"}
Calling == todo # <<>> /\ ~Cleaning

\* struct tempfile.
Object == [mem : {"none", "live", "freed"}, active : BOOLEAN, named : BOOLEAN,
           fd : BOOLEAN, fp : BOOLEAN, path : Paths \cup {NoPath}]

\* The objects with a file, and the steps at which the object of the call is one.
Files == {o \in Objs : obj[o].active}
Holding == {"forget fd", "rename", "unlink me"} \cup Closers
OnTheList(o) == \E k \in 1 .. Len(list) : list[k] = o
PathsInUse == {obj[o].path : o \in Files}

(***************************************************************************)
(* The inductive invariant.                                                *)
(***************************************************************************)
\* Objects: whose turn it is.
Mine ==
  /\ \A o \in Objs : obj[o].mem # "none" => obj[o].path \in Paths
  /\ Calling => /\ me \in Objs /\ obj[me].path \in Paths
                /\ Now # "committed" => obj[me].mem = "live"
                /\ Now \in Holding => obj[me].active
                /\ Now \notin Holding \cup {"inactive"} => ~obj[me].active
  /\ Now \in {"unlink", "clear"} =>
       /\ me \in Objs /\ cursor \in 1 .. Len(list) /\ me = list[cursor] /\ obj[me].active

\* The list: no entry twice but while one is taken out, none without memory.
Listed ==
  /\ \A o \in Files : OnTheList(o) /\ obj[o].named /\ obj[o].mem = "live" /\ dispo = "handler"
  /\ \A k \in 1 .. Len(list) : obj[list[k]].mem = "live"
  /\ Len(list) <= alloc
  /\ ~Cleaning => \A j, k \in 1 .. Len(list) :
       list[j] = list[k] /\ j < k => Now = "shorten" /\ k = Len(list)
  /\ Now \in {"open new", "open any", "register", "grow", "append", "move block",
              "set pointer", "free object", "committed"} => ~OnTheList(me)
  /\ Now = "shorten" =>
       /\ Len(list) >= 1 /\ \A k \in 1 .. Len(list) - 1 : list[k] # me
       /\ \A o \in Files : \E k \in 1 .. Len(list) - 1 : list[k] = o

\* A file on its way to the list.
Arriving ==
  /\ Now \in {"open new", "open any"} \/ Final = "activate" => obj[me].named
  /\ Final = "activate" =>
       /\ obj[me].fd
       /\ Now # "register" => dispo = "handler"
       /\ Now \in {"append", "move block", "set pointer"} => Len(list) + 1 <= alloc
       /\ Now = "activate" => OnTheList(me)

\* The cleanup: what is behind the cursor is no longer active.
Cleaned ==
  /\ Now \in {"scan", "unlink", "clear"} =>
       /\ cursor >= 1
       /\ \A k \in 1 .. Len(list) : k < cursor => ~obj[list[k]].active
  /\ Now \in {"free list", "reset list", "default action", "raise", "exit"} => Files = {}
  /\ status \in {"exited", "killed"} => Files = {}

\* No two objects share a path.
Apart ==
  /\ \A o, q \in Files : o # q => obj[o].path # obj[q].path
  /\ Calling => \A o \in Files \ {me} : obj[o].path # obj[me].path
  /\ Now \in {"close or delete", "rename"}
       \/ (Now = "forget fd" /\ todo[2] = "close or delete")
       => dest \in Paths /\ dest \notin PathsInUse

\* What is kept is complete (or its close failed) and no longer in use.
Safe ==
  /\ \A p \in kept : fs[p] \in {"complete", "torn"}
  /\ kept \cap PathsInUse = {}
  /\ Final = "activate" => obj[me].path \notin kept
  /\ Now \in Closers \cup {"rename"} => ~obj[me].fd
  /\ ~Cleaning => \A o \in Files :
       \/ obj[o].fd \/ fs[obj[o].path] \in {"complete", "torn"}
       \/ o = me /\ Now \in Closers \cup {"inactive"}
  /\ Final = "committed" /\ Now \notin {"forget fd", "close or fail"} =>
       fs[obj[me].path] \in {"complete", "torn"}

\* A temporary file that exists has an owner or a call that is to blame.
Remembered ==
  /\ \A p \in temps : fs[p] = "absent" \/ pending.path = p \/ p \in PathsInUse
  /\ Final \in {"activate", "committed"} => pending.path = obj[me].path
  /\ ~Cleaning /\ Final \notin {"activate", "committed"} => pending = NoCall
  /\ Now = "inactive" /\ Final = "free object" => obj[me].path \notin temps \/ ~obj[me].active
  /\ Now = "clear" => fs[obj[me].path] = "absent"

\* The file of an object is a temporary one.
Owned ==
  /\ \A o \in Files : obj[o].path \in temps \/ fs[obj[o].path] = "absent"
  /\ ~Cleaning => \A o \in Files :
       obj[o].path \in temps \/ (o = me /\ Now = "inactive" /\ Final = "free object")
  /\ Final = "activate" => obj[me].path \in temps

IInv ==
  /\ TypeOK /\ Programs /\ Mine /\ Listed /\ Arriving /\ Cleaned
  /\ Apart /\ Safe /\ Remembered /\ Owned

-----------------------------------------------------------------------------
(***************************************************************************)
(* Sequences of steps.                                                     *)
(***************************************************************************)

\* What a program of steps is, seen from its head.
LEMMA Heads ==
  ASSUME Programs, todo # <<>>
  PROVE  /\ Len(todo) \in Nat \ {0} /\ todo \in [1 .. Len(todo) -> Step]
         /\ Head(todo) = Now /\ Now = todo[1] /\ Final = todo[Len(todo)]
         /\ Now \in Step /\ Final \in Finals
         /\ Len(todo) = 1 => Now = Final
         /\ Len(todo) # 1 => Follows(Now, todo[2], Final)
PROOF
  <1>1. todo \in Seq(Step) /\ Len(todo) \in Nat \ {0}
    BY EmptySeq DEF Programs, Program
  <1>2. todo \in [1 .. Len(todo) -> Step]
    BY <1>1, LenProperties
  <1>3. Now = todo[1] /\ Final = todo[Len(todo)] /\ Final \in Finals
    BY DEF Now, Final, Programs, Program
  <1>4. Head(todo) = todo[1]
    BY <1>1
  <1>5. Len(todo) # 1 => 1 \in 1 .. Len(todo) - 1
    <2>. DEFINE n == Len(todo)
    <2>1. n \in Nat \ {0}
      BY <1>1
    <2>. HIDE DEF n
    <2>2. n # 1 => 1 \in 1 .. n - 1
      BY <2>1
    <2>. QED BY <2>2 DEF n
  <1>6. Len(todo) # 1 => Follows(todo[1], todo[1 + 1], todo[Len(todo)])
    BY <1>5 DEF Programs, Program
  <1>. QED BY <1>1, <1>2, <1>3, <1>4, <1>6

\* The next step done, the rest is a program with the same end.
LEMMA Advance ==
  ASSUME Programs, todo # <<>>, todo' = Tail(todo)
  PROVE  /\ Programs'
         /\ \/ /\ todo' = <<>> /\ Now' = "idle" /\ Final' = "idle"
               /\ Now = Final /\ Now \in Finals
            \/ /\ todo' # <<>> /\ Now' = todo[2] /\ Final' = Final
               /\ Follows(Now, Now', Final)
PROOF
  <1>1. todo \in Seq(Step) /\ Len(todo) \in Nat \ {0}
    BY Heads DEF Programs, Program
  <1>2. /\ todo' \in Seq(Step) /\ Len(todo') = Len(todo) - 1
        /\ \A i \in 1 .. Len(todo) - 1 : todo'[i] = todo[i + 1]
    BY <1>1, HeadTailProperties
  <1>3. CASE Len(todo) = 1
    <2>1. todo' = <<>>
      BY <1>2, <1>3, EmptySeq
    <2>2. Programs'
      BY <2>1, <1>2 DEF Programs, Program
    <2>. QED BY <1>3, <2>1, <2>2, Heads DEF Now, Final
  <1>4. CASE Len(todo) # 1
    <2>1. todo' # <<>> /\ Len(todo') >= 1
      BY <1>1, <1>2, <1>4
    <2>2. todo'[Len(todo')] = todo[Len(todo)] /\ todo'[1] = todo[2]
      BY <1>1, <1>2, <1>4
    <2>3. todo'[Len(todo')] \in Finals
      BY <2>2 DEF Programs, Program
    <2>4. ASSUME NEW i \in 1 .. Len(todo') - 1
          PROVE  Follows(todo'[i], todo'[i + 1], todo'[Len(todo')])
      <3>1. /\ i + 1 \in 1 .. Len(todo) - 1 /\ i \in 1 .. Len(todo) - 1
            /\ todo'[i] = todo[i + 1] /\ todo'[i + 1] = todo[(i + 1) + 1]
        BY <1>1, <1>2
      <3>2. Follows(todo[i + 1], todo[(i + 1) + 1], todo[Len(todo)])
        BY <3>1 DEF Programs, Program
      <3>. QED BY <2>2, <3>1, <3>2
    <2>5. Programs'
      BY <1>2, <2>3, <2>4 DEF Programs, Program
    <2>6. Now' = todo[2] /\ Final' = Final
      BY <1>1, <2>1, <2>2, Heads DEF Now, Final
    <2>. QED BY <1>4, <2>1, <2>5, <2>6, Heads
  <1>. QED BY <1>3, <1>4

\* Steps in the order of the code, whatever follows them.
Linked(s, first, end, last) ==
  /\ s \in Seq(Step) /\ Len(s) >= 1 /\ s[1] = first /\ s[Len(s)] = end
  /\ \A i \in 1 .. Len(s) - 1 : Follows(s[i], s[i + 1], last)

\* Two runs of steps make one when the code goes on from one to the other.
LEMMA Join ==
  ASSUME NEW s, NEW t, NEW a, NEW b, NEW c, NEW d, NEW last,
         Linked(s, a, b, last), Linked(t, c, d, last), Follows(b, c, last)
  PROVE  Linked(s \o t, a, d, last)
PROOF
  <1>1. /\ s \in Seq(Step) /\ t \in Seq(Step) /\ Len(s) \in Nat /\ Len(t) \in Nat
        /\ Len(s) >= 1 /\ Len(t) >= 1
    BY LenProperties DEF Linked
  <1>2. /\ s \o t \in Seq(Step) /\ Len(s \o t) = Len(s) + Len(t)
        /\ \A i \in 1 .. Len(s) + Len(t) :
             (s \o t)[i] = IF i <= Len(s) THEN s[i] ELSE t[i - Len(s)]
    BY <1>1, ConcatProperties
  <1>3. (s \o t)[1] = a /\ (s \o t)[Len(s \o t)] = d
    <2>1. (s \o t)[1] = s[1]
      BY <1>1, <1>2
    <2>2. (s \o t)[Len(s) + Len(t)] = t[Len(s) + Len(t) - Len(s)]
      BY <1>1, <1>2
    <2>3. Len(s) + Len(t) - Len(s) = Len(t)
      BY <1>1
    <2>. QED BY <1>2, <2>1, <2>2, <2>3 DEF Linked
  <1>4. ASSUME NEW i \in 1 .. Len(s \o t) - 1
        PROVE  Follows((s \o t)[i], (s \o t)[i + 1], last)
    <2>1. i \in 1 .. Len(s) + Len(t) /\ i + 1 \in 1 .. Len(s) + Len(t)
      BY <1>1, <1>2
    <2>2. CASE i < Len(s)
      <3>1. (s \o t)[i] = s[i] /\ (s \o t)[i + 1] = s[i + 1] /\ i \in 1 .. Len(s) - 1
        BY <1>1, <1>2, <2>1, <2>2
      <3>. QED BY <3>1 DEF Linked
    <2>3. CASE i = Len(s)
      <3>1. (s \o t)[i] = s[Len(s)] /\ (s \o t)[i + 1] = t[1]
        <4>1. i + 1 - Len(s) = 1
          BY <1>1, <2>3
        <4>. QED BY <1>1, <1>2, <2>1, <2>3, <4>1
      <3>. QED BY <3>1 DEF Linked
    <2>4. CASE i > Len(s)
      <3>1. /\ (s \o t)[i] = t[i - Len(s)] /\ (s \o t)[i + 1] = t[(i - Len(s)) + 1]
            /\ i - Len(s) \in 1 .. Len(t) - 1
        <4>1. i + 1 - Len(s) = (i - Len(s)) + 1
          BY <1>1
        <4>. QED BY <1>1, <1>2, <2>1, <2>4, <4>1
      <3>. QED BY <3>1 DEF Linked
    <2>. QED BY <1>1, <2>2, <2>3, <2>4
  <1>. QED BY <1>1, <1>2, <1>3, <1>4 DEF Linked

\* A run of steps that ends where a call ends is a program.
LEMMA Whole ==
  ASSUME NEW a, NEW last, Linked(todo', a, last, last), last \in Finals
  PROVE  Programs' /\ todo' # <<>> /\ Now' = a /\ Final' = last
PROOF
  <1>1. todo' \in Seq(Step) /\ Len(todo') >= 1
    BY DEF Linked
  <1>2. todo' # <<>>
    BY <1>1, EmptySeq
  <1>3. Programs'
    BY <1>1 DEF Linked, Programs, Program
  <1>. QED BY <1>2, <1>3 DEF Linked, Now, Final

\* A program is a run of steps.
LEMMA Rest ==
  ASSUME Programs, todo # <<>>
  PROVE  Linked(todo, Now, Final, Final)
PROOF
  BY Heads DEF Linked, Programs, Program

\* The sequences the code is written as.
LEMMA One ==
  ASSUME NEW x \in Step, NEW last
  PROVE  Linked(<<x>>, x, x, last)
PROOF
  <1>1. <<x>> \in Seq(Step) /\ Len(<<x>>) = 1 /\ <<x>>[1] = x
    OBVIOUS
  <1>. QED BY <1>1 DEF Linked

LEMMA Two ==
  ASSUME NEW x \in Step, NEW y \in Step, NEW last, Follows(x, y, last)
  PROVE  Linked(<<x, y>>, x, y, last)
PROOF
  <1>. DEFINE s == <<x, y>>
  <1>1. s \in Seq(Step) /\ Len(s) = 2 /\ s[1] = x /\ s[2] = y
    OBVIOUS
  <1>. HIDE DEF s
  <1>2. \A i \in 1 .. Len(s) - 1 : Follows(s[i], s[i + 1], last)
    BY <1>1
  <1>3. Linked(s, x, y, last)
    BY <1>1, <1>2 DEF Linked
  <1>. QED BY <1>3 DEF s

LEMMA Three ==
  ASSUME NEW x \in Step, NEW y \in Step, NEW z \in Step, NEW last,
         Follows(x, y, last), Follows(y, z, last)
  PROVE  Linked(<<x, y, z>>, x, z, last)
PROOF
  <1>. DEFINE s == <<x, y, z>>
  <1>1. s \in Seq(Step) /\ Len(s) = 3 /\ s[1] = x /\ s[2] = y /\ s[3] = z
    OBVIOUS
  <1>. HIDE DEF s
  <1>2. \A i \in 1 .. Len(s) - 1 : Follows(s[i], s[i + 1], last)
    <2>. SUFFICES ASSUME NEW i \in 1 .. 2 PROVE Follows(s[i], s[i + 1], last)
      BY <1>1
    <2>1. CASE i = 1
      BY <1>1, <2>1
    <2>2. CASE i = 2
      BY <1>1, <2>2
    <2>. QED BY <2>1, <2>2
  <1>3. Linked(s, x, z, last)
    BY <1>1, <1>2 DEF Linked
  <1>. QED BY <1>3 DEF s

LEMMA Four ==
  ASSUME NEW x \in Step, NEW y \in Step, NEW z \in Step, NEW w \in Step, NEW last,
         Follows(x, y, last), Follows(y, z, last), Follows(z, w, last)
  PROVE  Linked(<<x, y, z, w>>, x, w, last)
PROOF
  <1>. DEFINE s == <<x, y, z, w>>
  <1>1. s \in Seq(Step) /\ Len(s) = 4 /\ s[1] = x /\ s[2] = y /\ s[3] = z /\ s[4] = w
    OBVIOUS
  <1>. HIDE DEF s
  <1>2. \A i \in 1 .. Len(s) - 1 : Follows(s[i], s[i + 1], last)
    <2>. SUFFICES ASSUME NEW i \in 1 .. 3 PROVE Follows(s[i], s[i + 1], last)
      BY <1>1
    <2>1. CASE i = 1
      BY <1>1, <2>1
    <2>2. CASE i = 2
      BY <1>1, <2>2
    <2>3. CASE i = 3
      BY <1>1, <2>3
    <2>. QED BY <2>1, <2>2, <2>3
  <1>3. Linked(s, x, w, last)
    BY <1>1, <1>2 DEF Linked
  <1>. QED BY <1>3 DEF s

\* The calls and handlers of the code, so linked.
LEMMA Written ==
  /\ Linked(ActivateSteps, "register", "activate", "activate")
  /\ \A l \in {"free object", "committed"} :
       Linked(DeactivateSteps, "inactive", "free object", l)
  /\ Linked(DeleteSteps, "unlink me", "free object", "free object")
  /\ Linked(RenameSteps, "rename", "free object", "free object")
  /\ Linked(CommitSteps, "inactive", "committed", "committed")
  /\ Linked(OnExitSteps, "scan", "exit", "exit")
  /\ Linked(OnSignalSteps, "scan", "raise", "raise")
PROOF
  <1>1. Linked(ActivateSteps, "register", "activate", "activate")
    <2>1. Follows("register", "grow", "activate") /\ Follows("grow", "append", "activate")
          /\ Follows("append", "activate", "activate")
      BY DEF Follows
    <2>2. {"register", "grow", "append", "activate"} \subseteq Step
      BY DEF Step
    <2>. QED BY <2>1, <2>2, Four DEF ActivateSteps
  <1>2. ASSUME NEW l \in {"free object", "committed"}
        PROVE  Linked(DeactivateSteps, "inactive", "free object", l)
    <2>1. Follows("inactive", "free name", l) /\ Follows("free name", "take out", l)
          /\ Follows("take out", "free object", l)
      BY DEF Follows
    <2>2. {"inactive", "free name", "take out", "free object"} \subseteq Step
      BY DEF Step
    <2>. QED BY <2>1, <2>2, Four DEF DeactivateSteps
  <1>3. Linked(DeleteSteps, "unlink me", "free object", "free object")
    <2>1. Linked(<<"unlink me">>, "unlink me", "unlink me", "free object")
      BY One DEF Step
    <2>2. Follows("unlink me", "inactive", "free object")
      BY DEF Follows
    <2>. QED BY <1>2, <2>1, <2>2, Join DEF DeleteSteps
  <1>4. Linked(RenameSteps, "rename", "free object", "free object")
    <2>1. Linked(<<"rename">>, "rename", "rename", "free object")
      BY One DEF Step
    <2>2. Follows("rename", "inactive", "free object")
      BY DEF Follows
    <2>. QED BY <1>2, <2>1, <2>2, Join DEF RenameSteps
  <1>5. Linked(CommitSteps, "inactive", "committed", "committed")
    <2>1. Linked(<<"committed">>, "committed", "committed", "committed")
      BY One DEF Step
    <2>2. Follows("free object", "committed", "committed")
      BY DEF Follows
    <2>. QED BY <1>2, <2>1, <2>2, Join DEF CommitSteps
  <1>6. ASSUME NEW l \in {"exit", "raise"}
        PROVE  Linked(RemoveSteps, "scan", "reset list", l)
    <2>1. Follows("scan", "free list", l) /\ Follows("free list", "reset list", l)
      BY DEF Follows
    <2>2. {"scan", "free list", "reset list"} \subseteq Step
      BY DEF Step
    <2>. QED BY <2>1, <2>2, Three DEF RemoveSteps
  <1>7. Linked(OnExitSteps, "scan", "exit", "exit")
    <2>1. Linked(<<"exit">>, "exit", "exit", "exit")
      BY One DEF Step
    <2>2. Follows("reset list", "exit", "exit")
      BY DEF Follows
    <2>. QED BY <1>6, <2>1, <2>2, Join DEF OnExitSteps
  <1>8. Linked(OnSignalSteps, "scan", "raise", "raise")
    <2>1. Linked(<<"default action", "raise">>, "default action", "raise", "raise")
      BY Two DEF Follows, Step
    <2>2. Follows("reset list", "default action", "raise")
      BY DEF Follows
    <2>. QED BY <1>6, <2>1, <2>2, Join DEF OnSignalSteps
  <1>. QED BY <1>1, <1>2, <1>3, <1>4, <1>5, <1>7, <1>8

\* An empty program.
LEMMA Nothing ==
  ASSUME todo' = <<>>
  PROVE  Programs' /\ Now' = "idle" /\ Final' = "idle"
PROOF
  <1>1. <<>> \in Seq(Step) /\ Len(<<>>) = 0
    OBVIOUS
  <1>2. 1 .. 0 - 1 = {}
    OBVIOUS
  <1>3. Program(<<>>)
    BY <1>1, <1>2 DEF Program
  <1>. QED BY <1>3 DEF Programs, Now, Final

\* What is left behind the next step.
LEMMA Behind ==
  ASSUME Programs, todo # <<>>, Now # Final
  PROVE  \E a \in Step : Linked(Tail(todo), a, Final, Final) /\ Follows(Now, a, Final)
PROOF
  <1>1. todo \in Seq(Step) /\ Len(todo) \in Nat \ {0} /\ Len(todo) # 1
    BY Heads DEF Programs, Program
  <1>2. /\ Tail(todo) \in Seq(Step) /\ Len(Tail(todo)) = Len(todo) - 1
        /\ \A i \in 1 .. Len(todo) - 1 : Tail(todo)[i] = todo[i + 1]
    BY <1>1, HeadTailProperties
  <1>3. Tail(todo)[1] = todo[2] /\ Tail(todo)[Len(todo) - 1] = Final /\ todo[2] \in Step
    BY <1>1, <1>2, Heads
  <1>4. ASSUME NEW i \in 1 .. Len(Tail(todo)) - 1
        PROVE  Follows(Tail(todo)[i], Tail(todo)[i + 1], Final)
    <2>1. /\ i + 1 \in 1 .. Len(todo) - 1 /\ i \in 1 .. Len(todo) - 1
          /\ Tail(todo)[i] = todo[i + 1] /\ Tail(todo)[i + 1] = todo[(i + 1) + 1]
      BY <1>1, <1>2
    <2>2. Follows(todo[i + 1], todo[(i + 1) + 1], todo[Len(todo)])
      BY <2>1 DEF Programs, Program
    <2>. QED BY <2>1, <2>2, Heads
  <1>5. Linked(Tail(todo), todo[2], Final, Final)
    BY <1>1, <1>2, <1>3, <1>4 DEF Linked
  <1>. QED BY <1>1, <1>3, <1>5, Heads

-----------------------------------------------------------------------------
(***************************************************************************)
(* The steps of the calls.                                                 *)
(***************************************************************************)

\* The step that is due.
LEMMA Due ==
  ASSUME IInv, NEW s, At(s)
  PROVE  /\ status = "running" /\ todo # <<>> /\ Now = s /\ Now \in Step
         /\ Final \in Finals /\ Head(todo) = s
         /\ ~Cleaning => Calling /\ me \in Objs
PROOF
  <1>1. todo # <<>> /\ status = "running" /\ Head(todo) = s /\ Programs
    BY DEF At, IInv
  <1>2. Now = s /\ Now \in Step /\ Final \in Finals
    BY <1>1, Heads
  <1>3. ~Cleaning => Calling /\ me \in Objs
    BY <1>1 DEF Calling, IInv, Mine
  <1>. QED BY <1>1, <1>2, <1>3

\* The objects and the entries of the list have their types.
Typing ==
  /\ list \in Seq(Objs) /\ Len(list) \in Nat /\ list \in [1 .. Len(list) -> Objs]
  /\ \A k \in 1 .. Len(list) : list[k] \in Objs
  /\ obj \in [Objs -> Object] /\ Files \subseteq Objs
  /\ \A o \in Objs : o \in Files <=> obj[o].active
  /\ alloc \in Nat /\ cursor \in Nat /\ slack \in Nat \ {0}
  /\ fs \in [Paths -> {"absent", "user", "partial", "torn", "complete"}]
  /\ temps \subseteq Paths /\ kept \subseteq Paths
  /\ \A o \in Files : obj[o].path \in Paths /\ obj[o].mem = "live"

LEMMA Entries ==
  ASSUME IInv
  PROVE  Typing
PROOF
  <1>1. list \in Seq(Objs)
    BY DEF IInv, TypeOK
  <1>2. /\ Len(list) \in Nat /\ list \in [1 .. Len(list) -> Objs]
        /\ \A k \in 1 .. Len(list) : list[k] \in Objs
    BY <1>1, LenProperties
  <1>3. /\ obj \in [Objs -> Object] /\ Files \subseteq Objs
        /\ \A o \in Objs : o \in Files <=> obj[o].active
    BY DEF IInv, TypeOK, Object, Files
  <1>4. /\ alloc \in Nat /\ cursor \in Nat /\ slack \in Nat \ {0}
        /\ fs \in [Paths -> {"absent", "user", "partial", "torn", "complete"}]
        /\ temps \subseteq Paths /\ kept \subseteq Paths
    BY ConstantsAssumption DEF IInv, TypeOK
  <1>5. \A o \in Files : obj[o].path \in Paths /\ obj[o].mem = "live"
    BY <1>3 DEF IInv, Mine, Listed
  <1>. QED BY <1>1, <1>2, <1>3, <1>4, <1>5 DEF Typing

\* The list does not change while the objects do.
LEMMA SameList ==
  ASSUME IInv, list' = list, obj' \in [Objs -> Object], Files' \subseteq Files,
         \A o \in Objs : obj'[o].mem = obj[o].mem
  PROVE  /\ \A o : OnTheList(o)' <=> OnTheList(o)
         /\ \A o \in Files' : OnTheList(o)'
         /\ \A k \in 1 .. Len(list') : obj'[list'[k]].mem = "live"
PROOF
  <1>1. \A o : OnTheList(o)' <=> OnTheList(o)
    BY DEF OnTheList
  <1>2. \A o \in Files : OnTheList(o)
    BY DEF IInv, Listed
  <1>3. \A k \in 1 .. Len(list) : list[k] \in Objs
    BY Entries DEF Typing
  <1>4. \A k \in 1 .. Len(list) : obj[list[k]].mem = "live"
    BY DEF IInv, Listed
  <1>5. \A k \in 1 .. Len(list) : obj'[list[k]].mem = "live"
    BY <1>3, <1>4
  <1>. QED BY <1>1, <1>2, <1>5

\* Files that are still there are still apart.
LEMMA FewerFiles ==
  ASSUME IInv, Files' \subseteq Files, \A o \in Objs : obj'[o].path = obj[o].path
  PROVE  /\ \A o, q \in Files' : o # q => obj'[o].path # obj'[q].path
         /\ PathsInUse' \subseteq PathsInUse
         /\ Files' = Files => PathsInUse' = PathsInUse
PROOF
  <1>1. \A o, q \in Files : o # q => obj[o].path # obj[q].path
    BY DEF IInv, Apart
  <1>2. \A o \in Files : obj'[o].path = obj[o].path
    BY Entries DEF Typing
  <1>3. PathsInUse = {obj[o].path : o \in Files} /\ PathsInUse' = {obj'[o].path : o \in Files'}
    BY DEF PathsInUse
  <1>. QED BY <1>1, <1>2, <1>3

\* The first activation installs the handlers: nothing else depends on them but the files.
LEMMA RegisterKeeps ==
  ASSUME IInv, Register
  PROVE  IInv'
PROOF
  <1>1. /\ status = "running" /\ Now = "register" /\ me \in Objs
        /\ Programs' /\ Now' = "grow" /\ Final' = "activate" /\ Final = "activate"
        /\ todo # <<>> /\ todo' # <<>>
    <2>1. At("register") /\ todo' = Tail(todo) /\ Programs /\ todo # <<>>
      BY DEF Register, At, IInv
    <2>2. Now = "register" /\ status = "running"
      BY <2>1, Due
    <2>3. Now' = "grow" /\ Final' = "activate" /\ Final = "activate" /\ todo' # <<>>
      BY <2>1, <2>2, Advance DEF Follows, Finals
    <2>4. me \in Objs
      BY <2>1, <2>3, Due DEF Cleaning
    <2>. QED BY <2>1, <2>2, <2>3, <2>4, Advance
  <1>2. /\ UNCHANGED <<fs, temps, kept, pending, obj, arr, list, alloc, me, dest, cursor,
                       blocked, slack, status>>
        /\ dispo' = "handler"
    BY DEF Register, disk, memory
  <1>3. TypeOK'
    BY <1>1, <1>2 DEF IInv, TypeOK, Programs, Program
  <1>4. Mine'
    BY <1>1, <1>2 DEF IInv, Mine, Calling, Cleaning, Holding, Closers
  <1>5. Listed'
    BY <1>1, <1>2 DEF IInv, Listed, Files, OnTheList, Cleaning
  <1>6. Arriving'
    BY <1>1, <1>2 DEF IInv, Arriving
  <1>7. Cleaned'
    BY <1>1, <1>2 DEF IInv, Cleaned, Files
  <1>8. Apart'
    BY <1>1, <1>2 DEF IInv, Apart, Files, PathsInUse, Calling, Cleaning
  <1>9. Safe'
    BY <1>1, <1>2 DEF IInv, Safe, Files, PathsInUse, Cleaning, Closers
  <1>10. Remembered' /\ Owned'
    BY <1>1, <1>2 DEF IInv, Remembered, Owned, Files, PathsInUse, Cleaning
  <1>. QED BY <1>1, <1>3, <1>4, <1>5, <1>6, <1>7, <1>8, <1>9, <1>10 DEF IInv

\* The new entry fits (grow made room) and is not there yet.
LEMMA AppendKeeps ==
  ASSUME IInv, AppendObj
  PROVE  IInv'
PROOF
  <1>1. Typing
    BY Entries
  <1>2. /\ status = "running" /\ Now = "append" /\ me \in Objs /\ Programs' /\ todo # <<>>
        /\ Now' = "activate" /\ Final' = "activate" /\ Final = "activate" /\ todo' # <<>>
    <2>1. At("append") /\ todo' = Tail(todo) /\ Programs /\ todo # <<>>
      BY DEF AppendObj, At, Done, Goto, IInv
    <2>2. Now = "append" /\ status = "running"
      BY <2>1, Due
    <2>3. Now' = "activate" /\ Final' = "activate" /\ Final = "activate" /\ todo' # <<>>
      BY <2>1, <2>2, Advance DEF Follows, Finals
    <2>4. me \in Objs
      BY <2>1, <2>3, Due DEF Cleaning
    <2>. QED BY <2>1, <2>2, <2>3, <2>4, Advance
  <1>3. /\ UNCHANGED <<fs, temps, kept, pending, obj, arr, alloc, dispo, me, dest, cursor,
                       blocked, slack, status>>
        /\ list' = Append(list, me) /\ list \in Seq(Objs) /\ list' \in Seq(Objs)
        /\ Len(list') = Len(list) + 1 /\ list'[Len(list) + 1] = me
        /\ \A k \in 1 .. Len(list) : list'[k] = list[k]
    <2>1. UNCHANGED <<fs, temps, kept, pending, obj, arr, alloc, dispo, me, dest, cursor, blocked,
                      slack, status>> /\ list' = Append(list, me)
      BY DEF AppendObj, disk, Done, Goto
    <2>2. list \in Seq(Objs) /\ me \in Objs
      BY <1>2 DEF IInv, TypeOK
    <2>. QED BY <2>1, <2>2, AppendProperties
  <1>4. TypeOK'
    BY <1>1, <1>2, <1>3 DEF IInv, TypeOK, Object, Programs, Program
  <1>5. Mine'
    BY <1>1, <1>2, <1>3 DEF Typing, IInv, Mine, Calling, Cleaning, Holding, Closers
  <1>6. Listed'
    <2>1. /\ ~OnTheList(me) /\ obj[me].mem = "live" /\ Len(list) + 1 <= alloc
          /\ \A k \in 1 .. Len(list) : obj[list[k]].mem = "live" /\ list[k] # me
          /\ \A j, k \in 1 .. Len(list) : ~(list[j] = list[k] /\ j < k)
      BY <1>2 DEF IInv, Listed, Arriving, Mine, Calling, Cleaning, OnTheList
    <2>2. Len(list) \in Nat /\ alloc \in Nat
      BY <1>1 DEF Typing
    <2>3. \A o \in Objs : OnTheList(o) => OnTheList(o)'
      BY <1>3, <2>2 DEF OnTheList
    <2>4. \A o \in Files' : OnTheList(o)' /\ (obj[o].named /\ obj[o].mem = "live" /\ dispo = "handler")'
      BY <1>3, <2>3 DEF IInv, Listed, Files
    <2>5. \A k \in 1 .. Len(list') : obj'[list'[k]].mem = "live"
      BY <1>3, <2>1, <2>2
    <2>6. \A j, k \in 1 .. Len(list') : ~(list'[j] = list'[k] /\ j < k)
      BY <1>3, <2>1, <2>2
    <2>7. Len(list') <= alloc'
      BY <1>3, <2>1
    <2>. QED BY <1>2, <2>4, <2>5, <2>6, <2>7 DEF Listed
  <1>7. Arriving'
    <2>1. OnTheList(me)'
      <3>1. Len(list) + 1 \in 1 .. Len(list')
        BY <1>1, <1>3 DEF Typing
      <3>. QED BY <1>3, <3>1 DEF OnTheList
    <2>. QED BY <1>2, <1>3, <2>1 DEF IInv, Arriving
  <1>8. Cleaned'
    BY <1>1, <1>2, <1>3 DEF IInv, Cleaned, Files
  <1>9. Apart'
    BY <1>1, <1>2, <1>3 DEF IInv, Apart, Files, PathsInUse, Calling, Cleaning
  <1>10. Safe'
    BY <1>1, <1>2, <1>3 DEF IInv, Safe, Files, PathsInUse, Cleaning, Closers
  <1>11. Remembered'
    BY <1>1, <1>2, <1>3 DEF IInv, Remembered, Files, PathsInUse, Cleaning
  <1>12. Owned'
    BY <1>1, <1>2, <1>3 DEF IInv, Owned, Files, PathsInUse, Cleaning
  <1>. QED BY <1>2, <1>4, <1>5, <1>6, <1>7, <1>8, <1>9, <1>10, <1>11, <1>12 DEF IInv

\* The object becomes a file when it is on the list and has its name.
LEMMA ActivateKeeps ==
  ASSUME IInv, Activate
  PROVE  IInv'
PROOF
  <1>1. Typing
    BY Entries
  <1>2. /\ status = "running" /\ Now = "activate" /\ me \in Objs /\ Programs' /\ todo # <<>>
        /\ Now' = "idle" /\ Final' = "idle" /\ Final = "activate" /\ todo' = <<>>
    <2>1. At("activate") /\ todo' = Tail(todo) /\ Programs /\ todo # <<>>
      BY DEF Activate, At, Done, Goto, IInv
    <2>2. Now = "activate" /\ status = "running"
      BY <2>1, Due
    <2>3. Now' = "idle" /\ Final' = "idle" /\ Final = "activate" /\ todo' = <<>>
      BY <2>1, <2>2, Advance DEF Follows, Finals
    <2>4. me \in Objs
      BY <2>1, <2>3, Due DEF Cleaning
    <2>. QED BY <2>1, <2>2, <2>3, <2>4, Advance
  <1>3. /\ UNCHANGED <<fs, temps, kept, arr, list, alloc, dispo, me, dest, cursor, blocked, slack,
                       status>>
        /\ pending' = NoCall /\ Files' = Files \cup {me}
        /\ obj' \in [Objs -> Object]
        /\ \A o \in Objs :
             /\ obj'[o].mem = obj[o].mem
             /\ obj'[o].named = obj[o].named
             /\ obj'[o].active <=> (o = me \/ obj[o].active)
             /\ obj'[o].fd = obj[o].fd
             /\ obj'[o].fp = obj[o].fp
             /\ obj'[o].path = obj[o].path
    BY <1>2, ZenonT(60) DEF IInv, TypeOK, Object, Activate, Done, Goto, Files
  <1>4. TypeOK'
    BY <1>1, <1>2, <1>3 DEF IInv, TypeOK, Object, Programs, Program, NoCall
  <1>5. Mine'
    BY <1>1, <1>2, <1>3 DEF Typing, IInv, Mine, Calling, Cleaning, Holding, Closers
  <1>6. Listed'
    <2>1. obj[me].mem = "live" /\ OnTheList(me) /\ obj[me].named /\ dispo = "handler"
      BY <1>2 DEF IInv, Mine, Arriving, Calling, Cleaning, Holding, Closers
    <2>2. \A o \in Objs : OnTheList(o)' <=> OnTheList(o)
      BY <1>3 DEF OnTheList
    <2>3. \A o \in Files' : (OnTheList(o) /\ obj[o].named /\ obj[o].mem = "live" /\ dispo = "handler")'
      BY <1>2, <1>3, <2>1, <2>2 DEF IInv, Listed, Files
    <2>4. \A k \in 1 .. Len(list') : obj'[list'[k]].mem = "live"
      BY <1>1, <1>3, ZenonT(120) DEF Typing, IInv, Listed
    <2>. QED BY <1>2, <1>3, <2>3, <2>4 DEF IInv, Listed, Cleaning
  <1>7. Arriving'
    BY <1>1, <1>2, <1>3 DEF IInv, Arriving, OnTheList
  <1>8. Cleaned'
    BY <1>1, <1>2, <1>3 DEF IInv, Cleaned, Files
  <1>9. Apart'
    BY <1>1, <1>2, <1>3 DEF IInv, Apart, Files, PathsInUse, Calling, Cleaning
  <1>10. Safe'
    <2>1. PathsInUse' = PathsInUse \cup {obj[me].path}
      BY <1>2, <1>3 DEF PathsInUse, Files
    <2>2. obj[me].path \notin kept /\ obj[me].fd
      BY <1>2 DEF IInv, Safe, Arriving
    <2>. QED BY <1>2, <1>3, <2>1, <2>2 DEF IInv, Safe, Cleaning, Files, Closers
  <1>11. Remembered'
    BY <1>1, <1>2, <1>3 DEF IInv, Remembered, Files, PathsInUse, Cleaning
  <1>12. Owned'
    BY <1>1, <1>2, <1>3 DEF IInv, Owned, Files, PathsInUse, Cleaning
  <1>. QED BY <1>2, <1>4, <1>5, <1>6, <1>7, <1>8, <1>9, <1>10, <1>11, <1>12 DEF IInv

\* Only the object of the call forgets its descriptor, and it is being closed.
LEMMA ForgetFdKeeps ==
  ASSUME IInv, ForgetFd
  PROVE  IInv'
PROOF
  <1>1. Typing
    BY Entries
  <1>2. /\ status = "running" /\ Now = "forget fd" /\ me \in Objs /\ Programs' /\ todo # <<>>
        /\ todo' # <<>> /\ Final' = Final /\ Now' = todo[2]
        /\ \/ Now' = "close" /\ Final \in {"close", "free object"}
           \/ Now' = "close or delete" /\ Final = "free object"
           \/ Now' = "close or fail" /\ Final = "committed"
    <2>1. At("forget fd") /\ todo' = Tail(todo) /\ Programs /\ todo # <<>>
      BY DEF ForgetFd, At, Done, Goto, IInv
    <2>2. Now = "forget fd" /\ status = "running"
      BY <2>1, Due
    <2>3. todo' # <<>> /\ Final' = Final /\ Now' = todo[2]
        /\ \/ Now' = "close" /\ Final \in {"close", "free object"}
           \/ Now' = "close or delete" /\ Final = "free object"
           \/ Now' = "close or fail" /\ Final = "committed"
      BY <2>1, <2>2, Advance DEF Follows, Finals
    <2>4. me \in Objs
      BY <2>1, <2>3, Due DEF Cleaning
    <2>. QED BY <2>1, <2>2, <2>3, <2>4, Advance
  <1>3. /\ UNCHANGED <<fs, temps, kept, pending, arr, list, alloc, dispo, me, dest, cursor,
                       blocked, slack, status>>
        /\ Files' = Files /\ PathsInUse' = PathsInUse
        /\ obj' \in [Objs -> Object]
        /\ \A o \in Objs :
             /\ obj'[o].mem = obj[o].mem
             /\ obj'[o].named = obj[o].named
             /\ obj'[o].active = obj[o].active
             /\ obj'[o].fd <=> (o # me /\ obj[o].fd)
             /\ obj'[o].path = obj[o].path
    <2>1. obj' = [obj EXCEPT ![me].fd = FALSE, ![me].fp = FALSE] /\ obj \in [Objs -> Object]
      BY <1>1 DEF Typing, ForgetFd
    <2>2. /\ obj' \in [Objs -> Object]
          /\ \A o \in Objs :
               /\ obj'[o].mem = obj[o].mem
               /\ obj'[o].named = obj[o].named
               /\ obj'[o].active = obj[o].active
               /\ obj'[o].fd <=> (o # me /\ obj[o].fd)
               /\ obj'[o].path = obj[o].path
      BY <1>2, <2>1 DEF Object
    <2>3. Files' = Files
      BY <2>2 DEF Files
    <2>4. PathsInUse' = PathsInUse
      BY <2>2, <2>3 DEF Files, PathsInUse
    <2>. QED BY <2>2, <2>3, <2>4 DEF ForgetFd, disk, Done, Goto
  <1>4. TypeOK'
    BY <1>1, <1>2, <1>3 DEF IInv, TypeOK, Object, Programs, Program
  <1>5. Mine'
    BY <1>1, <1>2, <1>3 DEF Typing, IInv, Mine, Calling, Cleaning, Holding, Closers
  <1>6. Listed'
    <2>1. \A o \in Objs : OnTheList(o)' <=> OnTheList(o)
      BY <1>3 DEF OnTheList
    <2>2. \A o \in Files' : (OnTheList(o) /\ obj[o].named /\ obj[o].mem = "live" /\ dispo = "handler")'
      BY <1>3, <2>1 DEF IInv, Listed, Files
    <2>3. \A k \in 1 .. Len(list') : obj'[list'[k]].mem = "live"
      BY <1>1, <1>3, ZenonT(120) DEF Typing, IInv, Listed
    <2>. QED BY <1>2, <1>3, <2>2, <2>3 DEF IInv, Listed, Cleaning
  <1>7. Arriving'
    BY <1>1, <1>2, <1>3 DEF IInv, Arriving, OnTheList
  <1>8. Cleaned'
    BY <1>1, <1>2, <1>3 DEF IInv, Cleaned, Files
  <1>9. Apart'
    <2>1. \A o, q \in Files' : o # q => obj'[o].path # obj'[q].path
      <3>1. \A o, q \in Files : o # q => obj[o].path # obj[q].path
        BY DEF IInv, Apart
      <3>2. Files' = Files /\ \A o \in Files : obj'[o].path = obj[o].path
        BY <1>1, <1>3 DEF Typing
      <3>. QED BY <3>1, <3>2
    <2>2. Calling' => \A o \in Files' \ {me'} : obj'[o].path # obj'[me'].path
      BY <1>2, <1>3 DEF IInv, Apart, Files, Calling, Cleaning
    <2>3. Now' = "close or delete" => dest \in Paths /\ dest \notin PathsInUse
      BY <1>2 DEF IInv, Apart
    <2>. QED BY <1>2, <1>3, <2>1, <2>2, <2>3 DEF Apart
  <1>10. Safe'
    BY <1>1, <1>2, <1>3 DEF IInv, Safe, Files, PathsInUse, Cleaning, Closers
  <1>11. Remembered'
    BY <1>1, <1>2, <1>3 DEF IInv, Remembered, Files, PathsInUse, Cleaning
  <1>12. Owned'
    BY <1>1, <1>2, <1>3 DEF IInv, Owned, Files, PathsInUse, Cleaning
  <1>. QED BY <1>2, <1>4, <1>5, <1>6, <1>7, <1>8, <1>9, <1>10, <1>11, <1>12 DEF IInv

\* Moving the block changes neither the entries nor the room for them.
LEMMA MoveBlockKeeps ==
  ASSUME IInv, MoveBlock
  PROVE  IInv'
PROOF
  <1>1. Typing
    BY Entries
  <1>2. /\ status = "running" /\ Now = "move block" /\ me \in Objs /\ Programs' /\ todo # <<>>
        /\ todo' # <<>> /\ Final' = Final /\ Now' = "set pointer" /\ Final \in {"activate", "free object", "committed"}
    <2>1. At("move block") /\ todo' = Tail(todo) /\ Programs /\ todo # <<>>
      BY DEF MoveBlock, At, Done, Goto, IInv
    <2>2. Now = "move block" /\ status = "running"
      BY <2>1, Due
    <2>3. todo' # <<>> /\ Final' = Final /\ Now' = "set pointer" /\ Final \in {"activate", "free object", "committed"}
      BY <2>1, <2>2, Advance DEF Follows, Finals
    <2>4. me \in Objs
      BY <2>1, <2>3, Due DEF Cleaning
    <2>. QED BY <2>1, <2>2, <2>3, <2>4, Advance
  <1>3. /\ UNCHANGED <<fs, temps, kept, pending, obj, list, alloc, dispo, me, dest, cursor,
                       blocked, slack, status>>
        /\ arr' \in {"null", "freed"}
    BY DEF MoveBlock, disk, Done, Goto
  <1>4. TypeOK'
    BY <1>1, <1>2, <1>3 DEF IInv, TypeOK, Object, Programs, Program
  <1>5. Mine'
    BY <1>1, <1>2, <1>3 DEF Typing, IInv, Mine, Calling, Cleaning, Holding, Closers
  <1>6. Listed'
    BY <1>1, <1>2, <1>3 DEF IInv, Listed, Files, OnTheList, Cleaning
  <1>7. Arriving'
    BY <1>1, <1>2, <1>3 DEF IInv, Arriving, OnTheList
  <1>8. Cleaned'
    BY <1>1, <1>2, <1>3 DEF IInv, Cleaned, Files
  <1>9. Apart'
    BY <1>1, <1>2, <1>3 DEF IInv, Apart, Files, PathsInUse, Calling, Cleaning
  <1>10. Safe'
    BY <1>1, <1>2, <1>3 DEF IInv, Safe, Files, PathsInUse, Cleaning, Closers
  <1>11. Remembered'
    BY <1>1, <1>2, <1>3 DEF IInv, Remembered, Files, PathsInUse, Cleaning
  <1>12. Owned'
    BY <1>1, <1>2, <1>3 DEF IInv, Owned, Files, PathsInUse, Cleaning
  <1>. QED BY <1>2, <1>4, <1>5, <1>6, <1>7, <1>8, <1>9, <1>10, <1>11, <1>12 DEF IInv

LEMMA SetPointerKeeps ==
  ASSUME IInv, SetPointer
  PROVE  IInv'
PROOF
  <1>1. Typing
    BY Entries
  <1>2. /\ status = "running" /\ Now = "set pointer" /\ me \in Objs /\ Programs' /\ todo # <<>>
        /\ todo' # <<>> /\ Final' = Final
        /\ \/ Now' = "append" /\ Final = "activate"
           \/ Now' = "free object" /\ Final \in {"free object", "committed"}
    <2>1. At("set pointer") /\ todo' = Tail(todo) /\ Programs /\ todo # <<>>
      BY DEF SetPointer, At, Done, Goto, IInv
    <2>2. Now = "set pointer" /\ status = "running"
      BY <2>1, Due
    <2>3. todo' # <<>> /\ Final' = Final
        /\ \/ Now' = "append" /\ Final = "activate"
           \/ Now' = "free object" /\ Final \in {"free object", "committed"}
      BY <2>1, <2>2, Advance DEF Follows, Finals
    <2>4. me \in Objs
      BY <2>1, <2>3, Due DEF Cleaning
    <2>. QED BY <2>1, <2>2, <2>3, <2>4, Advance
  <1>3. /\ UNCHANGED <<fs, temps, kept, pending, obj, list, alloc, dispo, me, dest, cursor,
                       blocked, slack, status>>
        /\ arr' = "live"
    BY DEF SetPointer, disk, Done, Goto
  <1>4. TypeOK'
    BY <1>1, <1>2, <1>3 DEF IInv, TypeOK, Object, Programs, Program
  <1>5. Mine'
    BY <1>1, <1>2, <1>3 DEF Typing, IInv, Mine, Calling, Cleaning, Holding, Closers
  <1>6. Listed'
    BY <1>1, <1>2, <1>3 DEF IInv, Listed, Files, OnTheList, Cleaning
  <1>7. Arriving'
    BY <1>1, <1>2, <1>3 DEF IInv, Arriving, OnTheList
  <1>8. Cleaned'
    BY <1>1, <1>2, <1>3 DEF IInv, Cleaned, Files
  <1>9. Apart'
    BY <1>1, <1>2, <1>3 DEF IInv, Apart, Files, PathsInUse, Calling, Cleaning
  <1>10. Safe'
    BY <1>1, <1>2, <1>3 DEF IInv, Safe, Files, PathsInUse, Cleaning, Closers
  <1>11. Remembered'
    BY <1>1, <1>2, <1>3 DEF IInv, Remembered, Files, PathsInUse, Cleaning
  <1>12. Owned'
    BY <1>1, <1>2, <1>3 DEF IInv, Owned, Files, PathsInUse, Cleaning
  <1>. QED BY <1>2, <1>4, <1>5, <1>6, <1>7, <1>8, <1>9, <1>10, <1>11, <1>12 DEF IInv

\* The object stops being a file: what it leaves was unlinked, renamed or is complete.
LEMMA InactiveKeeps ==
  ASSUME IInv, Inactive
  PROVE  IInv'
PROOF
  <1>1. Typing
    BY Entries
  <1>2. /\ status = "running" /\ Now = "inactive" /\ me \in Objs /\ Programs' /\ todo # <<>>
        /\ todo' # <<>> /\ Final' = Final /\ Now' = "free name" /\ Final \in {"free object", "committed"}
    <2>1. At("inactive") /\ todo' = Tail(todo) /\ Programs /\ todo # <<>>
      BY DEF Inactive, At, Done, Goto, IInv
    <2>2. Now = "inactive" /\ status = "running"
      BY <2>1, Due
    <2>3. todo' # <<>> /\ Final' = Final /\ Now' = "free name" /\ Final \in {"free object", "committed"}
      BY <2>1, <2>2, Advance DEF Follows, Finals
    <2>4. me \in Objs
      BY <2>1, <2>3, Due DEF Cleaning
    <2>. QED BY <2>1, <2>2, <2>3, <2>4, Advance
  <1>3. /\ UNCHANGED <<fs, temps, kept, pending, arr, list, alloc, dispo, me, dest, cursor,
                       blocked, slack, status>>
        /\ Files' = Files \ {me}
        /\ obj' \in [Objs -> Object]
        /\ \A o \in Objs :
             /\ obj'[o].mem = obj[o].mem
             /\ obj'[o].named = obj[o].named
             /\ obj'[o].active <=> (o # me /\ obj[o].active)
             /\ obj'[o].fd = obj[o].fd
             /\ obj'[o].fp = obj[o].fp
             /\ obj'[o].path = obj[o].path
    <2>1. obj' = [obj EXCEPT ![me].active = FALSE] /\ obj \in [Objs -> Object]
      BY <1>1 DEF Typing, Inactive
    <2>2. /\ obj' \in [Objs -> Object]
          /\ \A o \in Objs :
               /\ obj'[o].mem = obj[o].mem
               /\ obj'[o].named = obj[o].named
               /\ obj'[o].active <=> (o # me /\ obj[o].active)
               /\ obj'[o].fd = obj[o].fd
               /\ obj'[o].fp = obj[o].fp
               /\ obj'[o].path = obj[o].path
      BY <1>2, <2>1 DEF Object
    <2>3. Files' = Files \ {me}
      BY <2>2 DEF Files
    <2>. QED BY <2>2, <2>3 DEF Inactive, disk, Done, Goto
  <1>4. TypeOK'
    BY <1>1, <1>2, <1>3 DEF IInv, TypeOK, Object, Programs, Program
  <1>5. Mine'
    BY <1>1, <1>2, <1>3 DEF Typing, IInv, Mine, Calling, Cleaning, Holding, Closers
  <1>6. Listed'
    <2>1. /\ \A o : OnTheList(o)' <=> OnTheList(o)
          /\ \A o \in Files' : OnTheList(o)'
          /\ \A k \in 1 .. Len(list') : obj'[list'[k]].mem = "live"
      BY <1>3, SameList
    <2>2. \A o \in Files' : (obj[o].named /\ obj[o].mem = "live" /\ dispo = "handler")'
      BY <1>1, <1>2, <1>3 DEF Typing, IInv, Listed
    <2>. QED BY <1>2, <1>3, <2>1, <2>2 DEF IInv, Listed, Cleaning
  <1>7. Arriving'
    BY <1>1, <1>2, <1>3 DEF IInv, Arriving, OnTheList
  <1>8. Cleaned'
    BY <1>1, <1>2, <1>3 DEF IInv, Cleaned, Files
  <1>9. Apart'
    <2>1. \A o, q \in Files' : o # q => obj'[o].path # obj'[q].path
      BY <1>3, FewerFiles
    <2>2. Calling' => \A o \in Files' \ {me'} : obj'[o].path # obj'[me'].path
      BY <1>1, <1>2, <1>3 DEF Typing, IInv, Apart, Calling, Cleaning
    <2>. QED BY <1>2, <2>1, <2>2 DEF Apart
  <1>10. Safe'
    <2>1. PathsInUse' \subseteq PathsInUse
      BY <1>3, FewerFiles
    <2>2. kept' \cap PathsInUse' = {}
      BY <1>3, <2>1 DEF IInv, Safe
    <2>3. \A o \in Files' : obj'[o].fd \/ fs[obj'[o].path] \in {"complete", "torn"}
      BY <1>1, <1>2, <1>3 DEF Typing, IInv, Safe, Cleaning, Closers
    <2>. QED BY <1>1, <1>2, <1>3, <2>2, <2>3 DEF IInv, Safe, Closers
  <1>11. Remembered'
    <2>1. \A p \in PathsInUse : p \in PathsInUse' \/ (p = obj[me].path /\ obj[me].active)
      BY <1>1, <1>3 DEF Typing, PathsInUse
    <2>2. Final = "free object" => obj[me].path \notin temps \/ ~obj[me].active
      BY <1>2 DEF IInv, Remembered
    <2>3. Final = "committed" => pending.path = obj[me].path
      BY DEF IInv, Remembered
    <2>4. \A p \in temps' : fs'[p] = "absent" \/ pending'.path = p \/ p \in PathsInUse'
      BY <1>2, <1>3, <2>1, <2>2, <2>3 DEF IInv, Remembered
    <2>. QED BY <1>2, <1>3, <2>4 DEF IInv, Remembered, Cleaning
  <1>12. Owned'
    BY <1>1, <1>2, <1>3 DEF IInv, Owned, Files, PathsInUse, Cleaning
  <1>. QED BY <1>2, <1>4, <1>5, <1>6, <1>7, <1>8, <1>9, <1>10, <1>11, <1>12 DEF IInv

\* The name is freed when the object is no file any more.
LEMMA FreeNameKeeps ==
  ASSUME IInv, FreeName
  PROVE  IInv'
PROOF
  <1>1. Typing
    BY Entries
  <1>2. /\ status = "running" /\ Now = "free name" /\ me \in Objs /\ Programs' /\ todo # <<>>
        /\ todo' # <<>> /\ Final' = Final /\ Now' = "take out" /\ Final \in {"free object", "committed"}
    <2>1. At("free name") /\ todo' = Tail(todo) /\ Programs /\ todo # <<>>
      BY DEF FreeName, At, Done, Goto, IInv
    <2>2. Now = "free name" /\ status = "running"
      BY <2>1, Due
    <2>3. todo' # <<>> /\ Final' = Final /\ Now' = "take out" /\ Final \in {"free object", "committed"}
      BY <2>1, <2>2, Advance DEF Follows, Finals
    <2>4. me \in Objs
      BY <2>1, <2>3, Due DEF Cleaning
    <2>. QED BY <2>1, <2>2, <2>3, <2>4, Advance
  <1>3. /\ UNCHANGED <<fs, temps, kept, pending, arr, list, alloc, dispo, me, dest, cursor,
                       blocked, slack, status>>
        /\ Files' = Files /\ PathsInUse' = PathsInUse /\ me \notin Files
        /\ obj' \in [Objs -> Object]
        /\ \A o \in Objs :
             /\ obj'[o].mem = obj[o].mem
             /\ obj'[o].named <=> (o # me /\ obj[o].named)
             /\ obj'[o].active = obj[o].active
             /\ obj'[o].fd = obj[o].fd
             /\ obj'[o].fp = obj[o].fp
             /\ obj'[o].path = obj[o].path
    <2>1. obj' = [obj EXCEPT ![me].named = FALSE] /\ obj \in [Objs -> Object]
      BY <1>1 DEF Typing, FreeName
    <2>2. /\ obj' \in [Objs -> Object]
          /\ \A o \in Objs :
               /\ obj'[o].mem = obj[o].mem
               /\ obj'[o].named <=> (o # me /\ obj[o].named)
               /\ obj'[o].active = obj[o].active
               /\ obj'[o].fd = obj[o].fd
               /\ obj'[o].fp = obj[o].fp
               /\ obj'[o].path = obj[o].path
      BY <1>2, <2>1 DEF Object
    <2>3. Files' = Files
      BY <2>2 DEF Files
    <2>4. PathsInUse' = PathsInUse
      BY <2>2, <2>3 DEF Files, PathsInUse
    <2>5. me \notin Files
      BY <1>2 DEF IInv, Mine, Calling, Cleaning, Holding, Closers, Files
    <2>. QED BY <2>2, <2>3, <2>4, <2>5 DEF FreeName, disk, Done, Goto
  <1>4. TypeOK'
    BY <1>1, <1>2, <1>3 DEF IInv, TypeOK, Object, Programs, Program
  <1>5. Mine'
    BY <1>1, <1>2, <1>3 DEF Typing, IInv, Mine, Calling, Cleaning, Holding, Closers
  <1>6. Listed'
    <2>1. /\ \A o : OnTheList(o)' <=> OnTheList(o)
          /\ \A o \in Files' : OnTheList(o)'
          /\ \A k \in 1 .. Len(list') : obj'[list'[k]].mem = "live"
      BY <1>3, SameList
    <2>2. \A o \in Files' : (obj[o].named /\ obj[o].mem = "live" /\ dispo = "handler")'
      BY <1>1, <1>2, <1>3, ZenonT(120) DEF Typing, IInv, Listed
    <2>. QED BY <1>2, <1>3, <2>1, <2>2 DEF IInv, Listed, Cleaning
  <1>7. Arriving'
    BY <1>1, <1>2, <1>3 DEF IInv, Arriving, OnTheList
  <1>8. Cleaned'
    BY <1>1, <1>2, <1>3 DEF IInv, Cleaned, Files
  <1>9. Apart'
    <2>1. \A o, q \in Files' : o # q => obj'[o].path # obj'[q].path
      BY <1>3, FewerFiles
    <2>2. Calling' => \A o \in Files' \ {me'} : obj'[o].path # obj'[me'].path
      BY <1>1, <1>2, <1>3 DEF Typing, IInv, Apart, Calling, Cleaning
    <2>. QED BY <1>2, <2>1, <2>2 DEF Apart
  <1>10. Safe'
    BY <1>1, <1>2, <1>3 DEF IInv, Safe, Files, PathsInUse, Cleaning, Closers
  <1>11. Remembered'
    BY <1>1, <1>2, <1>3 DEF IInv, Remembered, Files, PathsInUse, Cleaning
  <1>12. Owned'
    BY <1>1, <1>2, <1>3 DEF IInv, Owned, Files, PathsInUse, Cleaning
  <1>. QED BY <1>2, <1>4, <1>5, <1>6, <1>7, <1>8, <1>9, <1>10, <1>11, <1>12 DEF IInv

\* The object is freed when nothing on the list stands for it.
LEMMA FreeObjectKeeps ==
  ASSUME IInv, FreeObject
  PROVE  IInv'
PROOF
  <1>1. Typing
    BY Entries
  <1>2. /\ status = "running" /\ Now = "free object" /\ me \in Objs /\ Programs' /\ todo # <<>>
        /\ /\ Final' \in {Final, "idle"} /\ Final \in {"free object", "committed"}
        /\ \/ Now' = "committed" /\ Final = "committed" /\ todo' # <<>> /\ Final' = Final
           \/ Now' = "idle" /\ Final = "free object" /\ todo' = <<>> /\ Final' = "idle"
    <2>1. At("free object") /\ todo' = Tail(todo) /\ Programs /\ todo # <<>>
      BY DEF FreeObject, At, Done, Goto, IInv
    <2>2. Now = "free object" /\ status = "running"
      BY <2>1, Due
    <2>3. /\ Final' \in {Final, "idle"} /\ Final \in {"free object", "committed"}
        /\ \/ Now' = "committed" /\ Final = "committed" /\ todo' # <<>> /\ Final' = Final
           \/ Now' = "idle" /\ Final = "free object" /\ todo' = <<>> /\ Final' = "idle"
      BY <2>1, <2>2, Advance DEF Follows, Finals
    <2>4. me \in Objs
      BY <2>1, <2>3, Due DEF Cleaning
    <2>. QED BY <2>1, <2>2, <2>3, <2>4, Advance
  <1>3. /\ UNCHANGED <<fs, temps, kept, pending, arr, list, alloc, dispo, me, dest, cursor,
                       blocked, slack, status>>
        /\ Files' = Files /\ PathsInUse' = PathsInUse /\ me \notin Files
        /\ obj' \in [Objs -> Object]
        /\ \A o \in Objs :
             /\ obj'[o].mem = IF o = me THEN "freed" ELSE obj[o].mem
             /\ obj'[o].named = obj[o].named
             /\ obj'[o].active = obj[o].active
             /\ obj'[o].fd = obj[o].fd
             /\ obj'[o].fp = obj[o].fp
             /\ obj'[o].path = obj[o].path
    <2>1. obj' = [obj EXCEPT ![me].mem = "freed"] /\ obj \in [Objs -> Object]
      BY <1>1 DEF Typing, FreeObject
    <2>2. /\ obj' \in [Objs -> Object]
          /\ \A o \in Objs :
               /\ obj'[o].mem = IF o = me THEN "freed" ELSE obj[o].mem
               /\ obj'[o].named = obj[o].named
               /\ obj'[o].active = obj[o].active
               /\ obj'[o].fd = obj[o].fd
               /\ obj'[o].fp = obj[o].fp
               /\ obj'[o].path = obj[o].path
      BY <1>2, <2>1 DEF Object
    <2>3. Files' = Files
      BY <2>2 DEF Files
    <2>4. PathsInUse' = PathsInUse
      BY <2>2, <2>3 DEF Files, PathsInUse
    <2>5. me \notin Files
      BY <1>2 DEF IInv, Mine, Calling, Cleaning, Holding, Closers, Files
    <2>. QED BY <2>2, <2>3, <2>4, <2>5 DEF FreeObject, disk, Done, Goto
  <1>4. TypeOK'
    BY <1>1, <1>2, <1>3 DEF IInv, TypeOK, Object, Programs, Program
  <1>5. Mine'
    BY <1>1, <1>2, <1>3 DEF Typing, IInv, Mine, Calling, Cleaning, Holding, Closers
  <1>6. Listed'
    <2>1. ~OnTheList(me)
      BY <1>2 DEF IInv, Listed
    <2>2. \A k \in 1 .. Len(list) : list[k] \in Objs /\ list[k] # me /\ obj[list[k]].mem = "live"
      BY <1>1, <2>1 DEF Typing, OnTheList, IInv, Listed
    <2>3. \A k \in 1 .. Len(list') : obj'[list'[k]].mem = "live"
      BY <1>3, <2>2
    <2>4. \A o : OnTheList(o)' <=> OnTheList(o)
      BY <1>3 DEF OnTheList
    <2>5. \A o \in Files' : (OnTheList(o) /\ obj[o].named /\ obj[o].mem = "live" /\ dispo = "handler")'
      BY <1>1, <1>3, <2>4, ZenonT(120) DEF Typing, IInv, Listed
    <2>. QED BY <1>2, <1>3, <2>1, <2>3, <2>4, <2>5 DEF IInv, Listed, Cleaning
  <1>7. Arriving'
    BY <1>1, <1>2, <1>3 DEF IInv, Arriving, OnTheList
  <1>8. Cleaned'
    BY <1>1, <1>2, <1>3 DEF IInv, Cleaned, Files
  <1>9. Apart'
    <2>1. \A o, q \in Files' : o # q => obj'[o].path # obj'[q].path
      BY <1>3, FewerFiles
    <2>2. Calling' => \A o \in Files' \ {me'} : obj'[o].path # obj'[me'].path
      BY <1>1, <1>2, <1>3 DEF Typing, IInv, Apart, Calling, Cleaning
    <2>. QED BY <1>2, <2>1, <2>2 DEF Apart
  <1>10. Safe'
    BY <1>1, <1>2, <1>3 DEF IInv, Safe, Files, PathsInUse, Cleaning, Closers
  <1>11. Remembered'
    BY <1>1, <1>2, <1>3 DEF IInv, Remembered, Files, PathsInUse, Cleaning
  <1>12. Owned'
    BY <1>1, <1>2, <1>3 DEF IInv, Owned, Files, PathsInUse, Cleaning
  <1>. QED BY <1>2, <1>4, <1>5, <1>6, <1>7, <1>8, <1>9, <1>10, <1>11, <1>12 DEF IInv

\* The path is kept: it is complete and no object uses it.
LEMMA CommittedKeeps ==
  ASSUME IInv, Committed
  PROVE  IInv'
PROOF
  <1>1. Typing
    BY Entries
  <1>2. /\ status = "running" /\ Now = "committed" /\ me \in Objs /\ Programs' /\ todo # <<>>
        /\ Now' = "idle" /\ Final' = "idle" /\ Final = "committed" /\ todo' = <<>>
    <2>1. At("committed") /\ todo' = Tail(todo) /\ Programs /\ todo # <<>>
      BY DEF Committed, At, Done, Goto, IInv
    <2>2. Now = "committed" /\ status = "running"
      BY <2>1, Due
    <2>3. Now' = "idle" /\ Final' = "idle" /\ Final = "committed" /\ todo' = <<>>
      BY <2>1, <2>2, Advance DEF Follows, Finals
    <2>4. me \in Objs
      BY <2>1, <2>3, Due DEF Cleaning
    <2>. QED BY <2>1, <2>2, <2>3, <2>4, Advance
  <1>3. /\ UNCHANGED <<fs, obj, arr, list, alloc, dispo, me, dest, cursor, blocked, slack, status>>
        /\ kept' = kept \cup {obj[me].path} /\ temps' = temps \ {obj[me].path} /\ pending' = NoCall
    BY DEF Committed, memory, Done, Goto, path
  <1>4. TypeOK'
    <2>1. obj[me].path \in Paths
      BY <1>2 DEF IInv, Mine, Calling, Cleaning
    <2>. QED BY <1>2, <1>3, <2>1 DEF IInv, TypeOK, Object, Programs, Program, NoCall
  <1>5. Mine'
    BY <1>1, <1>2, <1>3 DEF Typing, IInv, Mine, Calling, Cleaning, Holding, Closers
  <1>6. Listed'
    BY <1>1, <1>2, <1>3 DEF IInv, Listed, Files, OnTheList, Cleaning
  <1>7. Arriving'
    BY <1>1, <1>2, <1>3 DEF IInv, Arriving, OnTheList
  <1>8. Cleaned'
    BY <1>1, <1>2, <1>3 DEF IInv, Cleaned, Files
  <1>9. Apart'
    BY <1>1, <1>2, <1>3 DEF IInv, Apart, Files, PathsInUse, Calling, Cleaning
  <1>10. Safe'
    <2>1. me \notin Files
      BY <1>2 DEF IInv, Mine, Calling, Cleaning, Holding, Closers, Files
    <2>2. obj[me].path \notin PathsInUse
      BY <1>2, <2>1 DEF IInv, Apart, Calling, Cleaning, PathsInUse
    <2>3. Files' = Files /\ PathsInUse' = PathsInUse
      BY <1>3 DEF Files, PathsInUse
    <2>4. \A o \in Files : obj[o].fd \/ fs[obj[o].path] \in {"complete", "torn"}
      BY <1>2, <2>1 DEF IInv, Safe, Cleaning, Closers
    <2>5. fs[obj[me].path] \in {"complete", "torn"}
      BY <1>2 DEF IInv, Safe
    <2>. QED BY <1>2, <1>3, <2>2, <2>3, <2>4, <2>5 DEF IInv, Safe, Closers
  <1>11. Remembered'
    BY <1>1, <1>2, <1>3 DEF IInv, Remembered, Files, PathsInUse, Cleaning
  <1>12. Owned'
    <2>1. me \notin Files
      BY <1>2 DEF IInv, Mine, Calling, Cleaning, Holding, Closers, Files
    <2>2. Files' = Files
      BY <1>3 DEF Files
    <2>3. \A o \in Files : obj[o].path # obj[me].path
      BY <1>2, <2>1 DEF IInv, Apart, Calling, Cleaning
    <2>. QED BY <1>2, <1>3, <2>1, <2>2, <2>3 DEF IInv, Owned, Cleaning
  <1>. QED BY <1>2, <1>4, <1>5, <1>6, <1>7, <1>8, <1>9, <1>10, <1>11, <1>12 DEF IInv

\* The file of the call is removed: no other object has its path.
LEMMA UnlinkMeKeeps ==
  ASSUME IInv, UnlinkMe
  PROVE  IInv'
PROOF
  <1>1. Typing
    BY Entries
  <1>2. /\ status = "running" /\ Now = "unlink me" /\ me \in Objs /\ Programs' /\ todo # <<>>
        /\ todo' # <<>> /\ Final' = Final /\ Now' = "inactive" /\ Final = "free object"
    <2>1. At("unlink me") /\ todo' = Tail(todo) /\ Programs /\ todo # <<>>
      BY DEF UnlinkMe, At, Done, Goto, IInv
    <2>2. Now = "unlink me" /\ status = "running"
      BY <2>1, Due
    <2>3. todo' # <<>> /\ Final' = Final /\ Now' = "inactive" /\ Final = "free object"
      BY <2>1, <2>2, Advance DEF Follows, Finals
    <2>4. me \in Objs
      BY <2>1, <2>3, Due DEF Cleaning
    <2>. QED BY <2>1, <2>2, <2>3, <2>4, Advance
  <1>3. /\ UNCHANGED <<kept, pending, obj, arr, list, alloc, dispo, me, dest, cursor, blocked,
                       slack, status>>
        /\ fs' = [fs EXCEPT ![obj[me].path] = "absent"] /\ temps' = temps \ {obj[me].path}
    BY DEF UnlinkMe, memory, Done, Goto, path
  <1>4. TypeOK'
    BY <1>1, <1>2, <1>3 DEF IInv, TypeOK, Object, Programs, Program
  <1>5. Mine'
    BY <1>1, <1>2, <1>3 DEF Typing, IInv, Mine, Calling, Cleaning, Holding, Closers
  <1>6. Listed'
    BY <1>1, <1>2, <1>3 DEF IInv, Listed, Files, OnTheList, Cleaning
  <1>7. Arriving'
    BY <1>1, <1>2, <1>3 DEF IInv, Arriving, OnTheList
  <1>8. Cleaned'
    BY <1>1, <1>2, <1>3 DEF IInv, Cleaned, Files
  <1>9. Apart'
    BY <1>1, <1>2, <1>3 DEF IInv, Apart, Files, PathsInUse, Calling, Cleaning
  <1>10. Safe'
    <2>1. obj[me].path \in PathsInUse /\ \A o \in Files \ {me} : obj[o].path # obj[me].path
      BY <1>2 DEF IInv, Mine, Apart, Calling, Cleaning, Holding, Files, PathsInUse
    <2>2. Files' = Files /\ PathsInUse' = PathsInUse
      BY <1>3 DEF Files, PathsInUse
    <2>3. \A p \in kept : fs'[p] \in {"complete", "torn"}
      BY <1>1, <1>3, <2>1 DEF IInv, Safe, Typing
    <2>4. \A o \in Files : obj[o].fd \/ fs'[obj[o].path] \in {"complete", "torn"} \/ o = me
      BY <1>1, <1>2, <1>3, <2>1 DEF IInv, Safe, Typing, Cleaning, Closers
    <2>5. kept \cap PathsInUse = {}
      BY DEF IInv, Safe
    <2>. QED BY <1>2, <1>3, <2>2, <2>3, <2>4, <2>5 DEF Safe, Closers
  <1>11. Remembered'
    <2>1. PathsInUse' = PathsInUse
      BY <1>3 DEF Files, PathsInUse
    <2>2. \A p \in temps' : fs'[p] = fs[p] /\ p \in temps
      BY <1>1, <1>3 DEF Typing
    <2>3. \A p \in temps' : fs'[p] = "absent" \/ pending'.path = p \/ p \in PathsInUse'
      BY <1>3, <2>1, <2>2 DEF IInv, Remembered
    <2>. QED BY <1>2, <1>3, <2>3 DEF IInv, Remembered, Cleaning
  <1>12. Owned'
    <2>1. /\ obj[me].path \in Paths /\ \A o \in Files \ {me} : obj[o].path # obj[me].path
      BY <1>2 DEF IInv, Mine, Apart, Calling, Cleaning
    <2>2. Files' = Files
      BY <1>3 DEF Files
    <2>3. \A o \in Files : obj[o].path \in temps
      BY <1>2 DEF IInv, Owned, Cleaning
    <2>4. \A o \in Files : obj[o].path \in temps' \/ (o = me /\ fs'[obj[o].path] = "absent")
      BY <1>1, <1>3, <2>1, <2>3 DEF Typing
    <2>. QED BY <1>2, <1>3, <2>2, <2>4 DEF Owned
  <1>. QED BY <1>2, <1>4, <1>5, <1>6, <1>7, <1>8, <1>9, <1>10, <1>11, <1>12 DEF IInv

\* The content of one file changes; an error leads to another end of the call.
LEMMA CloseFileKeeps ==
  ASSUME IInv, NEW how \in Closers, CloseFile(how)
  PROVE  IInv'
PROOF
  <1>1. Typing
    BY Entries
  <1>2. /\ status = "running" /\ Now = how /\ me \in Objs /\ Programs' /\ todo # <<>>
        /\ \/ Now' = "idle" /\ Final' = "idle" /\ todo' = <<>>
           \/ Now' \in {"unlink me", "rename"} /\ Final' = "free object" /\ todo' # <<>>
           \/ Now' = "inactive" /\ Final' = "committed" /\ todo' # <<>>
        /\ Final' = "committed" => Final = "committed"
        /\ Now' = "rename" => Now = "close or delete"
        /\ Final \in {"close", "free object", "committed"}
    <2>1. At(how) /\ Programs /\ todo # <<>>
      BY DEF CloseFile, At, IInv
    <2>2. Now = how /\ status = "running"
      BY <2>1, Due
    <2>3. /\ how = "close" => Final \in {"close", "free object"}
          /\ how = "close or delete" => Final = "free object"
          /\ how = "close or fail" => Final = "committed"
      <3>1. Len(todo) = 1 => Final = how
        BY <2>1, <2>2, Heads
      <3>2. Len(todo) # 1 => Follows(how, todo[2], Final)
        BY <2>1, <2>2, Heads
      <3>3. Final \in Finals
        BY <2>1, Due
      <3>. QED BY <3>1, <3>2, <3>3 DEF Follows, Finals, Closers
    <2>4. me \in Objs
      BY <2>1, <2>3, Due DEF Cleaning, Closers
    <2>5. CASE todo' = Tail(todo)
      BY <2>1, <2>2, <2>3, <2>4, <2>5, Advance DEF Follows, Finals, Closers
    <2>6. CASE how = "close or delete" /\ todo' = DeleteSteps
      <3>1. Programs' /\ todo' # <<>> /\ Now' = "unlink me" /\ Final' = "free object"
        BY <2>6, Whole, Written DEF Finals
      <3>. QED BY <2>1, <2>2, <2>3, <2>4, <2>6, <3>1
    <2>7. CASE how = "close or fail" /\ todo' = <<>>
      <3>1. Programs' /\ Now' = "idle" /\ Final' = "idle"
        BY <2>7, Nothing
      <3>. QED BY <2>1, <2>2, <2>3, <2>4, <2>7, <3>1
    <2>8. todo' = Tail(todo) \/ (how = "close or delete" /\ todo' = DeleteSteps)
            \/ (how = "close or fail" /\ todo' = <<>>)
      BY DEF CloseFile, Done, Goto, Closers
    <2>. QED BY <2>5, <2>6, <2>7, <2>8
  <1>3. /\ UNCHANGED <<temps, kept, obj, arr, list, alloc, dispo, me, dest, cursor, blocked,
                       slack, status>>
        /\ Files' = Files /\ PathsInUse' = PathsInUse /\ me \in Files /\ obj[me].path \in Paths
        /\ \/ fs' = [fs EXCEPT ![obj[me].path] = "complete"]
           \/ fs' = [fs EXCEPT ![obj[me].path] = "torn"]
        /\ pending' \in {pending, NoCall}
        /\ Final' = "committed" => pending' = pending
        /\ Final' # "committed" => pending' = NoCall
        /\ ~obj[me].fd /\ obj[me].path \in PathsInUse
        /\ \A o \in Files \ {me} : obj[o].path # obj[me].path
    <2>1. /\ UNCHANGED <<temps, kept, memory, dispo, me, dest, cursor, blocked, slack, status>>
          /\ \/ fs' = [fs EXCEPT ![obj[me].path] = "complete"]
             \/ fs' = [fs EXCEPT ![obj[me].path] = "torn"]
          /\ pending' \in {pending, NoCall}
      BY DEF CloseFile, Done, Goto, path
    <2>2. Final' = "committed" => pending' = pending
      <3>1. CASE pending' = pending
        BY <3>1
      <3>2. CASE todo' = Tail(todo) /\ how = "close" /\ pending' = NoCall
        BY <1>2, <3>2, Advance DEF Follows, IInv
      <3>3. CASE how = "close or delete" /\ todo' = DeleteSteps
        <4>1. Final' = "free object"
          BY <3>3, Whole, Written DEF Finals
        <4>. QED BY <4>1
      <3>4. CASE how = "close or fail" /\ todo' = <<>>
        BY <3>4 DEF Final
      <3>5. \/ pending' = pending
            \/ /\ pending' = NoCall
               /\ \/ how = "close" /\ todo' = Tail(todo)
                  \/ how = "close or delete" /\ todo' = DeleteSteps
                  \/ how = "close or fail" /\ todo' = <<>>
        BY DEF CloseFile, Goto, Closers
      <3>. QED BY <3>1, <3>2, <3>3, <3>4, <3>5
    <2>3. Final' # "committed" => pending' = NoCall
      <3>1. CASE pending' = NoCall
        BY <3>1
      <3>2. CASE pending' = pending /\ todo' = Tail(todo)
        <4>1. Final = "committed" => Final' = "committed"
          BY <1>2, <3>2, Advance DEF IInv, Closers
        <4>2. Final # "committed" => pending = NoCall
          BY <1>2 DEF IInv, Remembered, Cleaning
        <4>. QED BY <3>2, <4>1, <4>2
      <3>3. pending' = NoCall \/ (pending' = pending /\ todo' = Tail(todo))
        BY DEF CloseFile, Done, Goto
      <3>. QED BY <3>1, <3>2, <3>3
    <2>4. me \in Files /\ ~obj[me].fd /\ \A o \in Files \ {me} : obj[o].path # obj[me].path
      BY <1>1, <1>2 DEF IInv, Mine, Safe, Apart, Calling, Cleaning, Holding, Typing
    <2>5. obj[me].path \in PathsInUse /\ obj[me].path \in Paths
      BY <1>1, <2>4 DEF PathsInUse, Typing
    <2>6. Files' = Files /\ PathsInUse' = PathsInUse /\ UNCHANGED <<obj, arr, list, alloc>>
      BY <2>1 DEF memory, Files, PathsInUse
    <2>. QED BY <2>1, <2>2, <2>4, <2>5, <2>3, <2>6
  <1>4. TypeOK'
    <2>1. fs' \in [Paths -> {"absent", "user", "partial", "torn", "complete"}]
      BY <1>1, <1>3 DEF Typing
    <2>2. NoCall \in [op : {"none", "create", "commit"}, path : Paths \cup {NoPath}]
      BY DEF NoCall
    <2>. QED BY <1>2, <1>3, <2>1, <2>2 DEF IInv, TypeOK, Programs, Program
  <1>5. Mine'
    BY <1>1, <1>2, <1>3 DEF Typing, IInv, Mine, Calling, Cleaning, Holding, Closers
  <1>6. Listed'
    BY <1>1, <1>2, <1>3 DEF IInv, Listed, Files, OnTheList, Cleaning
  <1>7. Arriving'
    BY <1>1, <1>2, <1>3 DEF IInv, Arriving, OnTheList
  <1>8. Cleaned'
    BY <1>1, <1>2, <1>3 DEF IInv, Cleaned, Files
  <1>9. Apart'
    BY <1>1, <1>2, <1>3 DEF IInv, Apart, Files, PathsInUse, Calling, Cleaning
  <1>10. Safe'
    <2>1. /\ fs'[obj[me].path] \in {"complete", "torn"}
          /\ \A p \in Paths : p # obj[me].path => fs'[p] = fs[p]
      BY <1>1, <1>3 DEF Typing
    <2>2. \A p \in kept : fs'[p] \in {"complete", "torn"}
      BY <1>1, <2>1 DEF IInv, Safe, Typing
    <2>3. \A o \in Files : obj[o].fd \/ fs'[obj[o].path] \in {"complete", "torn"}
      BY <1>1, <1>2, <1>3, <2>1 DEF IInv, Safe, Typing, Cleaning, Closers
    <2>4. kept \cap PathsInUse = {}
      BY DEF IInv, Safe
    <2>. QED BY <1>2, <1>3, <2>1, <2>2, <2>3, <2>4 DEF Safe, Closers
  <1>11. Remembered'
    <2>1. \A p \in temps : p # obj[me].path => fs'[p] = fs[p]
      BY <1>1, <1>3 DEF Typing
    <2>2. Final = "committed" => pending.path = obj[me].path
      BY DEF IInv, Remembered
    <2>3. Final # "committed" => pending = NoCall
      BY <1>2 DEF IInv, Remembered, Cleaning
    <2>4. \A p \in temps : fs'[p] = "absent" \/ pending'.path = p \/ p \in PathsInUse
      BY <1>2, <1>3, <2>1, <2>2, <2>3 DEF IInv, Remembered
    <2>. QED BY <1>2, <1>3, <2>2, <2>3, <2>4 DEF Remembered, Cleaning
  <1>12. Owned'
    <2>1. \A o \in Files : obj[o].path \in temps
      BY <1>2, <1>3 DEF IInv, Owned, Cleaning, Closers
    <2>. QED BY <1>2, <1>3, <2>1 DEF Owned
  <1>. QED BY <1>2, <1>4, <1>5, <1>6, <1>7, <1>8, <1>9, <1>10, <1>11, <1>12 DEF IInv

\* The destination takes what was closed before, and no object uses it.
LEMMA RenameFileKeeps ==
  ASSUME IInv, RenameFile
  PROVE  IInv'
PROOF
  <1>1. Typing
    BY Entries
  <1>2. /\ status = "running" /\ Now = "rename" /\ me \in Objs /\ Programs' /\ todo # <<>>
        /\ todo' # <<>> /\ Now' \in {"inactive", "unlink me"} /\ Final' = "free object" /\ Final = "free object"
        /\ Now' = "inactive" => todo' = Tail(todo)
        /\ todo' = Tail(todo) => Now' = "inactive"
        /\ todo' = DeleteSteps => Now' = "unlink me"
    <2>1. At("rename") /\ Programs /\ todo # <<>>
      BY DEF RenameFile, At, IInv
    <2>2. Now = "rename" /\ status = "running"
      BY <2>1, Due
    <2>3. Final = "free object"
      <3>1. Len(todo) = 1 => Final = "rename"
        BY <2>1, <2>2, Heads
      <3>2. Len(todo) # 1 => Follows("rename", todo[2], Final)
        BY <2>1, <2>2, Heads
      <3>3. Final \in Finals
        BY <2>1, Due
      <3>. QED BY <3>1, <3>2, <3>3 DEF Follows, Finals
    <2>4. me \in Objs
      BY <2>1, <2>3, Due DEF Cleaning
    <2>5. todo' = Tail(todo) => Programs' /\ todo' # <<>> /\ Now' = "inactive" /\ Final' = "free object"
      BY <2>1, <2>2, <2>3, Advance DEF Follows, Finals
    <2>6. todo' = DeleteSteps => Programs' /\ todo' # <<>> /\ Now' = "unlink me" /\ Final' = "free object"
      BY Whole, Written DEF Finals
    <2>7. todo' = Tail(todo) \/ todo' = DeleteSteps
      BY DEF RenameFile, Done, Goto
    <2>. QED BY <2>1, <2>2, <2>3, <2>4, <2>5, <2>6, <2>7
  <1>3. /\ UNCHANGED <<pending, obj, arr, list, alloc, dispo, me, dest, cursor, blocked, slack,
                       status>>
        /\ Files' = Files /\ PathsInUse' = PathsInUse /\ me \in Files /\ obj[me].path \in Paths
        /\ obj[me].path \in PathsInUse /\ dest \in Paths /\ dest \notin PathsInUse
        /\ \A o \in Files \ {me} : obj[o].path # obj[me].path
        /\ \A o \in Files : obj[o].path # dest
        /\ fs[obj[me].path] \in {"complete", "torn"} /\ ~obj[me].fd
        /\ \/ /\ Now' = "inactive"
              /\ fs' = [fs EXCEPT ![obj[me].path] = "absent", ![dest] = fs[obj[me].path]]
              /\ temps' = temps \ {obj[me].path, dest}
              /\ kept' = (kept \ {obj[me].path}) \cup {dest}
           \/ Now' = "unlink me" /\ UNCHANGED <<fs, temps, kept>>
    <2>1. /\ UNCHANGED <<pending, obj, arr, list, alloc, dispo, me, dest, cursor, blocked, slack,
                         status>>
          /\ \/ /\ Now' = "inactive"
                /\ fs' = [fs EXCEPT ![obj[me].path] = "absent", ![dest] = fs[obj[me].path]]
                /\ temps' = temps \ {obj[me].path, dest}
                /\ kept' = (kept \ {obj[me].path}) \cup {dest}
             \/ Now' = "unlink me" /\ UNCHANGED <<fs, temps, kept>>
      BY <1>2 DEF RenameFile, Done, Goto, path, disk, memory
    <2>2. /\ me \in Files /\ ~obj[me].fd /\ \A o \in Files \ {me} : obj[o].path # obj[me].path
          /\ dest \in Paths /\ dest \notin PathsInUse
      BY <1>1, <1>2 DEF IInv, Mine, Safe, Apart, Calling, Cleaning, Holding, Typing
    <2>3. obj[me].path \in PathsInUse /\ obj[me].path \in Paths
      BY <1>1, <2>2 DEF PathsInUse, Typing
    <2>4. fs[obj[me].path] \in {"complete", "torn"}
      BY <1>2, <2>2 DEF IInv, Safe, Cleaning, Closers
    <2>5. \A o \in Files : obj[o].path # dest
      BY <2>2 DEF PathsInUse
    <2>6. Files' = Files /\ PathsInUse' = PathsInUse
      BY <2>1 DEF Files, PathsInUse
    <2>. QED BY <2>1, <2>2, <2>3, <2>4, <2>5, <2>6
  <1>4. TypeOK'
    BY <1>1, <1>2, <1>3 DEF IInv, TypeOK, Object, Programs, Program
  <1>5. Mine'
    BY <1>1, <1>2, <1>3 DEF Typing, IInv, Mine, Calling, Cleaning, Holding, Closers
  <1>6. Listed'
    BY <1>1, <1>2, <1>3 DEF IInv, Listed, Files, OnTheList, Cleaning
  <1>7. Arriving'
    BY <1>1, <1>2, <1>3 DEF IInv, Arriving, OnTheList
  <1>8. Cleaned'
    BY <1>1, <1>2, <1>3 DEF IInv, Cleaned, Files
  <1>9. Apart'
    BY <1>1, <1>2, <1>3 DEF IInv, Apart, Files, PathsInUse, Calling, Cleaning
  <1>10. Safe'
    <2>1. kept \cap PathsInUse = {} /\ \A p \in kept : fs[p] \in {"complete", "torn"}
      BY DEF IInv, Safe
    <2>2. /\ \A p \in Paths : p \notin {obj[me].path, dest} => fs'[p] = fs[p]
          /\ dest \in kept' => fs'[dest] \in {"complete", "torn"}
          /\ \A p \in kept' : p = dest \/ (p \in kept /\ p # obj[me].path)
      BY <1>1, <1>2, <1>3, <2>1 DEF Typing
    <2>3. \A p \in kept' : fs'[p] \in {"complete", "torn"}
      BY <1>1, <2>1, <2>2 DEF Typing
    <2>4. kept' \cap PathsInUse' = {}
      BY <1>3, <2>1
    <2>5. \A o \in Files : obj[o].fd \/ fs[obj[o].path] \in {"complete", "torn"}
      BY <1>2, <1>3 DEF IInv, Safe, Cleaning, Closers
    <2>6. \A o \in Files : o # me => fs'[obj[o].path] = fs[obj[o].path]
      BY <1>1, <1>3, ZenonT(120) DEF Typing
    <2>7. \A o \in Files : obj[o].fd \/ fs'[obj[o].path] \in {"complete", "torn"} \/ (o = me /\ Now' = "inactive")
      BY <1>1, <1>3, <2>5, <2>6 DEF Typing
    <2>. QED BY <1>2, <1>3, <2>3, <2>4, <2>7 DEF Safe, Closers
  <1>11. Remembered'
    <2>1. \A p \in temps' : p \in temps /\ fs'[p] = fs[p]
      BY <1>1, <1>3 DEF Typing
    <2>2. \A p \in temps' : fs'[p] = "absent" \/ pending'.path = p \/ p \in PathsInUse'
      BY <1>3, <2>1 DEF IInv, Remembered
    <2>. QED BY <1>2, <1>3, <2>2 DEF IInv, Remembered, Cleaning
  <1>12. Owned'
    <2>1. \A o \in Files : obj[o].path \in temps
      BY <1>2, <1>3 DEF IInv, Owned, Cleaning
    <2>2. \A o \in Files : o # me => obj[o].path \in temps'
      BY <1>3, <2>1
    <2>3. Now' = "inactive" => fs'[obj[me].path] = "absent"
      BY <1>1, <1>2, <1>3 DEF Typing
    <2>4. Now' # "inactive" => obj[me].path \in temps'
      BY <1>3, <2>1
    <2>. QED BY <1>2, <1>3, <2>2, <2>3, <2>4 DEF Owned
  <1>. QED BY <1>2, <1>4, <1>5, <1>6, <1>7, <1>8, <1>9, <1>10, <1>11, <1>12 DEF IInv

\* A new file, or the start of giving the object back.
LEMMA OpenKeeps ==
  ASSUME IInv, Open
  PROVE  IInv'
PROOF
  <1>1. Typing
    BY Entries
  <1>2. /\ status = "running" /\ Now \in {"open new", "open any"} /\ Final = Now /\ me \in Objs /\ Programs'
        /\ todo' # <<>> /\ todo # <<>>
        /\ \/ todo' = ActivateSteps /\ Now' = "register" /\ Final' = "activate"
           \/ todo' = DeactivateSteps /\ Now' = "inactive" /\ Final' = "free object"
        /\ todo' = ActivateSteps => Now' = "register"
        /\ todo' = DeactivateSteps => Now' = "inactive"
    <2>1. Programs /\ todo # <<>> /\ Now \in {"open new", "open any"} /\ status = "running"
      <3>1. \E s \in {"open new", "open any"} : At(s)
        BY DEF Open
      <3>2. PICK s \in {"open new", "open any"} : At(s)
        BY <3>1
      <3>. QED BY <3>2, Due DEF IInv
    <2>2. Final = Now
      BY <2>1, Heads DEF Follows, Finals
    <2>3. me \in Objs
      BY <2>1, <2>2 DEF IInv, Mine, Calling, Cleaning
    <2>4. todo' = ActivateSteps => Programs' /\ todo' # <<>> /\ Now' = "register" /\ Final' = "activate"
      BY Whole, Written DEF Finals
    <2>5. todo' = DeactivateSteps => Programs' /\ todo' # <<>> /\ Now' = "inactive" /\ Final' = "free object"
      BY Whole, Written DEF Finals
    <2>6. todo' = ActivateSteps \/ todo' = DeactivateSteps
      BY DEF Open, Goto
    <2>. QED BY <2>1, <2>2, <2>3, <2>4, <2>5, <2>6
  <1>3. /\ UNCHANGED <<arr, list, alloc, dispo, me, dest, cursor, blocked, slack, status>>
        /\ Files' = Files /\ PathsInUse' = PathsInUse /\ me \notin Files /\ obj[me].path \in Paths
        /\ obj[me].path \notin PathsInUse
        /\ \A o \in Files : obj[o].path # obj[me].path
        /\ /\ obj' \in [Objs -> Object]
           /\ \A o \in Objs :
                /\ obj'[o].mem = obj[o].mem
                /\ obj'[o].named = obj[o].named
                /\ obj'[o].active = obj[o].active
                /\ o # me => (obj'[o].fd <=> obj[o].fd)
                /\ obj'[o].fp = obj[o].fp
                /\ obj'[o].path = obj[o].path
        /\ \/ /\ Now' = "register" /\ obj'[me].fd
              /\ fs' = [fs EXCEPT ![obj[me].path] = "partial"]
              /\ temps' = temps \cup {obj[me].path} /\ kept' = kept \ {obj[me].path}
              /\ pending' = [op |-> "create", path |-> obj[me].path]
           \/ Now' = "inactive" /\ UNCHANGED <<fs, temps, kept, pending>>
    <2>1. obj' = [obj EXCEPT ![me].fd = TRUE] \/ obj' = obj
      BY DEF Open, memory
    <2>2. obj \in [Objs -> Object]
      BY <1>1 DEF Typing
    <2>3. ASSUME obj' = [obj EXCEPT ![me].fd = TRUE]
           PROVE  /\ obj' \in [Objs -> Object]
                  /\ \A o \in Objs :
                       /\ obj'[o].mem = obj[o].mem
                       /\ obj'[o].named = obj[o].named
                       /\ obj'[o].active = obj[o].active
                       /\ o # me => (obj'[o].fd <=> obj[o].fd)
                       /\ obj'[o].fp = obj[o].fp
                       /\ obj'[o].path = obj[o].path
      BY <1>2, <2>2, <2>3 DEF Object
    <2>4. ASSUME obj' = obj
           PROVE  /\ obj' \in [Objs -> Object]
                  /\ \A o \in Objs :
                       /\ obj'[o].mem = obj[o].mem
                       /\ obj'[o].named = obj[o].named
                       /\ obj'[o].active = obj[o].active
                       /\ o # me => (obj'[o].fd <=> obj[o].fd)
                       /\ obj'[o].fp = obj[o].fp
                       /\ obj'[o].path = obj[o].path
      BY <2>2, <2>4
    <2>5. /\ obj' \in [Objs -> Object]
          /\ \A o \in Objs :
               /\ obj'[o].mem = obj[o].mem
               /\ obj'[o].named = obj[o].named
               /\ obj'[o].active = obj[o].active
               /\ o # me => (obj'[o].fd <=> obj[o].fd)
               /\ obj'[o].fp = obj[o].fp
               /\ obj'[o].path = obj[o].path
      BY <2>1, <2>3, <2>4
    <2>6. /\ UNCHANGED <<arr, list, alloc, dispo, me, dest, cursor, blocked, slack, status>>
          /\ \/ /\ Now' = "register" /\ obj' = [obj EXCEPT ![me].fd = TRUE]
                /\ fs' = [fs EXCEPT ![obj[me].path] = "partial"]
                /\ temps' = temps \cup {obj[me].path} /\ kept' = kept \ {obj[me].path}
                /\ pending' = [op |-> "create", path |-> obj[me].path]
             \/ Now' = "inactive" /\ UNCHANGED <<fs, temps, kept, pending>>
      BY <1>2 DEF Open, Goto, disk, memory, path
    <2>7. obj' = [obj EXCEPT ![me].fd = TRUE] => obj'[me].fd
      BY <1>1, <1>2, ZenonT(120) DEF Typing, Object
    <2>8. /\ me \notin Files /\ \A o \in Files : obj[o].path # obj[me].path
          /\ obj[me].path \in Paths
      BY <1>1, <1>2 DEF IInv, Mine, Apart, Calling, Cleaning, Holding, Closers, Typing
    <2>9. Files' = Files
      BY <2>5 DEF Files
    <2>10. PathsInUse' = PathsInUse
      BY <1>1, <2>5, <2>9 DEF PathsInUse, Typing
    <2>11. obj[me].path \notin PathsInUse
      BY <2>8 DEF PathsInUse
    <2>. QED BY <2>5, <2>6, <2>7, <2>8, <2>9, <2>10, <2>11
  <1>4. TypeOK'
    <2>1. fs' \in [Paths -> {"absent", "user", "partial", "torn", "complete"}]
      BY <1>1, <1>3 DEF Typing
    <2>2. pending' \in [op : {"none", "create", "commit"}, path : Paths \cup {NoPath}]
      BY <1>3 DEF IInv, TypeOK
    <2>3. temps' \subseteq Paths /\ kept' \subseteq Paths
      BY <1>1, <1>3 DEF Typing
    <2>. QED BY <1>2, <1>3, <2>1, <2>2, <2>3 DEF IInv, TypeOK, Object, Programs, Program
  <1>5. Mine'
    BY <1>1, <1>2, <1>3 DEF Typing, IInv, Mine, Calling, Cleaning, Holding, Closers
  <1>6. Listed'
    <2>1. /\ \A o : OnTheList(o)' <=> OnTheList(o)
          /\ \A o \in Files' : OnTheList(o)'
          /\ \A k \in 1 .. Len(list') : obj'[list'[k]].mem = "live"
      BY <1>3, SameList
    <2>2. \A o \in Files' : (obj[o].named /\ obj[o].mem = "live" /\ dispo = "handler")'
      BY <1>1, <1>2, <1>3 DEF Typing, IInv, Listed
    <2>. QED BY <1>2, <1>3, <2>1, <2>2 DEF IInv, Listed, Cleaning
  <1>7. Arriving'
    BY <1>1, <1>2, <1>3 DEF IInv, Arriving, OnTheList
  <1>8. Cleaned'
    BY <1>1, <1>2, <1>3 DEF IInv, Cleaned, Files
  <1>9. Apart'
    <2>1. \A o, q \in Files' : o # q => obj'[o].path # obj'[q].path
      BY <1>3, FewerFiles
    <2>2. Calling' => \A o \in Files' \ {me'} : obj'[o].path # obj'[me'].path
      BY <1>1, <1>2, <1>3 DEF Typing, IInv, Apart, Calling, Cleaning
    <2>. QED BY <1>2, <2>1, <2>2 DEF Apart
  <1>10. Safe'
    <2>1. kept \cap PathsInUse = {} /\ \A p \in kept : fs[p] \in {"complete", "torn"}
      BY DEF IInv, Safe
    <2>2. \A p \in kept' : fs'[p] \in {"complete", "torn"}
      BY <1>1, <1>3, <2>1 DEF Typing
    <2>3. kept' \cap PathsInUse' = {}
      BY <1>3, <2>1
    <2>4. \A o \in Files : obj[o].fd \/ fs[obj[o].path] \in {"complete", "torn"}
      BY <1>2, <1>3 DEF IInv, Safe, Cleaning, Closers
    <2>5. \A o \in Files : fs'[obj[o].path] = fs[obj[o].path] /\ (obj'[o].fd <=> obj[o].fd) /\ obj'[o].path = obj[o].path
      BY <1>1, <1>3 DEF Typing
    <2>6. \A o \in Files' : obj'[o].fd \/ fs'[obj'[o].path] \in {"complete", "torn"}
      BY <1>3, <2>4, <2>5
    <2>7. Now' = "register" => obj'[me'].path \notin kept'
      BY <1>2, <1>3
    <2>. QED BY <1>2, <1>3, <2>2, <2>3, <2>6, <2>7 DEF Safe, Closers
  <1>11. Remembered'
    <2>1. \A p \in temps' : p # obj[me].path => p \in temps /\ fs'[p] = fs[p]
      BY <1>1, <1>3 DEF Typing
    <2>2. pending = NoCall
      BY <1>2 DEF IInv, Remembered, Cleaning
    <2>3. \A p \in temps : fs[p] = "absent" \/ p \in PathsInUse
      <3>1. \A p \in temps : p \in Paths /\ NoCall.path = NoPath /\ p # NoPath
        BY <1>1, ConstantsAssumption DEF Typing, NoCall
      <3>. QED BY <2>2, <3>1 DEF IInv, Remembered
    <2>4. Now' = "register" => pending'.path = obj[me].path
      BY <1>3
    <2>5. \A p \in temps' : fs'[p] = "absent" \/ pending'.path = p \/ p \in PathsInUse'
      BY <1>3, <2>1, <2>3, <2>4
    <2>6. ~obj'[me].active /\ obj'[me].path = obj[me].path
      BY <1>1, <1>2, <1>3 DEF Typing
    <2>. QED BY <1>2, <1>3, <2>2, <2>4, <2>5, <2>6 DEF Remembered, Cleaning
  <1>12. Owned'
    BY <1>1, <1>2, <1>3 DEF IInv, Owned, Files, PathsInUse, Cleaning
  <1>. QED BY <1>2, <1>4, <1>5, <1>6, <1>7, <1>8, <1>9, <1>10, <1>11, <1>12 DEF IInv

-----------------------------------------------------------------------------
(***************************************************************************)
(* The steps that change the list.                                         *)
(***************************************************************************)

\* ALLOC_GROW never loses room and makes enough of it.
LEMMA Room ==
  ASSUME IInv, Grow
  PROVE  alloc' \in Nat /\ alloc <= alloc' /\ Len(list) + 1 <= alloc'
PROOF
  <1>1. alloc \in Nat /\ slack \in Nat /\ Len(list) \in Nat
    BY Entries DEF Typing
  <1>2. AllocNr(alloc) \in Nat
    BY <1>1 DEF AllocNr
  <1>3. CASE Len(list) + 1 <= alloc
    BY <1>1, <1>3 DEF Grow
  <1>4. CASE ~(Len(list) + 1 <= alloc)
    <2>1. alloc' = IF AllocNr(alloc) < Len(list) + 1 THEN Len(list) + 1 ELSE AllocNr(alloc)
      BY <1>4 DEF Grow
    <2>. QED BY <1>1, <1>2, <1>4, <2>1
  <1>. QED BY <1>3, <1>4

\* Entry j of the list comes from entry From(k, n)[j] when entry k is taken out.
From(k, n) == [j \in 1 .. n |-> IF j < k \/ j = n THEN j ELSE j + 1]

\* Entries moved down by one, the last of them left where it is: every other entry stays.
LEMMA Shift ==
  ASSUME NEW n \in Nat, NEW k \in 1 .. n
  PROVE  /\ \A j \in 1 .. n : From(k, n)[j] \in 1 .. n
         /\ \A j \in 1 .. n - 1 : From(k, n)[j] # k
         /\ \A i, j \in 1 .. n : i < j /\ j # n => From(k, n)[i] # From(k, n)[j]
         /\ \A i \in 1 .. n : i # k => \E j \in 1 .. n - 1 : From(k, n)[j] = i
         /\ \A j \in 1 .. n - 1 : j \in 1 .. n
PROOF
  <1>1. \A j \in 1 .. n : From(k, n)[j] = IF j < k \/ j = n THEN j ELSE j + 1
    BY DEF From
  <1>2. \A j \in 1 .. n - 1 : j \in 1 .. n /\ j # n
    OBVIOUS
  <1>3. \A i \in 1 .. n : i # k => \E j \in 1 .. n - 1 : From(k, n)[j] = i
    <2>. SUFFICES ASSUME NEW i \in 1 .. n, i # k
                  PROVE  \E j \in 1 .. n - 1 : From(k, n)[j] = i
      OBVIOUS
    <2>1. CASE i < k
      <3>1. i \in 1 .. n - 1 /\ From(k, n)[i] = i
        BY <1>1, <2>1
      <3>. QED BY <3>1
    <2>2. CASE i > k
      <3>1. i - 1 \in 1 .. n - 1 /\ i - 1 \in 1 .. n /\ ~(i - 1 < k) /\ i - 1 # n /\ i - 1 + 1 = i
        BY <2>2
      <3>2. From(k, n)[i - 1] = i
        BY <1>1, <3>1
      <3>. QED BY <3>1, <3>2
    <2>. QED BY <2>1, <2>2
  <1>4. \A j \in 1 .. n : From(k, n)[j] \in 1 .. n
    BY <1>1
  <1>5. \A j \in 1 .. n - 1 : From(k, n)[j] # k
    BY <1>1, <1>2
  <1>6. \A i, j \in 1 .. n : i < j /\ j # n => From(k, n)[i] # From(k, n)[j]
    BY <1>1
  <1>. QED BY <1>2, <1>3, <1>4, <1>5, <1>6

\* ALLOC_GROW with memory left, and nothing to do or a new block on its way.
Grown == Grow /\ (Done \/ Goto(<<"move block", "set pointer">> \o Tail(todo)))

\* ARRAY_REMOVE: the entries behind the object move down by one.
LEMMA Moved ==
  ASSUME IInv, TakeOut, \E k \in 1 .. Len(list) : list[k] = me, ~Cleaning
  PROVE  /\ list' \in Seq(Objs) /\ Len(list') = Len(list) /\ Len(list) >= 1
         /\ \A o \in Files : o # me => \E j \in 1 .. Len(list) - 1 : list'[j] = o
         /\ \A j \in 1 .. Len(list) : \E i \in 1 .. Len(list) : list'[j] = list[i]
         /\ \A j \in 1 .. Len(list) - 1 : list'[j] # me
         /\ \A i, j \in 1 .. Len(list) : list'[i] = list'[j] /\ i < j => j = Len(list)
PROOF
  <1>1. Typing
    BY Entries
  <1>2. PICK n \in Nat : n = Len(list)
    BY <1>1 DEF Typing
  <1>3. n \in Nat
    BY <1>2
  <1>4. \A i, j \in 1 .. n : list[i] = list[j] => i = j
    <2>1. \A i, j \in 1 .. n : ~(list[i] = list[j] /\ i < j)
      <3>1. Now = "take out"
        BY Due DEF TakeOut
      <3>. QED BY <1>2, <3>1 DEF IInv, Listed
    <2>2. \A i, j \in 1 .. n : i < j \/ j < i \/ i = j
      BY <1>3
    <2>. QED BY <2>1, <2>2
  <1>5. PICK k \in 1 .. n : list[k] = me
    BY <1>2
  <1>6. SelectInSeq(list, LAMBDA o : o = me) = k
    <2>1. {i \in 1 .. n : list[i] = me} = {k}
      BY <1>4, <1>5
    <2>2. Min({k}) = k
      <3>1. k <= k
        BY <1>5, <1>3
      <3>. QED BY <3>1 DEF Min
    <2>. QED BY <1>2, <2>1, <2>2 DEF SelectInSeq
  <1>7. DOMAIN list = 1 .. n
    BY <1>1, <1>2 DEF Typing
  <1>8. list' = [j \in DOMAIN list |->
                   IF j < k \/ j = Len(list) THEN list[j] ELSE list[j + 1]]
    BY <1>6 DEF TakeOut, Contains, OnTheList
  <1>9. list' = [j \in 1 .. n |-> IF j < k \/ j = n THEN list[j] ELSE list[j + 1]]
    BY <1>2, <1>7, <1>8
  <1>10. \A j \in 1 .. n : list'[j] = list[From(k, n)[j]]
    BY <1>9 DEF From
  <1>11. \A j \in 1 .. n : list'[j] \in Objs
    BY <1>1, <1>2, <1>10, Shift DEF Typing
  <1>12. list' \in [1 .. n -> Objs]
    BY <1>9, <1>11
  <1>13. list' \in Seq(Objs) /\ Len(list') = n
    BY <1>12, <1>3
  <1>14. \A o \in Files : o # me => \E j \in 1 .. n - 1 : list'[j] = o
    <2>. SUFFICES ASSUME NEW o \in Files, o # me PROVE \E j \in 1 .. n - 1 : list'[j] = o
      OBVIOUS
    <2>1. PICK i \in 1 .. n : list[i] = o
      BY <1>2 DEF IInv, Listed, OnTheList
    <2>2. i # k /\ i \in 1 .. n
      BY <1>5, <2>1
    <2>3. PICK j \in 1 .. n - 1 : From(k, n)[j] = i
      <3>1. \A h \in 1 .. n : h # k => \E j \in 1 .. n - 1 : From(k, n)[j] = h
        BY <1>5, <1>3, Shift, ZenonT(60)
      <3>. QED BY <2>2, <3>1
    <2>4. j \in 1 .. n
      BY <1>5, <1>3, Shift
    <2>. QED BY <1>10, <2>1, <2>3, <2>4
  <1>15. \A j \in 1 .. n - 1 : list'[j] # me
    <2>. SUFFICES ASSUME NEW j \in 1 .. n - 1 PROVE list'[j] # me
      OBVIOUS
    <2>1. j \in 1 .. n /\ From(k, n)[j] \in 1 .. n /\ From(k, n)[j] # k
      BY <1>5, <1>3, Shift
    <2>. QED BY <1>4, <1>5, <1>10, <2>1
  <1>16. \A i, j \in 1 .. n : list'[i] = list'[j] /\ i < j => j = n
    <2>1. \A i, j \in 1 .. n : i < j /\ j # n => From(k, n)[i] # From(k, n)[j]
      BY <1>5, <1>3, Shift
    <2>2. \A i \in 1 .. n : From(k, n)[i] \in 1 .. n
      BY <1>5, <1>3, Shift
    <2>. QED BY <1>4, <1>10, <2>1, <2>2
  <1>17. \A j \in 1 .. n : \E i \in 1 .. n : list'[j] = list[i]
    BY <1>10, Shift
  <1>18. n >= 1
    BY <1>5, <1>3
  <1>. QED BY <1>2, <1>13, <1>14, <1>15, <1>16, <1>17, <1>18

\* The list without its last entry.
LEMMA Shortened ==
  ASSUME NEW S, NEW s \in Seq(S), Len(s) >= 1
  PROVE  /\ Front(s) \in Seq(S) /\ Len(Front(s)) = Len(s) - 1
         /\ \A j \in 1 .. Len(s) - 1 : Front(s)[j] = s[j]
PROOF
  <1>1. PICK n \in Nat : n + 1 = Len(s)
    <2>1. Len(s) - 1 \in Nat /\ (Len(s) - 1) + 1 = Len(s)
      BY LenProperties
    <2>. QED BY <2>1
  <1>2. Front(s) = SubSeq(s, 1, n) /\ Len(s) - 1 = n
    BY <1>1 DEF Front
  <1>3. \A i \in 1 .. n : s[i] \in S
    <2>1. \A i \in 1 .. n : i \in 1 .. n + 1
      OBVIOUS
    <2>. QED BY <1>1, <2>1, ElementOfSeq
  <1>4. /\ SubSeq(s, 1, n) \in Seq(S)
        /\ Len(SubSeq(s, 1, n)) = IF 1 <= n THEN n - 1 + 1 ELSE 0
        /\ \A i \in 1 .. n - 1 + 1 : SubSeq(s, 1, n)[i] = s[1 + i - 1]
    BY <1>3, SubSeqProperties
  <1>5. Len(SubSeq(s, 1, n)) = n
    BY <1>4
  <1>6. n - 1 + 1 = n /\ \A i \in 1 .. n : 1 + i - 1 = i
    OBVIOUS
  <1>7. \A i \in 1 .. n : SubSeq(s, 1, n)[i] = s[i]
    BY <1>4, <1>6
  <1>. QED BY <1>2, <1>4, <1>5, <1>7

\* After ALLOC_GROW there is room for one more entry.
LEMMA GrowKeeps ==
  ASSUME IInv, Grown
  PROVE  IInv'
PROOF
  <1>1. Typing
    BY Entries
  <1>2. /\ status = "running" /\ Now = "grow" /\ me \in Objs /\ Programs' /\ todo # <<>> /\ todo' # <<>>
        /\ Now' \in {"append", "move block"} /\ Final' = "activate" /\ Final = "activate"
    <2>1. At("grow") /\ Programs /\ todo # <<>>
      BY DEF Grown, Grow, At, IInv
    <2>2. Now = "grow" /\ status = "running" /\ Final \in Finals
      BY <2>1, Due
    <2>3. Now = "grow" /\ status = "running" /\ Now # Final
      BY <2>2 DEF Finals
    <2>4. PICK a \in Step : Linked(Tail(todo), a, Final, Final) /\ Follows("grow", a, Final)
      BY <2>1, <2>3, Behind
    <2>5. a = "append" /\ Final = "activate"
      BY <2>4 DEF Follows
    <2>6. me \in Objs
      BY <2>1, <2>5, Due DEF Cleaning
    <2>7. Linked(<<"move block", "set pointer">>, "move block", "set pointer", "activate")
      BY Two DEF Follows, Step
    <2>8. Linked(<<"move block", "set pointer">> \o Tail(todo), "move block", "activate", "activate")
      <3>1. Follows("set pointer", "append", "activate")
        BY DEF Follows
      <3>. QED BY <2>4, <2>5, <2>7, <3>1, Join
    <2>9. todo' = Tail(todo) \/ todo' = <<"move block", "set pointer">> \o Tail(todo)
      BY DEF Grown, Done, Goto
    <2>10. PICK b \in {"append", "move block"} : Linked(todo', b, "activate", "activate")
      BY <2>4, <2>5, <2>8, <2>9
    <2>. QED BY <2>1, <2>3, <2>5, <2>6, <2>10, Whole DEF Finals
  <1>3. /\ UNCHANGED <<fs, temps, kept, pending, obj, list, arr, dispo, me, dest, cursor, blocked,
                       slack, status>>
        /\ alloc' \in Nat /\ Len(list) + 1 <= alloc' /\ Len(list) <= alloc'
        /\ Files' = Files /\ PathsInUse' = PathsInUse
        /\ /\ obj' \in [Objs -> Object]
           /\ \A o \in Objs :
                /\ obj'[o].mem = obj[o].mem
                /\ obj'[o].named = obj[o].named
                /\ obj'[o].active = obj[o].active
                /\ obj'[o].fd = obj[o].fd
                /\ obj'[o].fp = obj[o].fp
                /\ obj'[o].path = obj[o].path
    <2>1. UNCHANGED <<fs, temps, kept, pending, obj, list, arr, dispo, me, dest, cursor, blocked,
                      slack, status>>
      BY DEF Grown, Grow, Done, Goto, disk
    <2>2. alloc' \in Nat /\ Len(list) + 1 <= alloc' /\ Len(list) <= alloc'
      <3>1. alloc' \in Nat /\ Len(list) + 1 <= alloc'
        BY Room DEF Grown
      <3>2. PICK n \in Nat : n = Len(list)
        BY <1>1 DEF Typing
      <3>3. n \in Nat /\ alloc' \in Nat
        BY <3>1, <3>2
      <3>4. n + 1 <= alloc' => n <= alloc'
        BY <3>3
      <3>. QED BY <3>1, <3>2, <3>4
    <2>3. Files' = Files /\ PathsInUse' = PathsInUse
      BY <2>1 DEF Files, PathsInUse
    <2>. QED BY <1>1, <2>1, <2>2, <2>3 DEF Typing
  <1>4. TypeOK'
    BY <1>1, <1>2, <1>3 DEF IInv, TypeOK, Object, Programs, Program
  <1>5. Mine'
    BY <1>1, <1>2, <1>3 DEF Typing, IInv, Mine, Calling, Cleaning, Holding, Closers
  <1>6. Listed'
    <2>1. /\ \A o : OnTheList(o)' <=> OnTheList(o)
          /\ \A o \in Files' : OnTheList(o)'
          /\ \A k \in 1 .. Len(list') : obj'[list'[k]].mem = "live"
      BY <1>3, SameList
    <2>2. \A o \in Files' : (obj[o].named /\ obj[o].mem = "live" /\ dispo = "handler")'
      BY <1>1, <1>2, <1>3 DEF Typing, IInv, Listed
    <2>. QED BY <1>2, <1>3, <2>1, <2>2 DEF IInv, Listed, Cleaning
  <1>7. Arriving'
    BY <1>1, <1>2, <1>3 DEF IInv, Arriving, OnTheList
  <1>8. Cleaned'
    BY <1>1, <1>2, <1>3 DEF IInv, Cleaned, Files
  <1>9. Apart'
    <2>1. \A o, q \in Files' : o # q => obj'[o].path # obj'[q].path
      BY <1>3, FewerFiles
    <2>2. Calling' => \A o \in Files' \ {me'} : obj'[o].path # obj'[me'].path
      BY <1>1, <1>2, <1>3 DEF Typing, IInv, Apart, Calling, Cleaning
    <2>. QED BY <1>2, <2>1, <2>2 DEF Apart
  <1>10. Safe'
    BY <1>1, <1>2, <1>3 DEF IInv, Safe, Files, PathsInUse, Cleaning, Closers
  <1>11. Remembered'
    BY <1>1, <1>2, <1>3 DEF IInv, Remembered, Files, PathsInUse, Cleaning
  <1>12. Owned'
    BY <1>1, <1>2, <1>3 DEF IInv, Owned, Files, PathsInUse, Cleaning
  <1>. QED BY <1>2, <1>4, <1>5, <1>6, <1>7, <1>8, <1>9, <1>10, <1>11, <1>12 DEF IInv

\* The entries behind the object move down; the last one is there twice until nr follows.
LEMMA TakeOutKeeps ==
  ASSUME IInv, TakeOut
  PROVE  IInv'
PROOF
  <1>1. Typing
    BY Entries
  <1>2. /\ status = "running" /\ Now = "take out" /\ me \in Objs /\ Programs' /\ todo # <<>> /\ todo' # <<>>
        /\ Now' \in {"shorten", "free object"} /\ Final' = Final /\ Final \in {"free object", "committed"}
        /\ OnTheList(me) => Now' = "shorten"
        /\ Now' = "shorten" => OnTheList(me)
    <2>1. At("take out") /\ Programs /\ todo # <<>>
      BY DEF TakeOut, At, IInv
    <2>2. Now = "take out" /\ status = "running" /\ Final \in Finals
      BY <2>1, Due
    <2>3. Now = "take out" /\ status = "running" /\ Now # Final
      BY <2>2 DEF Finals
    <2>4. PICK a \in Step : Linked(Tail(todo), a, Final, Final) /\ Follows("take out", a, Final)
      BY <2>1, <2>3, Behind
    <2>5. a = "free object" /\ Final \in {"free object", "committed"}
      BY <2>4 DEF Follows
    <2>6. me \in Objs
      BY <2>1, <2>5, Due DEF Cleaning
    <2>7. Linked(<<"shorten">>, "shorten", "shorten", Final) /\ Follows("shorten", "free object", Final)
      BY <2>5, One DEF Follows, Step
    <2>8. Linked(<<"shorten">> \o Tail(todo), "shorten", Final, Final)
      BY <2>4, <2>5, <2>7, Join
    <2>9. todo' = IF OnTheList(me) THEN <<"shorten">> \o Tail(todo) ELSE Tail(todo)
      BY DEF TakeOut, Done, Goto, Contains, OnTheList
    <2>10. CASE OnTheList(me)
      <3>1. Linked(todo', "shorten", Final, Final)
        BY <2>8, <2>9, <2>10
      <3>2. Programs' /\ todo' # <<>> /\ Now' = "shorten" /\ Final' = Final
        BY <2>5, <3>1, Whole DEF Finals
      <3>. QED BY <2>1, <2>3, <2>5, <2>6, <2>10, <3>2
    <2>11. CASE ~OnTheList(me)
      <3>1. Linked(todo', "free object", Final, Final)
        BY <2>4, <2>5, <2>9, <2>11
      <3>2. Programs' /\ todo' # <<>> /\ Now' = "free object" /\ Final' = Final
        BY <2>5, <3>1, Whole DEF Finals
      <3>. QED BY <2>1, <2>3, <2>5, <2>6, <2>11, <3>2
    <2>. QED BY <2>10, <2>11
  <1>3. /\ UNCHANGED <<fs, temps, kept, pending, obj, arr, alloc, dispo, me, dest, cursor,
                       blocked, slack, status>>
        /\ Files' = Files /\ PathsInUse' = PathsInUse /\ me \notin Files
        /\ list' \in Seq(Objs)
        /\ Now' # "shorten" => list' = list
    <2>1. UNCHANGED <<fs, temps, kept, pending, obj, arr, alloc, dispo, me, dest, cursor, blocked,
                      slack, status>>
      BY DEF TakeOut, Done, Goto, disk
    <2>2. me \notin Files
      BY <1>2 DEF IInv, Mine, Calling, Cleaning, Holding, Closers, Files
    <2>3. OnTheList(me) => list' \in Seq(Objs)
      BY <1>2, Moved DEF Cleaning, OnTheList
    <2>4. ~OnTheList(me) => list' = list
      BY DEF TakeOut, Contains, OnTheList
    <2>5. Files' = Files /\ PathsInUse' = PathsInUse
      BY <2>1 DEF Files, PathsInUse
    <2>6. list' \in Seq(Objs) /\ (Now' # "shorten" => list' = list)
      BY <1>1, <1>2, <2>3, <2>4 DEF Typing
    <2>. QED BY <2>1, <2>2, <2>5, <2>6
  <1>4. TypeOK'
    BY <1>1, <1>2, <1>3 DEF IInv, TypeOK, Object, Programs, Program
  <1>5. Mine'
    BY <1>1, <1>2, <1>3 DEF Typing, IInv, Mine, Calling, Cleaning, Holding, Closers
  <1>6. Listed'
    <2>1. CASE ~OnTheList(me)
      <3>1. list' = list /\ Now' = "free object" /\ ~OnTheList(me)'
        BY <1>2, <1>3, <2>1 DEF OnTheList
      <3>2. \A o : OnTheList(o)' <=> OnTheList(o)
        BY <3>1 DEF OnTheList
      <3>. QED BY <1>2, <1>3, <3>1, <3>2 DEF IInv, Listed, Cleaning
    <2>2. CASE OnTheList(me)
      <3>1. /\ \A o \in Files : \E j \in 1 .. Len(list) - 1 : list'[j] = o
            /\ \A j \in 1 .. Len(list) : \E i \in 1 .. Len(list) : list'[j] = list[i]
            /\ \A j \in 1 .. Len(list) - 1 : list'[j] # me
            /\ \A i, j \in 1 .. Len(list) : list'[i] = list'[j] /\ i < j => j = Len(list)
            /\ Len(list') = Len(list) /\ Len(list) >= 1
        BY <1>2, <1>3, <2>2, Moved DEF Cleaning, OnTheList
      <3>2. \A o \in Files' : OnTheList(o)'
        <4>1. PICK n \in Nat : n = Len(list)
          BY <1>1 DEF Typing
        <4>2. \A j \in 1 .. n - 1 : j \in 1 .. n
          BY <4>1
        <4>. QED BY <1>3, <3>1, <4>1, <4>2 DEF OnTheList
      <3>3. \A j \in 1 .. Len(list') : obj'[list'[j]].mem = "live"
        <4>1. \A i \in 1 .. Len(list) : obj[list[i]].mem = "live"
          BY DEF IInv, Listed
        <4>2. obj' = obj /\ Len(list') = Len(list)
          BY <1>3, <3>1
        <4>. QED BY <3>1, <4>1, <4>2, SMTT(60)
      <3>4. \A o \in Files' : (obj[o].named /\ obj[o].mem = "live" /\ dispo = "handler")'
        BY <1>3 DEF IInv, Listed
      <3>5. Len(list') <= alloc'
        BY <1>3, <3>1 DEF IInv, Listed
      <3>. QED BY <1>2, <1>3, <2>2, <3>1, <3>2, <3>3, <3>4, <3>5 DEF Listed
    <2>. QED BY <2>1, <2>2
  <1>7. Arriving'
    BY <1>1, <1>2, <1>3 DEF IInv, Arriving, OnTheList
  <1>8. Cleaned'
    BY <1>1, <1>2, <1>3 DEF IInv, Cleaned, Files
  <1>9. Apart'
    BY <1>1, <1>2, <1>3 DEF IInv, Apart, Files, PathsInUse, Calling, Cleaning
  <1>10. Safe'
    BY <1>1, <1>2, <1>3 DEF IInv, Safe, Files, PathsInUse, Cleaning, Closers
  <1>11. Remembered'
    BY <1>1, <1>2, <1>3 DEF IInv, Remembered, Files, PathsInUse, Cleaning
  <1>12. Owned'
    BY <1>1, <1>2, <1>3 DEF IInv, Owned, Files, PathsInUse, Cleaning
  <1>. QED BY <1>2, <1>4, <1>5, <1>6, <1>7, <1>8, <1>9, <1>10, <1>11, <1>12 DEF IInv

\* The last entry goes: every file has another one.
LEMMA ShortenKeeps ==
  ASSUME IInv, Shorten
  PROVE  IInv'
PROOF
  <1>1. Typing
    BY Entries
  <1>2. /\ status = "running" /\ Now = "shorten" /\ me \in Objs /\ Programs' /\ todo # <<>> /\ todo' # <<>>
        /\ Now' \in {"move block", "free object"} /\ Final' = Final /\ Final \in {"free object", "committed"}
    <2>1. At("shorten") /\ Programs /\ todo # <<>>
      BY DEF Shorten, At, IInv
    <2>2. Now = "shorten" /\ status = "running" /\ Final \in Finals
      BY <2>1, Due
    <2>3. Now = "shorten" /\ status = "running" /\ Now # Final
      BY <2>2 DEF Finals
    <2>4. PICK a \in Step : Linked(Tail(todo), a, Final, Final) /\ Follows("shorten", a, Final)
      BY <2>1, <2>3, Behind
    <2>5. a = "free object" /\ Final \in {"free object", "committed"}
      BY <2>4 DEF Follows
    <2>6. me \in Objs
      BY <2>1, <2>5, Due DEF Cleaning
    <2>7. /\ Linked(<<"move block", "set pointer">>, "move block", "set pointer", Final)
          /\ Follows("set pointer", "free object", Final)
      <3>1. Follows("move block", "set pointer", Final) /\ Follows("set pointer", "free object", Final)
        BY <2>5 DEF Follows
      <3>. QED BY <3>1, Two DEF Step
    <2>8. Linked(<<"move block", "set pointer">> \o Tail(todo), "move block", Final, Final)
      BY <2>4, <2>5, <2>7, Join
    <2>9. todo' = Tail(todo) \/ todo' = <<"move block", "set pointer">> \o Tail(todo)
      BY DEF Shorten, Done, Goto
    <2>10. PICK b \in {"free object", "move block"} : Linked(todo', b, Final, Final)
      BY <2>4, <2>5, <2>8, <2>9
    <2>. QED BY <2>1, <2>3, <2>5, <2>6, <2>10, Whole DEF Finals
  <1>3. /\ UNCHANGED <<fs, temps, kept, pending, obj, arr, dispo, me, dest, cursor, blocked,
                       slack, status>>
        /\ Files' = Files /\ PathsInUse' = PathsInUse /\ me \notin Files
        /\ list' \in Seq(Objs) /\ Len(list') = Len(list) - 1 /\ Len(list) >= 1
        /\ \A j \in 1 .. Len(list) - 1 : list'[j] = list[j]
        /\ alloc' \in Nat /\ Len(list') <= alloc'
    <2>1. UNCHANGED <<fs, temps, kept, pending, obj, arr, dispo, me, dest, cursor, blocked, slack,
                      status>> /\ list' = Front(list)
      BY DEF Shorten, Done, Goto, disk
    <2>2. me \notin Files
      BY <1>2 DEF IInv, Mine, Calling, Cleaning, Holding, Closers, Files
    <2>3. Len(list) >= 1 /\ Len(list) <= alloc
      BY <1>2 DEF IInv, Listed
    <2>4. /\ list' \in Seq(Objs) /\ Len(list') = Len(list) - 1
          /\ \A j \in 1 .. Len(list) - 1 : list'[j] = list[j]
      BY <1>1, <2>1, <2>3, Shortened DEF Typing
    <2>5. alloc' \in Nat /\ Len(list) - 1 <= alloc'
      <3>1. \/ alloc' = alloc
            \/ alloc' = IF alloc \div 2 < Len(list) - 1 THEN Len(list) - 1 + 8 ELSE alloc \div 2
        BY DEF Shorten
      <3>2. alloc \in Nat /\ Len(list) \in Nat
        BY <1>1 DEF Typing
      <3>. QED BY <2>3, <3>1, <3>2
    <2>. QED BY <2>1, <2>2, <2>3, <2>4, <2>5 DEF Files, PathsInUse
  <1>4. TypeOK'
    BY <1>1, <1>2, <1>3 DEF IInv, TypeOK, Object, Programs, Program
  <1>5. Mine'
    BY <1>1, <1>2, <1>3 DEF Typing, IInv, Mine, Calling, Cleaning, Holding, Closers
  <1>6. Listed'
    <2>1. /\ \A o \in Files : \E j \in 1 .. Len(list) - 1 : list[j] = o
          /\ \A j \in 1 .. Len(list) - 1 : list[j] # me
      BY <1>2 DEF IInv, Listed
    <2>2. \A o \in Files' : OnTheList(o)'
      BY <1>3, <2>1 DEF OnTheList
    <2>3. \A o \in Files' : (obj[o].named /\ obj[o].mem = "live" /\ dispo = "handler")'
      BY <1>3 DEF IInv, Listed
    <2>4. \A j \in 1 .. Len(list') : j \in 1 .. Len(list) /\ j # Len(list) /\ list'[j] = list[j]
      <3>1. PICK n \in Nat : n = Len(list)
        BY <1>1 DEF Typing
      <3>2. \A j \in 1 .. n - 1 : j \in 1 .. n /\ j # n
        OBVIOUS
      <3>. QED BY <1>3, <3>1, <3>2
    <2>5. \A j \in 1 .. Len(list') : obj'[list'[j]].mem = "live"
      BY <1>3, <2>4, ZenonT(120) DEF IInv, Listed
    <2>6. \A j, k \in 1 .. Len(list) : list[j] = list[k] /\ j < k => k = Len(list)
      BY <1>2 DEF IInv, Listed, Cleaning
    <2>7. \A j, k \in 1 .. Len(list') : ~(list'[j] = list'[k] /\ j < k)
      BY <2>4, <2>6
    <2>8. ~OnTheList(me)'
      BY <1>3, <2>1 DEF OnTheList
    <2>. QED BY <1>2, <1>3, <2>2, <2>3, <2>5, <2>7, <2>8 DEF Listed
  <1>7. Arriving'
    BY <1>1, <1>2, <1>3 DEF IInv, Arriving, OnTheList
  <1>8. Cleaned'
    BY <1>1, <1>2, <1>3 DEF IInv, Cleaned, Files
  <1>9. Apart'
    BY <1>1, <1>2, <1>3 DEF IInv, Apart, Files, PathsInUse, Calling, Cleaning
  <1>10. Safe'
    BY <1>1, <1>2, <1>3 DEF IInv, Safe, Files, PathsInUse, Cleaning, Closers
  <1>11. Remembered'
    BY <1>1, <1>2, <1>3 DEF IInv, Remembered, Files, PathsInUse, Cleaning
  <1>12. Owned'
    BY <1>1, <1>2, <1>3 DEF IInv, Owned, Files, PathsInUse, Cleaning
  <1>. QED BY <1>2, <1>4, <1>5, <1>6, <1>7, <1>8, <1>9, <1>10, <1>11, <1>12 DEF IInv

-----------------------------------------------------------------------------
(***************************************************************************)
(* The end of the process and the way there.                               *)
(***************************************************************************)

\* Nothing changes but, possibly, the status.
LEMMA Stays ==
  ASSUME IInv,
         UNCHANGED <<disk, memory, dispo, todo, me, dest, cursor, blocked, slack>>,
         status' \in {"running", "exited", "killed", "undefined"},
         status' \in {"exited", "killed"} => Files = {}
  PROVE  IInv'
PROOF
  <1>1. /\ UNCHANGED <<fs, temps, kept, pending, obj, arr, list, alloc,
                       dispo, todo, me, dest, cursor, blocked, slack>>
        /\ Now' = Now /\ Final' = Final /\ Files' = Files /\ PathsInUse' = PathsInUse
        /\ Calling' = Calling /\ Cleaning' = Cleaning /\ Programs' = Programs
    BY DEF disk, memory, Now, Final, Files, PathsInUse, Calling, Cleaning, Programs
  <1>2. TypeOK' /\ Programs'
    BY <1>1 DEF IInv, TypeOK
  <1>3. Mine'
    BY <1>1 DEF IInv, Mine
  <1>4. Listed'
    BY <1>1 DEF IInv, Listed, OnTheList
  <1>5. Arriving'
    BY <1>1 DEF IInv, Arriving, OnTheList
  <1>6. Cleaned'
    BY <1>1 DEF IInv, Cleaned
  <1>7. Apart' /\ Safe'
    BY <1>1 DEF IInv, Apart, Safe
  <1>8. Remembered' /\ Owned'
    BY <1>1 DEF IInv, Remembered, Owned
  <1>. QED BY <1>2, <1>3, <1>4, <1>5, <1>6, <1>7, <1>8 DEF IInv

\* Cleanup begins, or exit() without handlers: whatever was under way is left.
LEMMA Leaves ==
  ASSUME IInv, UNCHANGED <<disk, obj, arr, list, dispo, slack, dest, status>>,
         alloc' \in Nat, alloc <= alloc', me' \in Objs \cup {NoObj}, blocked' \subseteq Signals,
         status = "running", cursor' = 1,
         todo' = OnSignalSteps \/ todo' = ExitNow
  PROVE  IInv'
PROOF
  <1>1. Typing
    BY Entries
  <1>2. /\ UNCHANGED <<fs, temps, kept, pending, obj, arr, list, dispo, dest, slack, status>>
        /\ Files' = Files /\ PathsInUse' = PathsInUse
    BY DEF disk, Files, PathsInUse
  <1>3. /\ Programs' /\ todo' # <<>>
        /\ \/ Now' = "scan" /\ Final' \in {"exit", "raise"}
           \/ Now' = "exit" /\ Final' = "exit" /\ dispo = "default"
    <2>1. CASE todo' = OnSignalSteps
      BY <2>1, Whole, Written DEF Finals
    <2>2. CASE todo' = OnExitSteps
      BY <2>2, Whole, Written DEF Finals
    <2>3. CASE todo' = <<"exit">> /\ dispo = "default"
      <3>1. Linked(todo', "exit", "exit", "exit")
        BY <2>3, One DEF Step
      <3>. QED BY <2>3, <3>1, Whole DEF Finals
    <2>. QED BY <2>1, <2>2, <2>3 DEF ExitNow
  <1>4. Cleaning' /\ ~Calling'
    BY <1>3 DEF Cleaning, Calling
  <1>5. Now' = "exit" => Files = {}
    BY <1>3 DEF IInv, Listed
  <1>6. TypeOK'
    BY <1>2, <1>3 DEF IInv, TypeOK, Programs, Program
  <1>7. Mine'
    BY <1>2, <1>3, <1>4 DEF IInv, Mine
  <1>8. Listed'
    <2>1. \A o \in Files' : OnTheList(o)'
      <3>1. \A o \in Files : OnTheList(o)
        BY DEF IInv, Listed
      <3>2. \A o : OnTheList(o)' <=> OnTheList(o)
        BY <1>2 DEF OnTheList
      <3>. QED BY <1>2, <3>1, <3>2
    <2>2. Len(list') <= alloc'
      <3>1. Len(list) <= alloc
        BY DEF IInv, Listed
      <3>. QED BY <1>1, <1>2, <3>1 DEF Typing
    <2>. QED BY <1>2, <1>3, <1>4, <2>1, <2>2 DEF IInv, Listed
  <1>9. Arriving'
    BY <1>3 DEF Arriving
  <1>10. Cleaned'
    <2>1. cursor' >= 1 /\ \A k \in 1 .. Len(list') : ~(k < cursor')
      BY <1>1, <1>2 DEF Typing
    <2>. QED BY <1>2, <1>3, <1>5, <2>1 DEF Cleaned
  <1>11. Apart'
    BY <1>2, <1>3, <1>4, ZenonT(120) DEF IInv, Apart
  <1>12. Safe'
    BY <1>2, <1>3, <1>4 DEF IInv, Safe, Closers
  <1>13. Remembered' /\ Owned'
    BY <1>2, <1>3, <1>4 DEF IInv, Remembered, Owned
  <1>. QED BY <1>3, <1>6, <1>7, <1>8, <1>9, <1>10, <1>11, <1>12, <1>13 DEF IInv

\* The loop of the cleanup: past the end, over an inactive object, at a file.
LEMMA ScanKeepsDone ==
  ASSUME IInv, Scan, cursor > Len(list)
  PROVE  IInv'
PROOF
  <1>1. Typing
    BY Entries
  <1>2. /\ status = "running" /\ Now = "scan" /\ Programs' /\ todo # <<>> /\ todo' # <<>>
        /\ Now' = "free list" /\ Final' = Final /\ Final \in {"exit", "raise"}
    <2>1. At("scan") /\ todo' = Tail(todo) /\ Programs /\ todo # <<>>
      BY DEF Scan, At, Done, Goto, IInv
    <2>2. Now = "scan" /\ status = "running"
      BY <2>1, Due
    <2>. QED BY <2>1, <2>2, Advance DEF Follows, Finals
  <1>3. /\ UNCHANGED <<fs, temps, kept, pending, obj, arr, list, alloc, dispo, me, dest, cursor,
                       blocked, slack, status>>
        /\ Files' = Files /\ PathsInUse' = PathsInUse
    BY DEF Scan, disk, memory, Done, Goto, Files, PathsInUse
  <1>4. TypeOK'
    BY <1>1, <1>2, <1>3 DEF IInv, TypeOK, Object, Programs, Program
  <1>5. Mine'
    BY <1>1, <1>2, <1>3 DEF Typing, IInv, Mine, Calling, Cleaning, Holding, Closers
  <1>6. Listed'
    BY <1>1, <1>2, <1>3 DEF IInv, Listed, Files, OnTheList, Cleaning
  <1>7. Arriving'
    BY <1>1, <1>2, <1>3 DEF IInv, Arriving, OnTheList
  <1>8. Cleaned'
    <2>1. \A k \in 1 .. Len(list) : k < cursor
      BY <1>1 DEF Typing
    <2>2. \A k \in 1 .. Len(list) : ~obj[list[k]].active
      BY <1>2, <2>1 DEF IInv, Cleaned
    <2>3. Files = {}
      BY <1>1, <2>2, ZenonT(120) DEF Typing, IInv, Listed, OnTheList
    <2>. QED BY <1>2, <1>3, <2>3 DEF Cleaned
  <1>9. Apart'
    BY <1>1, <1>2, <1>3 DEF IInv, Apart, Files, PathsInUse, Calling, Cleaning
  <1>10. Safe'
    BY <1>1, <1>2, <1>3 DEF IInv, Safe, Files, PathsInUse, Cleaning, Closers
  <1>11. Remembered'
    BY <1>1, <1>2, <1>3 DEF IInv, Remembered, Files, PathsInUse, Cleaning
  <1>12. Owned'
    BY <1>1, <1>2, <1>3 DEF IInv, Owned, Files, PathsInUse, Cleaning
  <1>. QED BY <1>2, <1>4, <1>5, <1>6, <1>7, <1>8, <1>9, <1>10, <1>11, <1>12 DEF IInv

LEMMA ScanKeepsNext ==
  ASSUME IInv, Scan, cursor <= Len(list), ~obj[list[cursor]].active, status' = "running"
  PROVE  IInv'
PROOF
  <1>1. Typing
    BY Entries
  <1>2. /\ status = "running" /\ Now = "scan" /\ Programs' /\ todo # <<>> /\ todo' # <<>>
        /\ Now' = "scan" /\ Final' = Final /\ Final \in {"exit", "raise"}
    <2>1. At("scan") /\ todo' = todo /\ Programs /\ todo # <<>>
      BY Entries DEF Scan, ScanNext, At, Done, Goto, IInv, Typing, Undefined
    <2>2. Now = "scan" /\ status = "running" /\ Final \in Finals
      BY <2>1, Due
    <2>3. Len(todo) # 1 => Follows("scan", todo[2], Final)
      BY <2>1, <2>2, Heads
    <2>4. Len(todo) = 1 => Final = "scan"
      BY <2>1, <2>2, Heads
    <2>5. Final \in {"exit", "raise"}
      BY <2>2, <2>3, <2>4 DEF Follows, Finals
    <2>. QED BY <2>1, <2>2, <2>5 DEF Now, Final, Programs
  <1>3. /\ UNCHANGED <<fs, temps, kept, pending, obj, arr, list, alloc, dispo, me, dest, blocked,
                       slack, status>>
        /\ Files' = Files /\ PathsInUse' = PathsInUse /\ cursor' = cursor + 1
    <2>1. UNCHANGED <<disk, memory, dispo, me, dest, blocked, slack,
                      status>> /\ cursor' = cursor + 1
      BY <1>1, <1>2 DEF Scan, ScanNext, Undefined, Typing
    <2>. QED BY <2>1 DEF disk, memory, Files, PathsInUse
  <1>4. TypeOK'
    BY <1>1, <1>2, <1>3 DEF IInv, TypeOK, Object, Programs, Program
  <1>5. Mine'
    BY <1>1, <1>2, <1>3 DEF Typing, IInv, Mine, Calling, Cleaning, Holding, Closers
  <1>6. Listed'
    BY <1>1, <1>2, <1>3 DEF IInv, Listed, Files, OnTheList, Cleaning
  <1>7. Arriving'
    BY <1>1, <1>2, <1>3 DEF IInv, Arriving, OnTheList
  <1>8. Cleaned'
    BY <1>1, <1>2, <1>3 DEF Typing, IInv, Cleaned
  <1>9. Apart'
    BY <1>1, <1>2, <1>3 DEF IInv, Apart, Files, PathsInUse, Calling, Cleaning
  <1>10. Safe'
    BY <1>1, <1>2, <1>3 DEF IInv, Safe, Files, PathsInUse, Cleaning, Closers
  <1>11. Remembered'
    BY <1>1, <1>2, <1>3 DEF IInv, Remembered, Files, PathsInUse, Cleaning
  <1>12. Owned'
    BY <1>1, <1>2, <1>3 DEF IInv, Owned, Files, PathsInUse, Cleaning
  <1>. QED BY <1>2, <1>4, <1>5, <1>6, <1>7, <1>8, <1>9, <1>10, <1>11, <1>12 DEF IInv

LEMMA ScanKeepsFound ==
  ASSUME IInv, Scan, cursor <= Len(list), obj[list[cursor]].active, status' = "running"
  PROVE  IInv'
PROOF
  <1>1. Typing
    BY Entries
  <1>2. /\ status = "running" /\ Now = "scan" /\ Programs' /\ todo # <<>> /\ todo' # <<>>
        /\ Now' = "unlink" /\ Final' = Final /\ Final \in {"exit", "raise"}
    <2>1. At("scan") /\ todo' = <<"unlink", "clear">> \o todo /\ Programs /\ todo # <<>>
      BY Entries DEF Scan, At, IInv, Typing, Undefined
    <2>2. Now = "scan" /\ status = "running" /\ Final \in Finals
      BY <2>1, Due
    <2>3. Len(todo) # 1 => Follows("scan", todo[2], Final)
      BY <2>1, <2>2, Heads
    <2>4. Len(todo) = 1 => Final = "scan"
      BY <2>1, <2>2, Heads
    <2>5. Final \in {"exit", "raise"}
      BY <2>2, <2>3, <2>4 DEF Follows, Finals
    <2>6. Follows("unlink", "clear", Final) /\ Follows("clear", "scan", Final)
      BY <2>5 DEF Follows
    <2>7. Linked(<<"unlink", "clear">>, "unlink", "clear", Final)
      BY <2>6, Two DEF Step
    <2>8. Linked(todo, "scan", Final, Final)
      BY <2>1, <2>2, Rest
    <2>9. Linked(<<"unlink", "clear">> \o todo, "unlink", Final, Final)
      BY <2>6, <2>7, <2>8, Join
    <2>10. Linked(todo', "unlink", Final, Final)
      BY <2>1, <2>9
    <2>11. Programs' /\ todo' # <<>> /\ Now' = "unlink" /\ Final' = Final
      BY <2>2, <2>10, Whole
    <2>. QED BY <2>1, <2>2, <2>5, <2>11
  <1>3. /\ UNCHANGED <<fs, temps, kept, pending, obj, arr, list, alloc, dispo, dest, cursor,
                       blocked, slack, status>>
        /\ Files' = Files /\ PathsInUse' = PathsInUse /\ me' = list[cursor] /\ cursor \in 1 .. Len(list)
    <2>1. UNCHANGED <<disk, memory, dispo, dest, cursor, blocked, slack,
                      status>> /\ me' = list[cursor]
      BY <1>1, <1>2 DEF Scan, Undefined, Typing
    <2>2. cursor \in 1 .. Len(list)
      BY <1>1, <1>2 DEF IInv, Cleaned, Typing
    <2>. QED BY <2>1, <2>2 DEF disk, memory, Files, PathsInUse
  <1>4. TypeOK'
    BY <1>1, <1>2, <1>3 DEF IInv, TypeOK, Object, Programs, Program
  <1>5. Mine'
    BY <1>1, <1>2, <1>3 DEF Typing, IInv, Mine, Calling, Cleaning, Holding, Closers
  <1>6. Listed'
    BY <1>1, <1>2, <1>3 DEF IInv, Listed, Files, OnTheList, Cleaning
  <1>7. Arriving'
    BY <1>1, <1>2, <1>3 DEF IInv, Arriving, OnTheList
  <1>8. Cleaned'
    BY <1>1, <1>2, <1>3 DEF Typing, IInv, Cleaned
  <1>9. Apart'
    BY <1>1, <1>2, <1>3 DEF IInv, Apart, Files, PathsInUse, Calling, Cleaning
  <1>10. Safe'
    BY <1>1, <1>2, <1>3 DEF IInv, Safe, Files, PathsInUse, Cleaning, Closers
  <1>11. Remembered'
    BY <1>1, <1>2, <1>3 DEF IInv, Remembered, Files, PathsInUse, Cleaning
  <1>12. Owned'
    BY <1>1, <1>2, <1>3 DEF IInv, Owned, Files, PathsInUse, Cleaning
  <1>. QED BY <1>2, <1>4, <1>5, <1>6, <1>7, <1>8, <1>9, <1>10, <1>11, <1>12 DEF IInv

\* The cleanup removes the file under the cursor.
LEMMA UnlinkKeeps ==
  ASSUME IInv, Unlink, status' = "running"
  PROVE  IInv'
PROOF
  <1>1. Typing
    BY Entries
  <1>2. /\ status = "running" /\ Now = "unlink" /\ Programs' /\ todo # <<>> /\ todo' # <<>>
        /\ Now' = "clear" /\ Final' = Final /\ Final \in {"exit", "raise"}
    <2>1. At("unlink") /\ todo' = Tail(todo) /\ Programs /\ todo # <<>>
      BY DEF Unlink, At, Done, Goto, IInv, Undefined
    <2>2. Now = "unlink" /\ status = "running"
      BY <2>1, Due
    <2>. QED BY <2>1, <2>2, Advance DEF Follows, Finals
  <1>3. /\ UNCHANGED <<kept, pending, obj, arr, list, alloc, dispo, me, dest, cursor, blocked,
                       slack, status>>
        /\ Files' = Files /\ PathsInUse' = PathsInUse /\ me \in Objs /\ me \in Files
        /\ obj[me].path \in Paths /\ obj[me].path \in PathsInUse
        /\ fs' = [fs EXCEPT ![obj[me].path] = "absent"] /\ temps' = temps \ {obj[me].path}
    <2>1. /\ UNCHANGED <<kept, pending, memory, dispo, me, dest, cursor, blocked, slack, status>>
          /\ fs' = [fs EXCEPT ![obj[me].path] = "absent"] /\ temps' = temps \ {obj[me].path}
      BY <1>2 DEF Unlink, Undefined, Done, Goto, path
    <2>2. me \in Objs /\ me \in Files
      BY <1>1, <1>2 DEF IInv, Mine, Typing
    <2>3. obj[me].path \in Paths /\ obj[me].path \in PathsInUse
      BY <1>1, <2>2 DEF Typing, PathsInUse
    <2>. QED BY <2>1, <2>2, <2>3 DEF memory, Files, PathsInUse
  <1>4. TypeOK'
    BY <1>1, <1>2, <1>3 DEF IInv, TypeOK, Object, Programs, Program
  <1>5. Mine'
    BY <1>1, <1>2, <1>3 DEF Typing, IInv, Mine, Calling, Cleaning, Holding, Closers
  <1>6. Listed'
    BY <1>1, <1>2, <1>3 DEF IInv, Listed, Files, OnTheList, Cleaning
  <1>7. Arriving'
    BY <1>1, <1>2, <1>3 DEF IInv, Arriving, OnTheList
  <1>8. Cleaned'
    BY <1>1, <1>2, <1>3 DEF IInv, Cleaned, Files
  <1>9. Apart'
    BY <1>1, <1>2, <1>3 DEF IInv, Apart, Files, PathsInUse, Calling, Cleaning
  <1>10. Safe'
    BY <1>1, <1>2, <1>3 DEF IInv, Safe, Files, PathsInUse, Cleaning, Closers
  <1>11. Remembered'
    <2>1. \A p \in temps' : fs'[p] = fs[p] /\ p \in temps
      BY <1>1, <1>3 DEF Typing
    <2>2. fs'[obj'[me'].path] = "absent"
      BY <1>1, <1>3 DEF Typing
    <2>3. \A p \in temps' : fs'[p] = "absent" \/ pending'.path = p \/ p \in PathsInUse'
      BY <1>3, <2>1 DEF IInv, Remembered
    <2>. QED BY <1>2, <2>2, <2>3 DEF Remembered, Cleaning
  <1>12. Owned'
    <2>1. \A o \in Files : obj[o].path \in Paths
      BY <1>1 DEF Typing
    <2>2. \A o \in Files : obj[o].path \in temps' \/ fs'[obj[o].path] = "absent"
      BY <1>1, <1>3, <2>1 DEF Typing, IInv, Owned
    <2>. QED BY <1>2, <1>3, <2>2 DEF Owned, Cleaning
  <1>. QED BY <1>2, <1>4, <1>5, <1>6, <1>7, <1>8, <1>9, <1>10, <1>11, <1>12 DEF IInv

\* What is behind the cursor is no file any more.
LEMMA ClearKeeps ==
  ASSUME IInv, Clear
  PROVE  IInv'
PROOF
  <1>1. Typing
    BY Entries
  <1>2. /\ status = "running" /\ Now = "clear" /\ Programs' /\ todo # <<>> /\ todo' # <<>>
        /\ Now' = "scan" /\ Final' = Final /\ Final \in {"exit", "raise"}
    <2>1. At("clear") /\ todo' = Tail(todo) /\ Programs /\ todo # <<>>
      BY DEF Clear, At, IInv
    <2>2. Now = "clear" /\ status = "running"
      BY <2>1, Due
    <2>. QED BY <2>1, <2>2, Advance DEF Follows, Finals
  <1>3. /\ UNCHANGED <<fs, temps, kept, pending, arr, list, alloc, dispo, me, dest, blocked,
                       slack, status>>
        /\ cursor' = cursor + 1 /\ cursor \in 1 .. Len(list) /\ me = list[cursor]
        /\ Files' = Files \ {me} /\ fs[obj[me].path] = "absent"
        /\ obj' \in [Objs -> Object]
        /\ \A o \in Objs :
             /\ obj'[o].mem = obj[o].mem
             /\ obj'[o].named = obj[o].named
             /\ obj'[o].active <=> (o # me /\ obj[o].active)
             /\ obj'[o].fd = obj[o].fd
             /\ obj'[o].fp = obj[o].fp
             /\ obj'[o].path = obj[o].path
    <2>1. obj' = [obj EXCEPT ![me].active = FALSE] /\ obj \in [Objs -> Object] /\ me \in Objs
      BY <1>1, <1>2 DEF Typing, Clear, IInv, Mine
    <2>2. /\ obj' \in [Objs -> Object]
          /\ \A o \in Objs :
               /\ obj'[o].mem = obj[o].mem
               /\ obj'[o].named = obj[o].named
               /\ obj'[o].active <=> (o # me /\ obj[o].active)
               /\ obj'[o].fd = obj[o].fd
               /\ obj'[o].fp = obj[o].fp
               /\ obj'[o].path = obj[o].path
      BY <2>1 DEF Object
    <2>3. Files' = Files \ {me}
      BY <2>2 DEF Files
    <2>4. cursor \in 1 .. Len(list) /\ me = list[cursor] /\ fs[obj[me].path] = "absent"
      BY <1>2 DEF IInv, Mine, Remembered
    <2>. QED BY <2>2, <2>3, <2>4 DEF Clear, disk
  <1>4. TypeOK'
    BY <1>1, <1>2, <1>3 DEF IInv, TypeOK, Object, Programs, Program
  <1>5. Mine'
    BY <1>1, <1>2, <1>3 DEF Typing, IInv, Mine, Calling, Cleaning, Holding, Closers
  <1>6. Listed'
    <2>1. /\ \A o : OnTheList(o)' <=> OnTheList(o)
          /\ \A o \in Files' : OnTheList(o)'
          /\ \A k \in 1 .. Len(list') : obj'[list'[k]].mem = "live"
      BY <1>3, SameList
    <2>2. \A o \in Files' : (obj[o].named /\ obj[o].mem = "live" /\ dispo = "handler")'
      BY <1>1, <1>2, <1>3 DEF Typing, IInv, Listed
    <2>. QED BY <1>2, <1>3, <2>1, <2>2 DEF IInv, Listed, Cleaning
  <1>7. Arriving'
    BY <1>1, <1>2, <1>3 DEF IInv, Arriving, OnTheList
  <1>8. Cleaned'
    <2>1. \A k \in 1 .. Len(list) : k < cursor + 1 => k < cursor \/ k = cursor
      BY <1>1 DEF Typing
    <2>2. \A k \in 1 .. Len(list) : k < cursor => ~obj[list[k]].active
      BY <1>2 DEF IInv, Cleaned
    <2>3. \A k \in 1 .. Len(list) : k < cursor + 1 => ~obj'[list[k]].active
      BY <1>1, <1>3, <2>1, <2>2 DEF Typing
    <2>4. cursor + 1 >= 1
      BY <1>1 DEF Typing
    <2>. QED BY <1>2, <1>3, <2>3, <2>4 DEF IInv, Cleaned
  <1>9. Apart'
    <2>1. \A o, q \in Files' : o # q => obj'[o].path # obj'[q].path
      BY <1>3, FewerFiles
    <2>2. Calling' => \A o \in Files' \ {me'} : obj'[o].path # obj'[me'].path
      BY <1>1, <1>2, <1>3 DEF Typing, IInv, Apart, Calling, Cleaning
    <2>. QED BY <1>2, <2>1, <2>2 DEF Apart
  <1>10. Safe'
    BY <1>1, <1>2, <1>3 DEF IInv, Safe, Files, PathsInUse, Cleaning, Closers
  <1>11. Remembered'
    BY <1>1, <1>2, <1>3 DEF IInv, Remembered, Files, PathsInUse, Cleaning
  <1>12. Owned'
    BY <1>1, <1>2, <1>3 DEF IInv, Owned, Files, PathsInUse, Cleaning
  <1>. QED BY <1>2, <1>4, <1>5, <1>6, <1>7, <1>8, <1>9, <1>10, <1>11, <1>12 DEF IInv

\* The block and the counters go when there is no file left.
LEMMA FreeListKeeps ==
  ASSUME IInv, FreeList, status' = "running"
  PROVE  IInv'
PROOF
  <1>1. Typing
    BY Entries
  <1>2. /\ status = "running" /\ Now = "free list" /\ Programs' /\ todo # <<>> /\ todo' # <<>>
        /\ Now' = "reset list" /\ Final' = Final /\ Final \in {"exit", "raise"}
    <2>1. At("free list") /\ todo' = Tail(todo) /\ Programs /\ todo # <<>>
      BY DEF FreeList, At, Done, Goto, IInv, Undefined
    <2>2. Now = "free list" /\ status = "running"
      BY <2>1, Due
    <2>. QED BY <2>1, <2>2, Advance DEF Follows, Finals
  <1>3. /\ UNCHANGED <<fs, temps, kept, pending, obj, list, alloc, dispo, me, dest, cursor,
                       blocked, slack, status>>
        /\ Files' = Files /\ PathsInUse' = PathsInUse /\ arr' \in {"null", "freed"}
    BY <1>2 DEF FreeList, Undefined, disk, Done, Goto, Files, PathsInUse
  <1>4. TypeOK'
    BY <1>1, <1>2, <1>3 DEF IInv, TypeOK, Object, Programs, Program
  <1>5. Mine'
    BY <1>1, <1>2, <1>3 DEF Typing, IInv, Mine, Calling, Cleaning, Holding, Closers
  <1>6. Listed'
    BY <1>1, <1>2, <1>3 DEF IInv, Listed, Files, OnTheList, Cleaning
  <1>7. Arriving'
    BY <1>1, <1>2, <1>3 DEF IInv, Arriving, OnTheList
  <1>8. Cleaned'
    BY <1>1, <1>2, <1>3 DEF IInv, Cleaned, Files
  <1>9. Apart'
    BY <1>1, <1>2, <1>3 DEF IInv, Apart, Files, PathsInUse, Calling, Cleaning
  <1>10. Safe'
    BY <1>1, <1>2, <1>3 DEF IInv, Safe, Files, PathsInUse, Cleaning, Closers
  <1>11. Remembered'
    BY <1>1, <1>2, <1>3 DEF IInv, Remembered, Files, PathsInUse, Cleaning
  <1>12. Owned'
    BY <1>1, <1>2, <1>3 DEF IInv, Owned, Files, PathsInUse, Cleaning
  <1>. QED BY <1>2, <1>4, <1>5, <1>6, <1>7, <1>8, <1>9, <1>10, <1>11, <1>12 DEF IInv

LEMMA ResetListKeeps ==
  ASSUME IInv, ResetList
  PROVE  IInv'
PROOF
  <1>1. Typing
    BY Entries
  <1>2. /\ status = "running" /\ Now = "reset list" /\ Programs' /\ todo # <<>> /\ todo' # <<>>
        /\ Now' \in {"exit", "default action"} /\ Final' = Final /\ Final \in {"exit", "raise"}
    <2>1. At("reset list") /\ todo' = Tail(todo) /\ Programs /\ todo # <<>>
      BY DEF ResetList, At, Done, Goto, IInv
    <2>2. Now = "reset list" /\ status = "running"
      BY <2>1, Due
    <2>. QED BY <2>1, <2>2, Advance DEF Follows, Finals
  <1>3. /\ UNCHANGED <<fs, temps, kept, pending, obj, arr, dispo, me, dest, cursor, blocked,
                       slack, status>>
        /\ Files' = Files /\ PathsInUse' = PathsInUse /\ list' = <<>> /\ alloc' = 0 /\ Files = {}
    BY <1>2 DEF ResetList, disk, Done, Goto, Files, PathsInUse, IInv, Cleaned
  <1>4. TypeOK'
    <2>1. list' \in Seq(Objs) /\ alloc' \in Nat
      BY <1>3
    <2>. QED BY <1>2, <1>3, <2>1 DEF IInv, TypeOK, Programs, Program
  <1>5. Mine'
    BY <1>1, <1>2, <1>3 DEF Typing, IInv, Mine, Calling, Cleaning, Holding, Closers
  <1>6. Listed'
    <2>1. 1 .. Len(list') = {} /\ Len(list') <= alloc'
      BY <1>3
    <2>2. Files' = {} /\ Cleaning' /\ Now' \in {"exit", "default action"}
      BY <1>2, <1>3 DEF Cleaning
    <2>. QED BY <2>1, <2>2 DEF Listed
  <1>7. Arriving'
    BY <1>1, <1>2, <1>3 DEF IInv, Arriving, OnTheList
  <1>8. Cleaned'
    BY <1>1, <1>2, <1>3 DEF IInv, Cleaned, Files
  <1>9. Apart'
    BY <1>1, <1>2, <1>3 DEF IInv, Apart, Files, PathsInUse, Calling, Cleaning
  <1>10. Safe'
    BY <1>1, <1>2, <1>3 DEF IInv, Safe, Files, PathsInUse, Cleaning, Closers
  <1>11. Remembered'
    BY <1>1, <1>2, <1>3 DEF IInv, Remembered, Files, PathsInUse, Cleaning
  <1>12. Owned'
    BY <1>1, <1>2, <1>3 DEF IInv, Owned, Files, PathsInUse, Cleaning
  <1>. QED BY <1>2, <1>4, <1>5, <1>6, <1>7, <1>8, <1>9, <1>10, <1>11, <1>12 DEF IInv

LEMMA DefaultActionKeeps ==
  ASSUME IInv, DefaultAction
  PROVE  IInv'
PROOF
  <1>1. Typing
    BY Entries
  <1>2. /\ status = "running" /\ Now = "default action" /\ Programs' /\ todo # <<>> /\ todo' # <<>>
        /\ Now' = "raise" /\ Final' = Final /\ Final \in {"exit", "raise"}
    <2>1. At("default action") /\ todo' = Tail(todo) /\ Programs /\ todo # <<>>
      BY DEF DefaultAction, At, IInv
    <2>2. Now = "default action" /\ status = "running"
      BY <2>1, Due
    <2>. QED BY <2>1, <2>2, Advance DEF Follows, Finals
  <1>3. /\ UNCHANGED <<fs, temps, kept, pending, obj, arr, list, alloc, me, dest, cursor, blocked,
                       slack, status>>
        /\ Files' = Files /\ PathsInUse' = PathsInUse /\ Files = {} /\ dispo' = "default"
    BY <1>2 DEF DefaultAction, disk, memory, Files, PathsInUse, IInv, Cleaned
  <1>4. TypeOK'
    BY <1>1, <1>2, <1>3 DEF IInv, TypeOK, Object, Programs, Program
  <1>5. Mine'
    BY <1>1, <1>2, <1>3 DEF Typing, IInv, Mine, Calling, Cleaning, Holding, Closers
  <1>6. Listed'
    BY <1>1, <1>2, <1>3 DEF IInv, Listed, Files, OnTheList, Cleaning
  <1>7. Arriving'
    BY <1>1, <1>2, <1>3 DEF IInv, Arriving, OnTheList
  <1>8. Cleaned'
    BY <1>1, <1>2, <1>3 DEF IInv, Cleaned, Files
  <1>9. Apart'
    BY <1>1, <1>2, <1>3 DEF IInv, Apart, Files, PathsInUse, Calling, Cleaning
  <1>10. Safe'
    BY <1>1, <1>2, <1>3 DEF IInv, Safe, Files, PathsInUse, Cleaning, Closers
  <1>11. Remembered'
    BY <1>1, <1>2, <1>3 DEF IInv, Remembered, Files, PathsInUse, Cleaning
  <1>12. Owned'
    BY <1>1, <1>2, <1>3 DEF IInv, Owned, Files, PathsInUse, Cleaning
  <1>. QED BY <1>2, <1>4, <1>5, <1>6, <1>7, <1>8, <1>9, <1>10, <1>11, <1>12 DEF IInv

-----------------------------------------------------------------------------
(***************************************************************************)
(* The calls.                                                              *)
(***************************************************************************)

\* Between two calls.
LEMMA Resting ==
  ASSUME IInv, Idle
  PROVE  /\ status = "running" /\ todo = <<>> /\ Now = "idle" /\ Final = "idle" /\ pending = NoCall
         /\ \A o \in Files : obj[o].path \in temps
         /\ \A o \in Files : obj[o].fd \/ fs[obj[o].path] \in {"complete", "torn"}
         /\ \A j, k \in 1 .. Len(list) : ~(list[j] = list[k] /\ j < k)
PROOF
  <1>1. status = "running" /\ todo = <<>> /\ Now = "idle" /\ Final = "idle"
    BY DEF Idle, Now, Final
  <1>2. pending = NoCall
    BY <1>1 DEF IInv, Remembered, Cleaning
  <1>3. \A o \in Files : obj[o].path \in temps
    BY <1>1 DEF IInv, Owned, Cleaning
  <1>4. \A o \in Files : obj[o].fd \/ fs[obj[o].path] \in {"complete", "torn"}
    BY <1>1 DEF IInv, Safe, Cleaning, Closers
  <1>5. \A j, k \in 1 .. Len(list) : ~(list[j] = list[k] /\ j < k)
    BY <1>1 DEF IInv, Listed, Cleaning
  <1>. QED BY <1>1, <1>2, <1>3, <1>4, <1>5

\* What a call for a file in use begins with.
Begins(o) ==
  /\ Idle /\ obj[o].active /\ me' = o /\ Programs' /\ todo' # <<>>
  /\ UNCHANGED <<fs, temps, kept, memory, dispo, cursor, blocked, slack, status>>
  /\ dest' \in Paths \cup {NoPath}
  /\ Now' = "rename" \/ (Now' = "forget fd" /\ todo'[2] = "close or delete") =>
       dest' \in Paths \ PathsInUse
  /\ Now' # "forget fd" => ~obj[o].fd
  /\ \/ /\ Final' = "committed" /\ Now' \in {"forget fd", "inactive"}
        /\ pending' = [op |-> "commit", path |-> obj[o].path]
     \/ /\ Final' = "free object" /\ Now' \in {"forget fd", "rename", "unlink me"}
        /\ pending' = pending
     \/ Final' = "close" /\ Now' = "forget fd" /\ pending' = pending

\* A call that begins changes no file: it has only steps before it.
LEMMA BeginsKeeps ==
  ASSUME IInv, NEW x \in Objs, Begins(x)
  PROVE  IInv'
PROOF
  <1>1. Typing
    BY Entries
  <1>2. /\ Programs' /\ todo' # <<>> /\ status = "running" /\ me' = x /\ x \in Files
        /\ Now' \in {"forget fd", "inactive", "rename", "unlink me"}
        /\ Final' \in {"committed", "free object", "close"}
        /\ Now' # "forget fd" => ~obj[x].fd
        /\ Now = "idle" /\ Final = "idle" /\ Idle
        /\ Now' = "rename" \/ (Now' = "forget fd" /\ todo'[2] = "close or delete") =>
             dest' \in Paths \ PathsInUse
        /\ Now' = "inactive" => Final' = "committed"
    BY <1>1, Resting DEF Begins, Typing
  <1>3. /\ UNCHANGED <<fs, temps, kept, obj, arr, list, alloc, dispo, cursor, blocked, slack,
                       status>>
        /\ Files' = Files /\ PathsInUse' = PathsInUse /\ Calling' /\ ~Cleaning'
        /\ obj[x].path \in PathsInUse /\ obj[x].path \in Paths /\ obj[x].mem = "live"
        /\ dest' \in Paths \cup {NoPath}
        /\ Final' = "committed" => pending' = [op |-> "commit", path |-> obj[x].path]
        /\ Final' # "committed" => pending' = pending
        /\ /\ obj' \in [Objs -> Object]
           /\ \A o \in Objs :
                /\ obj'[o].mem = obj[o].mem
                /\ obj'[o].named = obj[o].named
                /\ obj'[o].active = obj[o].active
                /\ obj'[o].fd = obj[o].fd
                /\ obj'[o].fp = obj[o].fp
                /\ obj'[o].path = obj[o].path
    <2>1. UNCHANGED <<fs, temps, kept, obj, arr, list, alloc, dispo, cursor, blocked, slack,
                      status>>
      BY DEF Begins, memory
    <2>2. Files' = Files /\ PathsInUse' = PathsInUse
      BY <2>1 DEF Files, PathsInUse
    <2>3. obj[x].path \in PathsInUse /\ obj[x].path \in Paths /\ obj[x].mem = "live"
      BY <1>1, <1>2 DEF Typing, PathsInUse
    <2>4. Calling' /\ ~Cleaning'
      BY <1>2 DEF Calling, Cleaning
    <2>. QED BY <1>1, <2>1, <2>2, <2>3, <2>4 DEF Typing, Begins
  <1>4. TypeOK'
    <2>1. pending' \in [op : {"none", "create", "commit"}, path : Paths \cup {NoPath}]
      BY <1>3 DEF IInv, TypeOK
    <2>. QED BY <1>2, <1>3, <2>1 DEF IInv, TypeOK, Object, Programs, Program
  <1>5. Mine'
    BY <1>1, <1>2, <1>3 DEF Typing, IInv, Mine, Calling, Cleaning, Holding, Closers
  <1>6. Listed'
    <2>1. /\ \A p : OnTheList(p)' <=> OnTheList(p)
          /\ \A p \in Files' : OnTheList(p)'
          /\ \A k \in 1 .. Len(list') : obj'[list'[k]].mem = "live"
      BY <1>3, SameList
    <2>. QED BY <1>2, <1>3, <2>1, Resting DEF IInv, Listed
  <1>7. Arriving'
    BY <1>1, <1>2, <1>3 DEF IInv, Arriving, OnTheList
  <1>8. Cleaned'
    BY <1>1, <1>2, <1>3 DEF IInv, Cleaned, Files
  <1>9. Apart'
    BY <1>1, <1>2, <1>3 DEF IInv, Apart, Files, PathsInUse, Calling, Cleaning
  <1>10. Safe'
    BY <1>1, <1>2, <1>3, Resting DEF Typing, IInv, Safe, Closers
  <1>11. Remembered'
    <2>1. pending = NoCall
      BY <1>2, Resting
    <2>2. \A q \in temps : fs[q] = "absent" \/ q \in PathsInUse
      <3>1. \A q \in temps : q \in Paths /\ NoCall.path = NoPath /\ q # NoPath
        BY <1>1, ConstantsAssumption DEF Typing, NoCall
      <3>. QED BY <2>1, <3>1 DEF IInv, Remembered
    <2>3. Final' = "committed" => pending'.path = obj[x].path
      BY <1>3
    <2>. QED BY <1>2, <1>3, <2>1, <2>2, <2>3 DEF Remembered
  <1>12. Owned'
    BY <1>1, <1>2, <1>3, Resting DEF Owned
  <1>. QED BY <1>2, <1>4, <1>5, <1>6, <1>7, <1>8, <1>9, <1>10, <1>11, <1>12 DEF IInv

\* Calls of one statement.
LEMMA FdopenKeeps ==
  ASSUME IInv, NEW x \in Objs, Fdopen(x)
  PROVE  IInv'
PROOF
  <1>1. Typing
    BY Entries
  <1>2. /\ Programs' /\ todo' = <<>> /\ todo = <<>> /\ status = "running" /\ Now' = "idle" /\ Final' = "idle"
        /\ Now = "idle" /\ Final = "idle" /\ Idle /\ me' = me
    <2>1. Idle /\ todo' = <<>> /\ me' = me
      BY DEF Fdopen, Usable, control, Idle
    <2>. QED BY <2>1, Nothing, Resting
  <1>3. /\ UNCHANGED <<fs, temps, kept, pending, arr, list, alloc, dispo, me, dest, cursor,
                       blocked, slack, status>>
        /\ Files' = Files /\ PathsInUse' = PathsInUse
        /\ /\ obj' \in [Objs -> Object]
           /\ \A o \in Objs :
                /\ obj'[o].mem = obj[o].mem
                /\ obj'[o].named = obj[o].named
                /\ obj'[o].active = obj[o].active
                /\ obj'[o].fd = obj[o].fd
                /\ obj'[o].path = obj[o].path
    <2>1. obj' = [obj EXCEPT ![x].fp = TRUE] /\ obj \in [Objs -> Object]
      BY <1>1 DEF Typing, Fdopen
    <2>2. /\ obj' \in [Objs -> Object]
          /\ \A o \in Objs :
               /\ obj'[o].mem = obj[o].mem
               /\ obj'[o].named = obj[o].named
               /\ obj'[o].active = obj[o].active
               /\ obj'[o].fd = obj[o].fd
               /\ obj'[o].path = obj[o].path
      BY <2>1 DEF Object
    <2>3. Files' = Files
      BY <2>2 DEF Files
    <2>4. PathsInUse' = PathsInUse
      BY <2>2, <2>3 DEF Files, PathsInUse
    <2>. QED BY <2>2, <2>3, <2>4 DEF Fdopen, disk, control
  <1>4. TypeOK'
    BY <1>1, <1>2, <1>3 DEF IInv, TypeOK, Object, Programs, Program
  <1>5. Mine'
    BY <1>1, <1>2, <1>3 DEF Typing, IInv, Mine, Calling, Cleaning, Holding, Closers
  <1>6. Listed'
    <2>1. /\ \A o : OnTheList(o)' <=> OnTheList(o)
          /\ \A o \in Files' : OnTheList(o)'
          /\ \A k \in 1 .. Len(list') : obj'[list'[k]].mem = "live"
      BY <1>3, SameList
    <2>2. \A o \in Files' : (obj[o].named /\ obj[o].mem = "live" /\ dispo = "handler")'
      BY <1>1, <1>2, <1>3 DEF Typing, IInv, Listed
    <2>. QED BY <1>2, <1>3, <2>1, <2>2 DEF IInv, Listed, Cleaning
  <1>7. Arriving'
    BY <1>1, <1>2, <1>3 DEF IInv, Arriving, OnTheList
  <1>8. Cleaned'
    BY <1>1, <1>2, <1>3 DEF IInv, Cleaned, Files
  <1>9. Apart'
    <2>1. \A o, q \in Files' : o # q => obj'[o].path # obj'[q].path
      BY <1>3, FewerFiles
    <2>2. Calling' => \A o \in Files' \ {me'} : obj'[o].path # obj'[me'].path
      BY <1>1, <1>2, <1>3 DEF Typing, IInv, Apart, Calling, Cleaning
    <2>. QED BY <1>2, <2>1, <2>2 DEF Apart
  <1>10. Safe'
    BY <1>1, <1>2, <1>3 DEF IInv, Safe, Files, PathsInUse, Cleaning, Closers
  <1>11. Remembered'
    BY <1>1, <1>2, <1>3 DEF IInv, Remembered, Files, PathsInUse, Cleaning
  <1>12. Owned'
    BY <1>1, <1>2, <1>3 DEF IInv, Owned, Files, PathsInUse, Cleaning
  <1>. QED BY <1>2, <1>4, <1>5, <1>6, <1>7, <1>8, <1>9, <1>10, <1>11, <1>12 DEF IInv

LEMMA ReopenKeeps ==
  ASSUME IInv, NEW x \in Objs, Reopen(x)
  PROVE  IInv'
PROOF
  <1>1. Typing
    BY Entries
  <1>2. /\ Programs' /\ todo' = <<>> /\ todo = <<>> /\ status = "running" /\ Now' = "idle" /\ Final' = "idle"
        /\ Now = "idle" /\ Final = "idle" /\ Idle /\ me' = me /\ x \in Files
    <2>1. Idle /\ todo' = <<>> /\ me' = me
      BY DEF Reopen, Usable, control, Idle
    <2>2. x \in Files
      BY <1>1 DEF Reopen, Usable, Typing
    <2>. QED BY <2>1, <2>2, Nothing, Resting
  <1>3. /\ UNCHANGED <<temps, kept, pending, arr, list, alloc, dispo, me, dest, cursor, blocked,
                       slack, status>>
        /\ fs' = [fs EXCEPT ![obj[x].path] = "partial"]
        /\ Files' = Files /\ PathsInUse' = PathsInUse
        /\ obj[x].path \in Paths /\ obj[x].path \in PathsInUse
        /\ obj' \in [Objs -> Object]
        /\ \A q \in Objs :
             /\ obj'[q].mem = obj[q].mem /\ obj'[q].named = obj[q].named
             /\ obj'[q].active = obj[q].active /\ obj'[q].path = obj[q].path
             /\ obj'[q].fd <=> (q = x \/ obj[q].fd)
    <2>1. obj' = [obj EXCEPT ![x].fd = TRUE] /\ obj \in [Objs -> Object]
      BY <1>1 DEF Typing, Reopen
    <2>2. /\ obj' \in [Objs -> Object]
          /\ \A q \in Objs :
               /\ obj'[q].mem = obj[q].mem /\ obj'[q].named = obj[q].named
               /\ obj'[q].active = obj[q].active /\ obj'[q].path = obj[q].path
               /\ obj'[q].fd <=> (q = x \/ obj[q].fd)
      BY <2>1 DEF Object
    <2>3. Files' = Files
      BY <2>2 DEF Files
    <2>4. PathsInUse' = PathsInUse
      BY <2>2, <2>3 DEF Files, PathsInUse
    <2>5. obj[x].path \in Paths /\ obj[x].path \in PathsInUse
      BY <1>1, <1>2 DEF Typing, PathsInUse
    <2>. QED BY <2>2, <2>3, <2>4, <2>5 DEF Reopen, control
  <1>4. TypeOK'
    BY <1>1, <1>2, <1>3 DEF IInv, TypeOK, Object, Programs, Program
  <1>5. Mine'
    BY <1>1, <1>2, <1>3 DEF Typing, IInv, Mine, Calling, Cleaning, Holding, Closers
  <1>6. Listed'
    <2>1. /\ \A o : OnTheList(o)' <=> OnTheList(o)
          /\ \A o \in Files' : OnTheList(o)'
          /\ \A k \in 1 .. Len(list') : obj'[list'[k]].mem = "live"
      BY <1>3, SameList
    <2>2. \A o \in Files' : (obj[o].named /\ obj[o].mem = "live" /\ dispo = "handler")'
      BY <1>1, <1>2, <1>3 DEF Typing, IInv, Listed
    <2>. QED BY <1>2, <1>3, <2>1, <2>2 DEF IInv, Listed, Cleaning
  <1>7. Arriving'
    BY <1>1, <1>2, <1>3 DEF IInv, Arriving, OnTheList
  <1>8. Cleaned'
    BY <1>1, <1>2, <1>3 DEF IInv, Cleaned, Files
  <1>9. Apart'
    <2>1. \A o, q \in Files' : o # q => obj'[o].path # obj'[q].path
      BY <1>3, FewerFiles
    <2>2. Calling' => \A o \in Files' \ {me'} : obj'[o].path # obj'[me'].path
      BY <1>1, <1>2, <1>3 DEF Typing, IInv, Apart, Calling, Cleaning
    <2>. QED BY <1>2, <2>1, <2>2 DEF Apart
  <1>10. Safe'
    <2>1. kept \cap PathsInUse = {} /\ \A p \in kept : fs[p] \in {"complete", "torn"}
      BY DEF IInv, Safe
    <2>2. \A p \in Paths : p # obj[x].path => fs'[p] = fs[p]
      BY <1>1, <1>3 DEF Typing
    <2>3. \A p \in kept' : fs'[p] \in {"complete", "torn"}
      BY <1>1, <1>3, <2>1, <2>2 DEF Typing
    <2>4. \A q \in Files' : obj'[q].fd \/ fs'[obj'[q].path] \in {"complete", "torn"}
      <3>1. \A q \in Files : q # x => obj[q].path # obj[x].path
        BY <1>2 DEF IInv, Apart
      <3>2. \A q \in Files : obj[q].fd \/ fs[obj[q].path] \in {"complete", "torn"}
        BY <1>2, Resting
      <3>. QED BY <1>1, <1>2, <1>3, <2>2, <3>1, <3>2 DEF Typing
    <2>. QED BY <1>2, <1>3, <2>1, <2>3, <2>4 DEF Safe, Closers
  <1>11. Remembered'
    <2>1. \A p \in temps : fs[p] = "absent" \/ pending.path = p \/ p \in PathsInUse
      BY DEF IInv, Remembered
    <2>2. \A p \in temps : fs'[p] = fs[p] \/ p \in PathsInUse
      BY <1>1, <1>3 DEF Typing
    <2>3. pending = NoCall
      BY <1>2, Resting
    <2>. QED BY <1>2, <1>3, <2>1, <2>2, <2>3 DEF Remembered
  <1>12. Owned'
    BY <1>1, <1>2, <1>3, Resting DEF Typing, Owned
  <1>. QED BY <1>2, <1>4, <1>5, <1>6, <1>7, <1>8, <1>9, <1>10, <1>11, <1>12 DEF IInv

\* A new object is on no list and shares its path with no file.
LEMMA CreateKeeps ==
  ASSUME IInv, NEW o \in Objs, NEW p \in Paths, NEW flag \in {"open new", "open any"}, Create(o, p, flag)
  PROVE  IInv'
PROOF
  <1>1. Typing
    BY Entries
  <1>2. /\ Programs' /\ todo' # <<>> /\ todo = <<>> /\ status = "running" /\ Now' = flag /\ Final' = flag
        /\ Now = "idle" /\ Final = "idle" /\ Idle /\ me' = o /\ o \notin Files /\ obj[o].mem = "none"
        /\ \A q \in Files : obj[q].path # p
        /\ ~OnTheList(o)
    <2>1. Idle /\ todo' = <<flag>> /\ me' = o /\ obj[o].mem = "none" /\ p \notin Held(o)
      BY DEF Create, Call
    <2>2. o \notin Files
      BY <1>1, <2>1 DEF Typing
    <2>3. \A q \in Files : obj[q].path # p
      BY <1>1, <2>1, <2>2 DEF Held, Typing
    <2>4. Linked(todo', flag, flag, flag)
      <3>1. flag \in Step
        BY DEF Step
      <3>. QED BY <2>1, <3>1, One
    <2>5. Programs' /\ todo' # <<>> /\ Now' = flag /\ Final' = flag
      BY <2>4, Whole DEF Finals
    <2>6. ~OnTheList(o)
      BY <2>1 DEF IInv, Listed, OnTheList
    <2>. QED BY <2>1, <2>2, <2>3, <2>5, <2>6, Resting
  <1>3. /\ UNCHANGED <<fs, temps, kept, pending, arr, list, alloc, dispo, dest, cursor, blocked,
                       slack, status>>
        /\ Files' = Files /\ PathsInUse' = PathsInUse
        /\ obj' \in [Objs -> Object]
        /\ \A q \in Objs : q # o => obj'[q] = obj[q]
        /\ obj'[o].mem = "live" /\ ~obj'[o].active /\ obj'[o].named /\ ~obj'[o].fd /\ obj'[o].path = p
    <2>1. /\ UNCHANGED <<fs, temps, kept, pending, arr, list, alloc, dispo, dest, cursor, blocked,
                         slack, status>>
          /\ obj' = [obj EXCEPT ![o] = [FreshObj EXCEPT !.mem = "live", !.named = TRUE, !.path = p]]
      BY DEF Create, Call, disk
    <2>2. obj \in [Objs -> Object]
      BY <1>1 DEF Typing
    <2> DEFINE fresh == [FreshObj EXCEPT !.mem = "live", !.named = TRUE, !.path = p]
    <2>3. fresh.mem = "live" /\ ~fresh.active /\ fresh.named /\ ~fresh.fd /\ fresh.path = p
      BY DEF FreshObj
    <2>4. fresh \in Object
      <3>1. FreshObj \in Object
        BY DEF FreshObj, Object
      <3>. QED BY <3>1 DEF Object
    <2>5. obj' = [obj EXCEPT ![o] = fresh]
      BY <2>1
    <2> HIDE DEF fresh
    <2>6. /\ obj' \in [Objs -> Object]
          /\ \A q \in Objs : q # o => obj'[q] = obj[q]
          /\ obj'[o].mem = "live" /\ ~obj'[o].active /\ obj'[o].named /\ ~obj'[o].fd /\ obj'[o].path = p
      BY <2>2, <2>3, <2>4, <2>5
    <2>7. Files' = Files
      BY <1>1, <1>2, <2>6 DEF Files
    <2>8. PathsInUse' = PathsInUse
      <3>1. \A q \in Files : obj'[q].path = obj[q].path
        BY <1>1, <1>2, <2>6 DEF Typing
      <3>. QED BY <2>7, <3>1 DEF PathsInUse
    <2>. QED BY <2>1, <2>6, <2>7, <2>8
  <1>4. TypeOK'
    BY <1>1, <1>2, <1>3 DEF IInv, TypeOK, Object, Programs, Program
  <1>5. Mine'
    BY <1>1, <1>2, <1>3 DEF Typing, IInv, Mine, Calling, Cleaning, Holding, Closers
  <1>6. Listed'
    <2>1. \A q : OnTheList(q)' <=> OnTheList(q)
      BY <1>3 DEF OnTheList
    <2>2. \A k \in 1 .. Len(list) : list[k] \in Objs /\ list[k] # o /\ obj[list[k]].mem = "live"
      BY <1>1, <1>2 DEF Typing, OnTheList, IInv, Listed
    <2>3. \A k \in 1 .. Len(list') : obj'[list'[k]].mem = "live"
      BY <1>3, <2>2
    <2>4. \A q \in Files' : q \in Objs /\ q # o /\ q \in Files
      BY <1>1, <1>2, <1>3 DEF Typing
    <2>5. \A q \in Files' : (OnTheList(q) /\ obj[q].named /\ obj[q].mem = "live" /\ dispo = "handler")'
      BY <1>3, <2>1, <2>4 DEF IInv, Listed
    <2>. QED BY <1>2, <1>3, <2>1, <2>3, <2>5, Resting DEF IInv, Listed
  <1>7. Arriving'
    BY <1>2, <1>3 DEF Arriving
  <1>8. Cleaned'
    BY <1>1, <1>2, <1>3 DEF IInv, Cleaned, Files
  <1>9. Apart'
    <2>1. \A q \in Files : q \in Objs /\ q # o /\ obj'[q] = obj[q]
      BY <1>1, <1>2, <1>3 DEF Typing
    <2>2. \A q, r \in Files' : q # r => obj'[q].path # obj'[r].path
      <3>1. \A q, r \in Files : q # r => obj[q].path # obj[r].path
        BY DEF IInv, Apart
      <3>2. \A q \in Files : obj'[q].path = obj[q].path
        BY <2>1
      <3>3. Files' = Files
        BY <1>3
      <3>4. \A q, r \in Files : q # r => obj'[q].path # obj'[r].path
        BY <3>1, <3>2
      <3>. QED BY <3>3, <3>4, Zenon
    <2>3. \A q \in Files' \ {me'} : obj'[q].path # obj'[me'].path
      BY <1>2, <1>3, <2>1
    <2>. QED BY <1>2, <2>2, <2>3 DEF Apart
  <1>10. Safe'
    <2>1. \A q \in Files : q \in Objs /\ q # o /\ obj'[q] = obj[q]
      BY <1>1, <1>2, <1>3 DEF Typing
    <2>. QED BY <1>2, <1>3, <2>1, Resting DEF IInv, Safe, Closers
  <1>11. Remembered'
    BY <1>2, <1>3, Resting DEF IInv, Remembered
  <1>12. Owned'
    <2>1. \A q \in Files : q \in Objs /\ q # o /\ obj'[q] = obj[q]
      BY <1>1, <1>2, <1>3 DEF Typing
    <2>. QED BY <1>2, <1>3, <2>1, Resting DEF Owned
  <1>. QED BY <1>2, <1>4, <1>5, <1>6, <1>7, <1>8, <1>9, <1>10, <1>11, <1>12 DEF IInv

LEMMA Second ==
  ASSUME NEW x \in Step, NEW y \in Step, NEW t \in Seq(Step)
  PROVE  (<<x, y>> \o t)[2] = y
PROOF
  <1>. DEFINE s == <<x, y>>
  <1>1. s \in Seq(Step) /\ Len(s) = 2 /\ s[2] = y
    OBVIOUS
  <1>. HIDE DEF s
  <1>2. Len(t) \in Nat
    BY LenProperties
  <1>3. 2 \in 1 .. Len(s) + Len(t) /\ 2 <= Len(s)
    BY <1>1, <1>2
  <1>4. (s \o t)[2] = s[2]
    BY <1>1, <1>3, ConcatProperties, ZenonT(60)
  <1>. QED BY <1>1, <1>4 DEF s

\* What comes before the steps of a call that closes its file first.
LEMMA Closing ==
  ASSUME IInv, NEW o \in Objs, NEW how \in Closers, NEW steps, NEW a, NEW last \in Finals,
         Linked(steps, a, last, last), a # "forget fd",
         Follows("forget fd", how, last), Follows(how, a, last),
         todo' = CloseSteps(o, how) \o steps
  PROVE  /\ Programs' /\ todo' # <<>> /\ Final' = last
         /\ obj[o].fd => Now' = "forget fd" /\ todo'[2] = how
         /\ ~obj[o].fd => Now' = a
PROOF
  <1>1. CASE obj[o].fd
    <2>1. Linked(<<"forget fd", how>>, "forget fd", how, last)
      <3>1. how \in Step /\ "forget fd" \in Step
        BY DEF Closers, Step
      <3>. QED BY <3>1, Two
    <2>2. Linked(<<"forget fd", how>> \o steps, "forget fd", last, last)
      BY <2>1, Join
    <2>3. todo' = <<"forget fd", how>> \o steps
      BY <1>1 DEF CloseSteps
    <2>4. Programs' /\ todo' # <<>> /\ Now' = "forget fd" /\ Final' = last
      BY <2>2, <2>3, Whole
    <2>5. todo'[2] = how
      <3>1. steps \in Seq(Step) /\ <<"forget fd", how>> \in Seq(Step)
        BY <2>1 DEF Linked
      <3>2. how \in Step /\ "forget fd" \in Step
        BY DEF Closers, Step
      <3>3. (<<"forget fd", how>> \o steps)[2] = how
        BY <3>1, <3>2, Second, Zenon
      <3>. QED BY <2>3, <3>3, Zenon
    <2>. QED BY <1>1, <2>4, <2>5
  <1>2. CASE ~obj[o].fd
    <2>1. steps \in Seq(Step)
      BY DEF Linked
    <2>2. todo' = steps
      BY <1>2, <2>1, ConcatEmptySeq DEF CloseSteps
    <2>. QED BY <1>2, <2>2, Whole
  <1>. QED BY <1>1, <1>2

\* The calls that begin with a close.
LEMMA CloseBegins ==
  ASSUME IInv, NEW o \in Objs, Close(o)
  PROVE  Begins(o)
PROOF
  <1>1. Idle /\ obj[o].active /\ obj[o].fd /\ me' = o /\ todo' = <<"forget fd", "close">>
    BY DEF Close, Usable, Call, CloseSteps
  <1>2. UNCHANGED <<fs, temps, kept, pending, memory, dest, dispo, cursor, blocked, slack, status>>
    BY DEF Close, Call, disk
  <1>3. Linked(todo', "forget fd", "close", "close")
    <2>1. Follows("forget fd", "close", "close")
      BY DEF Follows
    <2>. QED BY <1>1, <2>1, Two DEF Step
  <1>4. Programs' /\ todo' # <<>> /\ Now' = "forget fd" /\ Final' = "close" /\ todo'[2] = "close"
    BY <1>1, <1>3, Whole DEF Finals
  <1>5. dest' \in Paths \cup {NoPath}
    BY <1>2 DEF IInv, TypeOK
  <1>. QED BY <1>1, <1>2, <1>4, <1>5 DEF Begins

LEMMA RenameBegins ==
  ASSUME IInv, NEW o \in Objs, NEW p \in Paths, Rename(o, p)
  PROVE  Begins(o)
PROOF
  <1>1. /\ Idle /\ obj[o].active /\ me' = o /\ p \notin Held(NoObj) /\ dest' = p
        /\ todo' = CloseSteps(o, "close or delete") \o RenameSteps
    BY DEF Rename, Usable, Call
  <1>2. UNCHANGED <<fs, temps, kept, pending, memory, dispo, cursor, blocked, slack, status>>
    BY DEF Rename, Call, disk
  <1>3. dest' \in Paths \ PathsInUse
    BY <1>1, ConstantsAssumption DEF Held, PathsInUse, Files
  <1>4. /\ Follows("forget fd", "close or delete", "free object")
        /\ Follows("close or delete", "rename", "free object")
    BY DEF Follows
  <1>5. Linked(RenameSteps, "rename", "free object", "free object")
    BY Written
  <1>6. /\ Programs' /\ todo' # <<>> /\ Final' = "free object"
        /\ obj[o].fd => Now' = "forget fd" /\ todo'[2] = "close or delete"
        /\ ~obj[o].fd => Now' = "rename"
    BY <1>1, <1>4, <1>5, Closing DEF Closers, Finals
  <1>. QED BY <1>1, <1>2, <1>3, <1>6 DEF Begins

LEMMA CommitBegins ==
  ASSUME IInv, NEW o \in Objs, Commit(o)
  PROVE  Begins(o)
PROOF
  <1>1. /\ Idle /\ obj[o].active /\ me' = o
        /\ todo' = CloseSteps(o, "close or fail") \o CommitSteps
        /\ pending' = [op |-> "commit", path |-> obj[o].path]
    BY DEF Commit, Usable, Call
  <1>2. UNCHANGED <<fs, temps, kept, memory, dest, dispo, cursor, blocked, slack, status>>
    BY DEF Commit, Call
  <1>3. dest' \in Paths \cup {NoPath}
    BY <1>2 DEF IInv, TypeOK
  <1>4. /\ Follows("forget fd", "close or fail", "committed")
        /\ Follows("close or fail", "inactive", "committed")
    BY DEF Follows
  <1>5. Linked(CommitSteps, "inactive", "committed", "committed")
    BY Written
  <1>6. /\ Programs' /\ todo' # <<>> /\ Final' = "committed"
        /\ obj[o].fd => Now' = "forget fd" /\ todo'[2] = "close or fail"
        /\ ~obj[o].fd => Now' = "inactive"
    BY <1>1, <1>4, <1>5, Closing DEF Closers, Finals
  <1>. QED BY <1>1, <1>2, <1>3, <1>6 DEF Begins

LEMMA DeleteBegins ==
  ASSUME IInv, NEW o \in Objs, Delete(o)
  PROVE  Begins(o)
PROOF
  <1>1. /\ Idle /\ obj[o].active /\ me' = o
        /\ todo' = CloseSteps(o, "close") \o DeleteSteps
    BY DEF Delete, Usable, Call
  <1>2. UNCHANGED <<fs, temps, kept, pending, memory, dest, dispo, cursor, blocked, slack, status>>
    BY DEF Delete, Call, disk
  <1>3. dest' \in Paths \cup {NoPath}
    BY <1>2 DEF IInv, TypeOK
  <1>4. /\ Follows("forget fd", "close", "free object")
        /\ Follows("close", "unlink me", "free object")
    BY DEF Follows
  <1>5. Linked(DeleteSteps, "unlink me", "free object", "free object")
    BY Written
  <1>6. /\ Programs' /\ todo' # <<>> /\ Final' = "free object"
        /\ obj[o].fd => Now' = "forget fd" /\ todo'[2] = "close"
        /\ ~obj[o].fd => Now' = "unlink me"
    BY <1>1, <1>4, <1>5, Closing DEF Closers, Finals
  <1>. QED BY <1>1, <1>2, <1>3, <1>6 DEF Begins

-----------------------------------------------------------------------------
(***************************************************************************)
(* Any step.                                                               *)
(***************************************************************************)
LEMMA UndefinedKeeps ==
  ASSUME IInv, Undefined
  PROVE  IInv'
PROOF
  BY Stays DEF Undefined

\* The steps with several outcomes, and those that leave the library.
LEMMA ScanKeeps ==
  ASSUME IInv, Scan
  PROVE  IInv'
PROOF
  <1>1. cursor \in Nat /\ Len(list) \in Nat
    BY Entries DEF Typing
  <1>2. CASE Undefined
    BY <1>2, UndefinedKeeps
  <1>3. CASE cursor > Len(list)
    BY <1>3, ScanKeepsDone
  <1>4. CASE cursor <= Len(list) /\ ~Undefined
    <2>1. ~(cursor > Len(list))
      BY <1>1, <1>4
    <2>2. status' = "running"
      BY <1>4, <2>1 DEF Scan, ScanNext, At
    <2>. QED BY <1>4, <2>2, ScanKeepsNext, ScanKeepsFound
  <1>5. cursor > Len(list) \/ cursor <= Len(list)
    BY <1>1
  <1>. QED BY <1>2, <1>3, <1>4, <1>5

LEMMA GrowStepKeeps ==
  ASSUME IInv, Grow
  PROVE  IInv'
PROOF
  <1>1. CASE Grown
    BY <1>1, GrowKeeps
  <1>2. CASE todo' = ExitNow /\ cursor' = 1 /\ UNCHANGED <<dispo, me, dest, blocked, slack, status>>
    <2>1. UNCHANGED <<disk, obj, arr, list, dispo, slack, dest, status>>
      BY <1>2 DEF Grow
    <2>2. alloc' \in Nat /\ alloc <= alloc'
      BY Room
    <2>3. me' \in Objs \cup {NoObj} /\ blocked' \subseteq Signals /\ status = "running"
      BY <1>2 DEF IInv, TypeOK, Grow, At
    <2>. QED BY <1>2, <2>1, <2>2, <2>3, Leaves
  <1>3. Grown \/ (todo' = ExitNow /\ cursor' = 1 /\ UNCHANGED <<dispo, me, dest, blocked, slack,
                                                                status>>)
    BY DEF Grow, Grown
  <1>. QED BY <1>1, <1>2, <1>3

LEMMA EndKeeps ==
  ASSUME IInv, End("exit", "exited") \/ End("raise", "killed")
  PROVE  IInv'
PROOF
  <1>1. CASE End("exit", "exited")
    <2>1. Now = "exit"
      BY <1>1, Due DEF End
    <2>2. Files = {}
      BY <2>1 DEF IInv, Cleaned
    <2>. QED BY <1>1, <2>2, Stays DEF End
  <1>2. CASE End("raise", "killed")
    <2>1. Now = "raise"
      BY <1>2, Due DEF End
    <2>2. Files = {}
      BY <2>1 DEF IInv, Cleaned
    <2>. QED BY <1>2, <2>2, Stays DEF End
  <1>. QED BY <1>1, <1>2

LEMMA SignalKeeps ==
  ASSUME IInv, NEW s \in Signals, Signal(s)
  PROVE  IInv'
PROOF
  <1>1. CASE dispo = "default"
    <2>1. Files = {}
      BY <1>1 DEF IInv, Listed
    <2>. QED BY <1>1, <2>1, Stays DEF Signal
  <1>2. CASE dispo # "default"
    <2>1. alloc \in Nat /\ alloc' = alloc /\ alloc <= alloc
      <3>1. alloc \in Nat
        BY Entries DEF Typing
      <3>. QED BY <3>1 DEF Signal, memory
    <2>2. UNCHANGED <<disk, obj, arr, list, dispo, slack, dest, status>>
      BY <1>2 DEF Signal, memory
    <2>3. me' \in Objs \cup {NoObj} /\ blocked' \subseteq Signals /\ status = "running"
            /\ todo' = OnSignalSteps /\ cursor' = 1
      BY <1>2 DEF IInv, TypeOK, Signal
    <2>. QED BY <2>1, <2>2, <2>3, Leaves
  <1>. QED BY <1>1, <1>2

LEMMA ExitKeeps ==
  ASSUME IInv, Exit
  PROVE  IInv'
PROOF
  <1>1. alloc \in Nat /\ alloc' = alloc /\ alloc <= alloc
    <2>1. alloc \in Nat
      BY Entries DEF Typing
    <2>. QED BY <2>1 DEF Exit, memory
  <1>2. UNCHANGED <<disk, obj, arr, list, dispo, slack, dest, status>>
    BY DEF Exit, memory
  <1>3. me' \in Objs \cup {NoObj} /\ blocked' \subseteq Signals /\ status = "running"
          /\ todo' = ExitNow /\ cursor' = 1
    BY DEF IInv, TypeOK, Exit, Idle
  <1>. QED BY <1>1, <1>2, <1>3, Leaves

\* Every step of the library, every call of the client.
LEMMA LibraryKeeps ==
  ASSUME IInv, LibraryStep
  PROVE  IInv'
PROOF
  <1>1. CASE Open \/ Register \/ Grow \/ MoveBlock \/ SetPointer \/ AppendObj \/ Activate
    BY <1>1, OpenKeeps, RegisterKeeps, GrowStepKeeps, MoveBlockKeeps, SetPointerKeeps,
       AppendKeeps, ActivateKeeps
  <1>2. CASE ForgetFd \/ RenameFile \/ Committed \/ UnlinkMe
    BY <1>2, ForgetFdKeeps, RenameFileKeeps, CommittedKeeps, UnlinkMeKeeps
  <1>3. CASE \E how \in Closers : CloseFile(how)
    BY <1>3, CloseFileKeeps
  <1>4. CASE Inactive \/ FreeName \/ TakeOut \/ Shorten \/ FreeObject
    BY <1>4, InactiveKeeps, FreeNameKeeps, TakeOutKeeps, ShortenKeeps, FreeObjectKeeps
  <1>5. CASE Scan \/ Clear \/ ResetList \/ DefaultAction
    BY <1>5, ScanKeeps, ClearKeeps, ResetListKeeps, DefaultActionKeeps
  <1>6. CASE Unlink
    <2>1. Undefined \/ status' = "running"
      BY <1>6 DEF Unlink, At, Done, Goto
    <2>. QED BY <1>6, <2>1, UnlinkKeeps, UndefinedKeeps
  <1>7. CASE FreeList
    <2>1. Undefined \/ status' = "running"
      BY <1>7 DEF FreeList, At, Done, Goto
    <2>. QED BY <1>7, <2>1, FreeListKeeps, UndefinedKeeps
  <1>8. CASE End("exit", "exited") \/ End("raise", "killed")
    BY <1>8, EndKeeps
  <1>. QED BY <1>1, <1>2, <1>3, <1>4, <1>5, <1>6, <1>7, <1>8 DEF LibraryStep, Closers

LEMMA ClientKeeps ==
  ASSUME IInv, Client
  PROVE  IInv'
PROOF
  <1>1. CASE Exit
    BY <1>1, ExitKeeps
  <1>2. ASSUME NEW o \in Objs,
               \/ \E p \in Paths, flag \in {"open new", "open any"} : Create(o, p, flag)
               \/ Fdopen(o) \/ Close(o) \/ Reopen(o) \/ Commit(o) \/ Delete(o)
               \/ \E p \in Paths : Rename(o, p)
        PROVE  IInv'
    BY <1>2, CreateKeeps, FdopenKeeps, ReopenKeeps, BeginsKeeps,
       CloseBegins, CommitBegins, DeleteBegins, RenameBegins
  <1>. QED BY <1>1, <1>2 DEF Client

\* The program starts with nothing on the list.
LEMMA Initially ==
  ASSUME Init
  PROVE  IInv
PROOF
  <1>1. Now = "idle" /\ Final = "idle" /\ todo = <<>>
    BY DEF Init, Now, Final
  <1>2. Programs
    <2>1. <<>> \in Seq(Step) /\ 1 .. Len(<<>>) - 1 = {}
      OBVIOUS
    <2>. QED BY <1>1, <2>1 DEF Programs, Program
  <1>3. Files = {} /\ PathsInUse = {} /\ \A o \in Objs : obj[o] = FreshObj
    BY DEF Init, Files, PathsInUse, FreshObj
  <1>4. TypeOK
    <2>1. FreshObj \in Object
      BY DEF FreshObj, Object
    <2>2. \A o \in Objs : obj[o] \in Object
      BY <1>3, <2>1
    <2>3. obj \in [Objs -> Object]
      BY <2>2 DEF Init
    <2>4. list \in Seq(Objs) /\ todo \in Seq(Step)
      BY DEF Init
    <2>. QED BY <2>3, <2>4, ConstantsAssumption DEF Init, TypeOK, Object, NoCall
  <1>5. Mine
    BY <1>1, <1>3 DEF Mine, Calling, FreshObj
  <1>6. Listed
    <2>1. 1 .. Len(list) = {} /\ Len(list) <= alloc
      BY DEF Init
    <2>. QED BY <1>1, <1>3, <2>1 DEF Listed
  <1>7. Arriving /\ Cleaned
    BY <1>1 DEF Arriving, Cleaned, Init
  <1>8. Apart /\ Safe
    BY <1>1, <1>3 DEF Apart, Safe, Calling, Init, Closers
  <1>9. Remembered /\ Owned
    BY <1>1, <1>3 DEF Remembered, Owned, Init
  <1>. QED BY <1>2, <1>4, <1>5, <1>6, <1>7, <1>8, <1>9 DEF IInv

\* The invariant is inductive.
LEMMA Inductive ==
  ASSUME IInv, [Next]_vars
  PROVE  IInv'
PROOF
  <1>1. CASE LibraryStep
    BY <1>1, LibraryKeeps
  <1>2. CASE Client
    BY <1>2, ClientKeeps
  <1>3. CASE \E s \in Signals : Signal(s)
    BY <1>3, SignalKeeps
  <1>4. CASE UNCHANGED vars
    <2>1. UNCHANGED <<disk, memory, dispo, todo, me, dest, cursor, blocked, slack, status>>
      BY <1>4 DEF vars, control
    <2>2. status' \in {"running", "exited", "killed", "undefined"}
      BY <2>1 DEF IInv, TypeOK
    <2>3. status' \in {"exited", "killed"} => Files = {}
      BY <2>1 DEF IInv, Cleaned
    <2>. QED BY <2>1, <2>2, <2>3, Stays
  <1>. QED BY <1>1, <1>2, <1>3, <1>4 DEF Next

\* IInv holds in every state of every run.
LEMMA Invariant == Spec => []IInv
PROOF
  <1>1. Init => IInv
    BY Initially
  <1>2. IInv /\ [Next]_vars => IInv'
    BY Inductive
  <1>. QED BY <1>1, <1>2, PTL DEF Spec

-----------------------------------------------------------------------------
(***************************************************************************)
(* The theorems.                                                           *)
(***************************************************************************)

\* The library's memory and the running activation have their types
\* (lib/tempfile.c), for any objects, paths and signals.
THEOREM TypeCorrect == Spec => []TypeOK
PROOF
  <1>1. IInv => TypeOK
    BY DEF IInv
  <1>. QED BY <1>1, Invariant, PTL

\* Between any two statements of the library an active object is on the list, has
\* its name and its memory, and the list fits the array (tempfile.c:43): whatever
\* the handler interrupts, it finds every file it has to remove.
THEOREM ListIsConsistent == Spec => []ListConsistent
PROOF
  <1>1. IInv => ListConsistent
    <2>. SUFFICES ASSUME IInv PROVE ListConsistent
      OBVIOUS
    <2>1. \A o \in Objs : obj[o].active =>
            OnTheList(o) /\ obj[o].named /\ obj[o].mem = "live" /\ dispo = "handler"
      BY DEF IInv, Listed, Files
    <2>2. \A o : OnTheList(o) => Contains(list, o)
      BY DEF OnTheList, Contains
    <2>3. DOMAIN list = 1 .. Len(list)
      BY Entries DEF Typing
    <2>. QED BY <2>1, <2>2, <2>3 DEF ListConsistent, IInv, Listed
  <1>. QED BY <1>1, Invariant, PTL

\* A file that was committed or renamed into place is there, and was closed before,
\* in every state of every run: no cleanup, late call or stale object takes it back.
THEOREM KeptFilesSurvive == Spec => []KeptSurvive
PROOF
  <1>1. IInv => KeptSurvive
    BY DEF IInv, Safe, KeptSurvive
  <1>. QED BY <1>1, Invariant, PTL

\* A process that has ended left no temporary file, but that of a create or commit
\* call it died in.
THEOREM NothingForgotten == Spec => []NoneForgotten
PROOF
  <1>1. IInv => NoneForgotten
    <2>. SUFFICES ASSUME IInv, Ended PROVE \A p \in temps : fs[p] = "absent" \/ pending.path = p
      BY DEF NoneForgotten
    <2>1. Files = {}
      BY DEF IInv, Cleaned, Ended
    <2>2. PathsInUse = {}
      BY <2>1 DEF PathsInUse
    <2>. QED BY <2>2 DEF IInv, Remembered
  <1>. QED BY <1>1, Invariant, PTL

\* Only the path of a temporary file is ever removed: the handlers, delete_tempfile
\* and the failure paths unlink, and rename_tempfile moves, nothing that the user
\* had or that was published.
THEOREM OnlyTemporariesRemoved == Spec => OnlyTempsRemoved
PROOF
  <1> DEFINE Removal == \A p \in Paths : fs[p] # "absent" /\ fs'[p] = "absent" => p \in temps
  <1>1. ASSUME IInv, [Next]_vars PROVE [Removal]_fs
    <2>1. Typing /\ fs \in [Paths -> {"absent", "user", "partial", "torn", "complete"}]
      BY <1>1, Entries DEF Typing
    <2>2. ASSUME NEW q, fs' = [fs EXCEPT ![q] = "absent"], q \in temps \/ fs[q] = "absent"
          PROVE  Removal
      BY <2>1, <2>2
    <2>3. ASSUME NEW q, NEW content \in {"partial", "torn", "complete"},
                 fs' = [fs EXCEPT ![q] = content]
          PROVE  Removal
      BY <2>1, <2>3
    <2>4. ASSUME UNCHANGED fs PROVE Removal
      BY <2>4
    <2> HIDE DEF Removal
    <2>5. CASE Open
      <3>1. UNCHANGED fs \/ fs' = [fs EXCEPT ![path] = "partial"]
        BY <2>5 DEF Open, disk
      <3>. QED BY <3>1, <2>3, <2>4
    <2>6. ASSUME NEW o \in Objs, Reopen(o) PROVE Removal
      <3>1. fs' = [fs EXCEPT ![obj[o].path] = "partial"]
        BY <2>6 DEF Reopen
      <3>. QED BY <3>1, <2>3
    <2>7. ASSUME NEW how \in Closers, CloseFile(how) PROVE Removal
      <3>1. fs' = [fs EXCEPT ![path] = "complete"] \/ fs' = [fs EXCEPT ![path] = "torn"]
        BY <2>7 DEF CloseFile
      <3>. QED BY <3>1, <2>3
    \* Who has an object whose turn it is to lose its file.
    <2>8. ASSUME NEW s \in {"rename", "unlink me"}, At(s)
          PROVE  /\ me \in Files /\ path \in temps /\ Now = s
                 /\ s = "rename" => fs[path] \in {"complete", "torn"}
      <3>1. todo # <<>> /\ Now = s /\ Final \in Finals /\ Programs
        BY <1>1, <2>8, Due DEF IInv
      <3>2. Final = "free object"
        <4>1. Now # Final
          BY <3>1 DEF Finals
        <4>2. Follows(Now, todo[2], Final)
          BY <3>1, <4>1, Heads
        <4>. QED BY <3>1, <4>2 DEF Follows
      <3>3. ~Cleaning /\ Calling
        BY <3>1, <3>2 DEF Cleaning, Calling
      <3>4. me \in Files
        BY <1>1, <3>1, <3>3 DEF IInv, Mine, Holding, Files
      <3>5. path \in temps
        BY <1>1, <3>1, <3>3, <3>4 DEF IInv, Owned, path
      <3>6. s = "rename" => fs[path] \in {"complete", "torn"}
        BY <1>1, <3>1, <3>3, <3>4 DEF IInv, Safe, Closers, path
      <3>. QED BY <3>1, <3>4, <3>5, <3>6
    <2>9. CASE UnlinkMe
      <3>1. path \in temps
        BY <2>8, <2>9 DEF UnlinkMe
      <3>. QED BY <3>1, <2>2, <2>9 DEF UnlinkMe
    <2>10. CASE RenameFile
      <3>1. path \in temps /\ fs[path] \in {"complete", "torn"}
        BY <2>8, <2>10 DEF RenameFile
      <3>2. UNCHANGED fs \/ fs' = [fs EXCEPT ![path] = "absent", ![dest] = fs[path]]
        BY <2>10 DEF RenameFile, disk
      <3>3. ASSUME fs' = [fs EXCEPT ![path] = "absent", ![dest] = fs[path]] PROVE Removal
        BY <2>1, <3>1, <3>3 DEF Removal
      <3>. QED BY <2>4, <3>2, <3>3
    <2>11. CASE Unlink
      <3>1. Now = "unlink"
        BY <1>1, <2>11, Due DEF Unlink
      <3>2. me \in Files
        BY <1>1, <3>1 DEF IInv, Mine, Files
      <3>3. path \in temps \/ fs[path] = "absent"
        BY <1>1, <3>2 DEF IInv, Owned, path
      <3>4. UNCHANGED fs \/ fs' = [fs EXCEPT ![path] = "absent"]
        BY <2>11 DEF Unlink, Undefined, disk
      <3>. QED BY <2>2, <2>4, <3>3, <3>4
    <2>12. CASE \/ Register \/ Grow \/ MoveBlock \/ SetPointer \/ AppendObj \/ Activate
                \/ ForgetFd \/ Committed
      <3>1. UNCHANGED fs
        BY <2>12 DEF Register, Grow, MoveBlock, SetPointer, AppendObj, Activate, ForgetFd,
                     Committed, disk
      <3>. QED BY <2>4, <3>1
    <2>13. CASE Inactive \/ FreeName \/ TakeOut \/ Shorten \/ FreeObject
      <3>1. UNCHANGED fs
        BY <2>13 DEF Inactive, FreeName, TakeOut, Shorten, FreeObject, disk
      <3>. QED BY <2>4, <3>1
    <2>14. CASE \/ Scan \/ Clear \/ FreeList \/ ResetList \/ DefaultAction
                \/ End("exit", "exited") \/ End("raise", "killed")
      <3>1. UNCHANGED fs
        BY <2>14 DEF Scan, Clear, FreeList, ResetList, DefaultAction, End, Undefined, disk
      <3>. QED BY <2>4, <3>1
    <2>15. ASSUME NEW o \in Objs,
                  \/ \E p \in Paths, flag \in {"open new", "open any"} : Create(o, p, flag)
                  \/ Fdopen(o) \/ Close(o) \/ Commit(o) \/ Delete(o)
                  \/ \E p \in Paths : Rename(o, p)
           PROVE  Removal
      <3>1. UNCHANGED fs
        BY <2>15 DEF Create, Fdopen, Close, Commit, Delete, Rename, disk
      <3>. QED BY <2>4, <3>1
    <2>16. CASE Exit \/ \E s \in Signals : Signal(s)
      <3>1. UNCHANGED fs
        BY <2>16 DEF Exit, Signal, disk
      <3>. QED BY <2>4, <3>1
    <2>17. CASE LibraryStep
      BY <2>17, <2>5, <2>7, <2>9, <2>10, <2>11, <2>12, <2>13, <2>14 DEF LibraryStep, Closers
    <2>18. CASE Client
      BY <2>18, <2>6, <2>15, <2>16 DEF Client
    <2>19. CASE UNCHANGED vars
      BY <2>19 DEF vars, disk
    <2>. QED BY <1>1, <2>16, <2>17, <2>18, <2>19 DEF Next
  <1>. QED BY <1>1, Invariant, PTL DEF Spec, OnlyTempsRemoved

====
