---------------------------- MODULE DriverProofs ----------------------------
(***************************************************************************)
(* Proofs about Driver, for any number of sources and options.             *)
(***************************************************************************)
EXTENDS Driver, FiniteSetTheorems, TLAPS

Looping == {"front end", "create", "activate", "generate", "close", "commit", "queue", "assemble",
            "gcc", "link", "return"}
OutFiles == {OutPath, DefaultOut} \cup ({".o"} \X SourceIds)

\* The assembly file and the output of source k.
AsmOf(k) == IF ~StopAtAssembly THEN <<"tmp", k>>
            ELSE IF HasOut THEN OutPath ELSE <<".s", k>>
OutOf(k) == IF HasOut THEN OutPath ELSE IF Link THEN DefaultOut ELSE <<".o", k>>

\* How far main() is with source k.
Behind(k, places) == k < cur \/ (k = cur /\ pc \in places)
Created(k) ==
  Behind(k, {"generate", "close", "commit", "queue", "assemble", "gcc", "link", "return"})
Closed(k) == Behind(k, {"commit", "queue", "assemble", "gcc", "link", "return"})
Queued(k) == Behind(k, {"gcc", "link", "return"})
Committed(k) == StopAtAssembly /\ Behind(k, {"return"})
Finished == pc = "return" \/ (pc = "gcc" /\ child.state = "ok")
Written(k) == IF Link THEN Finished ELSE k < cur \/ (k = cur /\ Finished)

(***************************************************************************)
(* The inductive invariant.                                                *)
(***************************************************************************)
Types ==
  /\ flags \subseteq Flag /\ sources \in 0 .. MaxSources /\ cur \in SourceIds
  /\ pc \in {"args", "print"} \cup Looping
  /\ fs \in [Files -> {"absent", "user", "partial", "complete"}]
  /\ asm \in [SourceIds -> Files \cup {NoFile}]
  /\ child \in [state : {"none", "started", "read", "failed", "ok"},
                inputs : SUBSET Files, out : OutFiles \cup {NoFile}]
  /\ status \in {"running", "exited", "killed"}

\* Nothing was done before the command line was read.
Untouched ==
  pc \in {"args", "print"} =>
    /\ cur = 1 /\ lost = {} /\ child = NoChild
    /\ \A f \in Files : fs[f] \in {"absent", "user"}

\* Where main() is, options allow.
Path ==
  /\ pc # "args" => ~Conflicting
  /\ pc \in Looping => cur <= sources
  /\ pc = "commit" => StopAtAssembly
  /\ pc \in {"queue", "link"} => ~StopAtAssembly /\ Link
  /\ pc = "assemble" => ~StopAtAssembly /\ ~Link
  /\ pc = "gcc" => ~StopAtAssembly
  /\ pc \in {"link", "return"} \/ (pc = "gcc" /\ Link) => cur = sources

\* The active tempfile objects.
AsmActive ==
  \A k \in SourceIds :
    asm[k] = IF status = "running" /\ Created(k) /\ ~Committed(k) THEN AsmOf(k) ELSE NoFile

\* An assembly file is half-written until it is closed; closed, it keeps what the
\* close left, a committed one after the end of the process too.
AsmClosed ==
  \A k \in SourceIds :
    /\ status = "running" /\ Created(k) /\ ~Closed(k) => fs[AsmOf(k)] = "partial"
    /\ Closed(k) /\ (status = "running" \/ Committed(k))
         => fs[AsmOf(k)] = IF AsmOf(k) \in lost THEN "partial" ELSE "complete"

\* What create_tempfile has made is empty until it is activated.
JustMade == status = "running" /\ pc = "activate" => fs[AsmOf(cur)] = "partial"

\* What was not created is no output of this run.
AsmFresh ==
  \A k \in 1 .. sources :
    /\ status = "running" /\ ~Created(k) => fs[AsmOf(k)] # "complete"
    /\ ~Closed(k) => AsmOf(k) \notin lost

\* The link queue holds the files of the sources passed.
QueueIs ==
  queue = IF Link /\ ~StopAtAssembly THEN {<<"tmp", k>> : k \in {j \in SourceIds : Queued(j)}}
          ELSE {}

\* A gcc that is not done was started on the closed files, for the right output.
GccIs ==
  /\ child.state \in {"started", "read", "failed"} => pc = "gcc"
  /\ pc = "gcc" => /\ child.state # "none"
                   /\ child.inputs = IF Link THEN queue ELSE {AsmOf(cur)}
                   /\ child.out = OutOf(cur)

\* Outputs are complete exactly when gcc wrote them.
OutputsAre ==
  pc \in Looping /\ ~StopAtAssembly =>
    \A k \in 1 .. sources :
      IF Written(k) THEN lost = {} => fs[OutOf(k)] = "complete"
      ELSE fs[OutOf(k)] # "complete"

\* What is half-written is the file being written, or left just behind its creation.
Partial ==
  lost = {} => \A f \in Files :
    fs[f] = "partial" => /\ f = AsmOf(cur)
                         /\ \/ status = "running" /\ pc \in {"generate", "close"}
                            \/ pc = "activate"

\* A temporary that exists belongs to an active object, or its creation was the last
\* thing that happened.
TempsActive ==
  \A k \in SourceIds :
    \/ fs[<<"tmp", k>>] = "absent"
    \/ status = "running" /\ asm[k] = <<"tmp", k>>
    \/ pc = "activate" /\ <<"tmp", k>> = AsmOf(cur)

IInv ==
  /\ Types /\ Untouched /\ Path /\ AsmActive /\ AsmClosed /\ JustMade /\ AsmFresh
  /\ QueueIs /\ GccIs /\ OutputsAre /\ Partial /\ TempsActive

-----------------------------------------------------------------------------
(***************************************************************************)
(* The names of the files do not clash.                                    *)
(***************************************************************************)

\* Every file of source k is a file; a temporary is the assembly file of one
\* source only; no output of gcc is one of its inputs.
LEMMA FileNames ==
  /\ \A k \in SourceIds :
       /\ AsmOf(k) \in Files /\ OutOf(k) \in Files /\ AsmOf(k) # NoFile
       /\ OutOf(k) \in OutFiles
       /\ <<"tmp", k>> \in Files
       /\ ~StopAtAssembly => AsmOf(k) = <<"tmp", k>>
  /\ \A j, k \in SourceIds :
       /\ AsmOf(j) = AsmOf(k) => j = k \/ (StopAtAssembly /\ HasOut)
       /\ <<"tmp", k>> = AsmOf(j) => j = k /\ ~StopAtAssembly
       /\ OutOf(j) = OutOf(k) => j = k \/ Link \/ HasOut
       /\ OutOf(j) # <<"tmp", k>>
  /\ OutFiles \subseteq Files /\ NoFile \notin Files
PROOF
  <1>1. \A k \in SourceIds :
       /\ AsmOf(k) \in Files /\ OutOf(k) \in Files
       /\ OutOf(k) \in OutFiles
       /\ <<"tmp", k>> \in Files
       /\ ~StopAtAssembly => AsmOf(k) = <<"tmp", k>>
    BY DEF AsmOf, OutOf, Files, OutFiles, SourceIds, OutPath, DefaultOut
  <1>2. OutFiles \subseteq Files /\ NoFile \notin Files
    BY DEF OutFiles, Files, NoFile, OutPath, DefaultOut, SourceIds
  <1>3. \A j, k \in SourceIds :
       /\ AsmOf(j) = AsmOf(k) => j = k \/ (StopAtAssembly /\ HasOut)
       /\ <<"tmp", k>> = AsmOf(j) => j = k /\ ~StopAtAssembly
    BY DEF AsmOf, SourceIds, OutPath
  <1>4. \A j, k \in SourceIds :
       /\ OutOf(j) = OutOf(k) => j = k \/ Link \/ HasOut
       /\ OutOf(j) # <<"tmp", k>>
    BY DEF OutOf, SourceIds, OutPath, DefaultOut
  <1>. QED BY <1>1, <1>2, <1>3, <1>4

\* The sources of the command line are numbered like all sources.
LEMMA SourcesFit ==
  ASSUME Types
  PROVE  /\ \A k \in 1 .. sources : k \in SourceIds
         /\ cur \in SourceIds /\ cur \in Nat /\ sources \in Nat
         /\ \A k \in SourceIds : k \in Int
PROOF
  BY DriverAssumption DEF Types, SourceIds

\* The initial states satisfy the invariant.
LEMMA InitIInv == Init => IInv
PROOF
  <1>. SUFFICES ASSUME Init PROVE IInv
    OBVIOUS
  <1>1. Types
    BY DriverAssumption DEF Init, Types, Flag, SourceIds, NoChild, Files
  <1>2. Untouched /\ Path /\ OutputsAre /\ GccIs
    BY DEF Init, Untouched, Path, OutputsAre, GccIs, Looping, NoChild
  <1>3. \A k \in SourceIds : ~Created(k) /\ ~Closed(k) /\ ~Queued(k)
    BY DEF Init, Created, Closed, Queued, Behind, SourceIds
  <1>4. AsmActive /\ AsmClosed /\ AsmFresh
    <2>1. AsmActive /\ AsmClosed
      BY <1>3 DEF Init, AsmActive, AsmClosed
    <2>2. AsmFresh
      BY DEF Init, AsmFresh
    <2>. QED BY <2>1, <2>2
  <1>5. QueueIs
    BY <1>3 DEF Init, QueueIs
  <1>6. Partial /\ TempsActive /\ JustMade
    BY DEF Init, Partial, TempsActive, JustMade
  <1>. QED BY <1>1, <1>2, <1>4, <1>5, <1>6 DEF IInv

\* No output of gcc is an assembly file.
LEMMA OutNotAsm ==
  ASSUME ~StopAtAssembly, NEW j \in SourceIds, NEW k \in SourceIds
  PROVE  OutOf(j) # AsmOf(k) /\ OutOf(j) \in Files
PROOF
  <1>1. AsmOf(k) = <<"tmp", k>>
    BY FileNames
  <1>. QED BY <1>1, FileNames

\* An active tempfile object holds the assembly file of its source; gcc's output
\* is none of them.
LEMMA OutNotActive ==
  ASSUME AsmActive, ~StopAtAssembly, NEW k \in SourceIds
  PROVE  OutOf(k) \notin Active
PROOF
  <1>. SUFFICES ASSUME NEW j \in SourceIds, asm[j] = OutOf(k), asm[j] # NoFile PROVE FALSE
    BY DEF Active
  <1>1. asm[j] = AsmOf(j)
    BY DEF AsmActive
  <1>2. AsmOf(j) = <<"tmp", j>>
    BY FileNames
  <1>. QED BY <1>1, <1>2, FileNames

\* Two sources of the command line have different assembly files: with -S, -o
\* allows only one source.
LEMMA AsmDistinct ==
  ASSUME Path, pc # "args", NEW j \in SourceIds, NEW k \in SourceIds,
         j <= sources, k <= sources, sources \in Nat, j # k
  PROVE  AsmOf(j) # AsmOf(k)
PROOF
  <1>1. ~(StopAtAssembly /\ HasOut /\ sources > 1)
    BY DEF Path, Conflicting
  <1>2. sources > 1
    BY DEF SourceIds
  <1>. QED BY <1>1, <1>2, FileNames

\* What was committed is no longer the file of an active object.
LEMMA AsmKept ==
  ASSUME Types, Untouched, Path, AsmActive, NEW k \in SourceIds, Committed(k)
  PROVE  AsmOf(k) \notin Active
PROOF
  <1>. SUFFICES ASSUME NEW j \in SourceIds, asm[j] = AsmOf(k), asm[j] # NoFile PROVE FALSE
    BY DEF Active
  <1>1. Created(j) /\ ~Committed(j) /\ asm[j] = AsmOf(j)
    BY DEF AsmActive
  <1>2. j # k /\ AsmOf(j) = AsmOf(k)
    BY <1>1
  <1>3. pc \in Looping
    <2>. SUFFICES ASSUME pc \in {"args", "print"} PROVE FALSE
      BY DEF Types
    <2>1. j < 1
      BY <1>1 DEF Created, Behind, Untouched
    <2>. QED BY <2>1 DEF SourceIds
  <1>4. j <= sources /\ k <= sources
    <2>1. j <= cur /\ k <= cur
      BY <1>1, SourcesFit DEF Created, Committed, Behind
    <2>. QED BY <1>3, <2>1, SourcesFit DEF Path
  <1>5. pc # "args"
    BY <1>3 DEF Looping
  <1>. QED BY <1>2, <1>4, <1>5, AsmDistinct, SourcesFit

-----------------------------------------------------------------------------
(***************************************************************************)
(* The end of the process.                                                 *)
(***************************************************************************)

Stop ==
  /\ status = "running" /\ status' \in {"exited", "killed"}
  /\ Cleanup
  /\ UNCHANGED <<flags, sources, pc, cur, queue, child, lost>>

\* Every exit, death and signal is a Stop.
LEMMA Stops ==
  ASSUME Types,
         HelpArg \/ BadArg \/ PrintAndReturn \/ PrintFails \/ StepFails \/ Return \/ Killed
         \/ (status = "running" /\ (Die \/ Exit(0) \/ Exit(129)))
  PROVE  Stop
PROOF
  BY DEF HelpArg, BadArg, PrintAndReturn, PrintFails, StepFails, Return, Killed, At, Exit,
         Die, Stop

\* Nothing but the files and the status changes.
LEMMA SameProgress ==
  ASSUME UNCHANGED <<flags, pc, cur, child>>
  PROVE  /\ \A k : AsmOf(k)' = AsmOf(k) /\ OutOf(k)' = OutOf(k)
         /\ \A k : /\ Created(k)' = Created(k) /\ Closed(k)' = Closed(k)
                   /\ Queued(k)' = Queued(k) /\ Committed(k)' = Committed(k)
                   /\ Written(k)' = Written(k)
         /\ StopAtAssembly' = StopAtAssembly /\ Link' = Link /\ HasOut' = HasOut
PROOF
  BY DEF AsmOf, OutOf, Created, Closed, Queued, Committed, Written, Finished, Behind,
         StopAtAssembly, Link, HasOut

\* The end of the process keeps the invariant: the active temporaries go.
LEMMA StopKeeps == ASSUME IInv, Stop PROVE IInv'
PROOF
  <1>. USE FileNames, SameProgress
  <1>0. /\ UNCHANGED <<flags, sources, pc, cur, queue, child, lost>>
        /\ status = "running" /\ status' \in {"exited", "killed"} /\ status' # "running"
        /\ fs' = [f \in Files |-> IF f \in Active THEN "absent" ELSE fs[f]]
        /\ asm' = [k \in SourceIds |-> NoFile]
    BY DEF Stop, Cleanup
  <1>1. Types'
    BY <1>0 DEF IInv, Types
  <1>2. Untouched'
    BY <1>0 DEF IInv, Untouched
  <1>3. Path'
    BY <1>0 DEF IInv, Path, Conflicting, Printing, StopAtAssembly, Link, HasOut
  <1>4. AsmActive' /\ AsmClosed'
    <2>1. AsmActive'
      BY <1>0 DEF AsmActive
    <2>2. ASSUME NEW k \in SourceIds, Closed(k), Committed(k)
          PROVE  fs'[AsmOf(k)] = fs[AsmOf(k)] /\ AsmOf(k)' = AsmOf(k)
      <3>1. AsmOf(k) \notin Active
        BY <2>2, AsmKept DEF IInv
      <3>. QED BY <1>0, <3>1
    <2>3. AsmClosed'
      <3>. SUFFICES ASSUME NEW k \in SourceIds, Closed(k), Committed(k)
                    PROVE  fs'[AsmOf(k)] = IF AsmOf(k) \in lost THEN "partial" ELSE "complete"
        BY <1>0 DEF AsmClosed
      <3>. QED BY <2>2 DEF IInv, AsmClosed
    <2>. QED BY <2>1, <2>3
  <1>5. AsmFresh'
    BY <1>0 DEF IInv, AsmFresh
  <1>6. QueueIs'
    <2>1. /\ queue = IF Link /\ ~StopAtAssembly
                     THEN {<<"tmp", k>> : k \in {j \in SourceIds : Queued(j)}} ELSE {}
          /\ queue' = queue
      BY <1>0 DEF IInv, QueueIs
    <2>2. /\ {j \in SourceIds : Queued(j)'} = {j \in SourceIds : Queued(j)}
          /\ Link' = Link /\ StopAtAssembly' = StopAtAssembly
      BY <1>0
    <2>. QED BY <2>1, <2>2, Zenon DEF QueueIs
  <1>7. GccIs'
    BY <1>0 DEF IInv, GccIs
  <1>8. OutputsAre'
    <2>. SUFFICES ASSUME pc \in Looping, ~StopAtAssembly, NEW k \in 1 .. sources
                  PROVE  (IF Written(k) THEN lost = {} => fs[OutOf(k)] = "complete"
                          ELSE fs[OutOf(k)] # "complete")'
      BY <1>0 DEF OutputsAre
    <2>1. k \in SourceIds
      BY SourcesFit DEF IInv
    <2>2. OutOf(k) \notin Active
      BY <2>1, OutNotActive DEF IInv
    <2>. QED BY <1>0, <2>1, <2>2 DEF IInv, OutputsAre
  <1>9. Partial'
    <2>. SUFFICES ASSUME lost = {}, NEW f \in Files, fs'[f] = "partial",
                         ~(pc = "activate" /\ f = AsmOf(cur))
                  PROVE  FALSE
      BY <1>0 DEF Partial
    <2>1. fs[f] = "partial" /\ f \notin Active
      BY <1>0
    <2>2. pc \in {"generate", "close"} /\ f = AsmOf(cur)
      BY <2>1 DEF IInv, Partial
    <2>3. cur \in SourceIds /\ Created(cur) /\ ~Committed(cur)
      BY <2>2 DEF IInv, Types, Created, Committed, Behind, SourceIds
    <2>4. asm[cur] = AsmOf(cur)
      BY <2>3, <1>0 DEF IInv, AsmActive
    <2>. QED BY <2>1, <2>2, <2>3, <2>4 DEF Active
  <1>10. TempsActive'
    <2>. SUFFICES ASSUME NEW k \in SourceIds, ~(pc = "activate" /\ <<"tmp", k>> = AsmOf(cur))
                  PROVE  fs'[<<"tmp", k>>] = "absent"
      BY <1>0 DEF TempsActive
    <2>1. CASE fs[<<"tmp", k>>] = "absent"
      BY <1>0, <2>1
    <2>2. CASE asm[k] = <<"tmp", k>>
      <3>1. <<"tmp", k>> \in Active
        BY <2>2 DEF Active
      <3>. QED BY <3>1, <1>0
    <2>. QED BY <2>1, <2>2 DEF IInv, TempsActive
  <1>11. JustMade'
    BY <1>0 DEF JustMade
  <1>. QED BY <1>1, <1>2, <1>3, <1>4, <1>5, <1>6, <1>7, <1>8, <1>9, <1>10, <1>11 DEF IInv

-----------------------------------------------------------------------------
(***************************************************************************)
(* The command line.                                                       *)
(***************************************************************************)

\* Reading an argument keeps the invariant: nothing was done yet.
LEMMA ArgKeeps ==
  ASSUME IInv, SourceArg \/ \E f \in Flag : OptionArg(f)
  PROVE  IInv'
PROOF
  <1>0. /\ status = "running" /\ pc = "args" /\ pc' = "args" /\ cur = 1 /\ cur' = 1
        /\ lost = {} /\ lost' = {} /\ child = NoChild /\ child' = NoChild
        /\ UNCHANGED <<fs, asm, queue, status>>
        /\ \A f \in Files : fs[f] \in {"absent", "user"}
        /\ flags' \subseteq Flag /\ sources' \in 0 .. MaxSources
    BY DriverAssumption DEF IInv, Types, Untouched, SourceArg, OptionArg, At
  <1>1. Types'
    BY <1>0 DEF IInv, Types
  <1>2. Untouched' /\ Path' /\ OutputsAre' /\ GccIs'
    BY <1>0 DEF Untouched, Path, OutputsAre, GccIs, Looping, NoChild
  <1>3. \A k \in SourceIds : ~Created(k) /\ ~Closed(k) /\ ~Queued(k)
                             /\ ~Created(k)' /\ ~Closed(k)' /\ ~Queued(k)'
    BY <1>0 DEF Created, Closed, Queued, Behind, SourceIds
  <1>4. AsmActive' /\ AsmClosed'
    BY <1>0, <1>3 DEF IInv, AsmActive, AsmClosed
  <1>5. AsmFresh'
    <2>1. \A k \in 1 .. sources' : k \in SourceIds
      BY <1>0, DriverAssumption DEF SourceIds
    <2>2. \A k \in SourceIds : AsmOf(k)' \in Files
      BY DEF AsmOf, Files, OutPath
    <2>. QED BY <1>0, <2>1, <2>2 DEF AsmFresh
  <1>6. QueueIs'
    BY <1>0, <1>3 DEF IInv, QueueIs
  <1>7. Partial' /\ TempsActive' /\ JustMade'
    <2>1. Partial'
      BY <1>0 DEF Partial
    <2>2. TempsActive'
      BY <1>0 DEF IInv, TempsActive
    <2>3. JustMade'
      BY <1>0 DEF JustMade
    <2>. QED BY <2>1, <2>2, <2>3
  <1>. QED BY <1>1, <1>2, <1>4, <1>5, <1>6, <1>7 DEF IInv

\* Only a consistent command line with a source gets into the loop.
LEMMA CheckKeeps == ASSUME IInv, CheckOptions PROVE IInv'
PROOF
  <1>1. CASE sources = 0 \/ Conflicting
    <2>1. Stop
      BY <1>1, Stops DEF IInv, CheckOptions, At, Stop, Exit, Die
    <2>. QED BY <2>1, StopKeeps
  <1>2. CASE sources # 0 /\ ~Conflicting
    <2>0. /\ status = "running" /\ status' = "running"
          /\ pc = "args" /\ pc' \in {"print", "front end"} /\ cur = 1 /\ cur' = 1
          /\ lost = {} /\ child = NoChild
          /\ UNCHANGED <<flags, sources, fs, asm, queue, child, lost>>
          /\ \A f \in Files : fs[f] \in {"absent", "user"}
      BY <1>2 DEF IInv, Untouched, CheckOptions, At, Goto
    <2>1. Types'
      BY <2>0 DEF IInv, Types, Looping
    <2>2. Untouched' /\ Path'
      <3>1. cur' <= sources'
        <4>1. sources \in Nat /\ sources # 0
          BY <1>2, SourcesFit DEF IInv
        <4>2. sources' = sources /\ cur' = 1
          BY <2>0
        <4>. QED BY <4>1, <4>2
      <3>2. ~Conflicting'
        BY <1>2, <2>0 DEF Conflicting, Printing, StopAtAssembly, Link, HasOut
      <3>. QED BY <2>0, <3>1, <3>2 DEF Untouched, Path
    <2>3. \A k \in SourceIds : /\ ~Created(k) /\ ~Closed(k) /\ ~Queued(k)
                               /\ ~Created(k)' /\ ~Closed(k)' /\ ~Queued(k)' /\ ~Written(k)'
      <3>1. \A k \in SourceIds : ~(k < 1)
        BY DEF SourceIds
      <3>2. \A k \in SourceIds : ~Created(k) /\ ~Closed(k) /\ ~Queued(k)
        BY <2>0, <3>1 DEF Created, Closed, Queued, Behind
      <3>3. \A k \in SourceIds : ~Created(k)' /\ ~Closed(k)' /\ ~Queued(k)'
        BY <2>0, <3>1 DEF Created, Closed, Queued, Behind
      <3>4. \A k \in SourceIds : ~Written(k)'
        BY <2>0, <3>1 DEF Written, Finished
      <3>. QED BY <3>2, <3>3, <3>4
    <2>4. /\ \A k : AsmOf(k)' = AsmOf(k) /\ OutOf(k)' = OutOf(k)
          /\ StopAtAssembly' = StopAtAssembly /\ Link' = Link /\ HasOut' = HasOut
      BY <2>0 DEF AsmOf, OutOf, StopAtAssembly, Link, HasOut
    <2>5. AsmActive' /\ AsmClosed'
      BY <2>0, <2>3, <2>4 DEF IInv, AsmActive, AsmClosed
    <2>6. AsmFresh'
      BY <2>0, <2>4, FileNames, SourcesFit DEF IInv, AsmFresh
    <2>7. QueueIs'
      BY <2>0, <2>3, <2>4 DEF IInv, QueueIs
    <2>8. GccIs'
      BY <2>0 DEF GccIs, NoChild
    <2>9. OutputsAre'
      BY <2>0, <2>3, <2>4, FileNames, SourcesFit DEF IInv, OutputsAre
    <2>10. Partial' /\ TempsActive' /\ JustMade'
      BY <2>0 DEF IInv, Partial, TempsActive, JustMade
    <2>. QED BY <2>1, <2>2, <2>5, <2>6, <2>7, <2>8, <2>9, <2>10 DEF IInv
  <1>. QED BY <1>1, <1>2

-----------------------------------------------------------------------------
(***************************************************************************)
(* The loop over the sources.                                              *)
(***************************************************************************)

\* In the loop, the current source is one of the command line, and is not the
\* last only while sources are left.
LEMMA InLoop ==
  ASSUME IInv, pc \in Looping
  PROVE  /\ cur <= sources /\ cur \in 1 .. sources
         /\ pc # "args" /\ pc \notin {"args", "print"}
         /\ Created(cur) /\ ~Committed(cur) /\ status = "running" => asm[cur] = AsmOf(cur)
PROOF
  <1>1. cur <= sources /\ pc # "args" /\ pc \notin {"args", "print"}
    BY DEF IInv, Path, Looping
  <1>2. cur \in 1 .. sources
    BY <1>1, SourcesFit DEF IInv, SourceIds
  <1>3. Created(cur) /\ ~Committed(cur) /\ status = "running" => asm[cur] = AsmOf(cur)
    BY SourcesFit DEF IInv, AsmActive
  <1>. QED BY <1>1, <1>2, <1>3

\* A file of another source does not change.
LEMMA OthersKeep ==
  ASSUME IInv, pc \in Looping, NEW v, fs' = [fs EXCEPT ![AsmOf(cur)] = v]
  PROVE  /\ \A k \in 1 .. sources : k # cur => fs'[AsmOf(k)] = fs[AsmOf(k)]
         /\ \A k \in SourceIds : k < cur => fs'[AsmOf(k)] = fs[AsmOf(k)]
         /\ fs'[AsmOf(cur)] = v
         /\ \A f \in Files : f # AsmOf(cur) => fs'[f] = fs[f]
PROOF
  <1>1. /\ fs'[AsmOf(cur)] = v
        /\ \A f \in Files : f # AsmOf(cur) => fs'[f] = fs[f]
    BY FileNames, SourcesFit DEF IInv, Types
  <1>2. \A k \in 1 .. sources : k # cur => AsmOf(k) # AsmOf(cur)
    BY AsmDistinct, InLoop, SourcesFit DEF IInv
  <1>3. \A k \in 1 .. sources : k # cur => fs'[AsmOf(k)] = fs[AsmOf(k)]
    BY <1>1, <1>2, FileNames, SourcesFit DEF IInv
  <1>4. \A k \in SourceIds : k < cur => k \in 1 .. sources /\ k # cur
    BY InLoop, SourcesFit DEF IInv, SourceIds
  <1>. QED BY <1>1, <1>3, <1>4

\* The front end and the code generator leave files and objects alone.
LEMMA PassKeeps == ASSUME IInv, FrontEnd \/ Generate PROVE IInv'
PROOF
  <1>0. /\ status = "running" /\ status' = "running"
        /\ (pc = "front end" /\ pc' = "create") \/ (pc = "generate" /\ pc' = "close")
        /\ flags' = flags /\ sources' = sources /\ cur' = cur /\ fs' = fs /\ asm' = asm
        /\ queue' = queue /\ child' = child /\ lost' = lost
    BY DEF FrontEnd, Generate, At, Proceed, Goto
  <1>1. Types' /\ Untouched'
    BY <1>0 DEF IInv, Types, Untouched, Looping
  <1>2. Path'
    BY <1>0 DEF IInv, Path, Looping, Conflicting, Printing, StopAtAssembly, Link, HasOut
  <1>3. /\ \A k : AsmOf(k)' = AsmOf(k) /\ OutOf(k)' = OutOf(k)
        /\ StopAtAssembly' = StopAtAssembly /\ Link' = Link
    BY <1>0 DEF AsmOf, OutOf, StopAtAssembly, Link, HasOut
  <1>4. \A k : /\ Created(k)' = Created(k) /\ Closed(k)' = Closed(k)
               /\ Queued(k)' = Queued(k) /\ Committed(k)' = Committed(k)
    BY <1>0, <1>3 DEF Created, Closed, Queued, Committed, Behind
  <1>5. \A k : Written(k)' = Written(k)
    BY <1>0, <1>3 DEF Written, Finished
  <1>6. AsmActive' /\ AsmClosed' /\ AsmFresh'
    BY <1>0, <1>3, <1>4 DEF IInv, AsmActive, AsmClosed, AsmFresh
  <1>7. QueueIs' /\ GccIs'
    BY <1>0, <1>3, <1>4 DEF IInv, QueueIs, GccIs
  <1>8. OutputsAre'
    BY <1>0, <1>3, <1>5 DEF IInv, OutputsAre, Looping
  <1>9. Partial' /\ TempsActive' /\ JustMade'
    BY <1>0, <1>3 DEF IInv, Partial, TempsActive, JustMade
  <1>. QED BY <1>1, <1>2, <1>6, <1>7, <1>8, <1>9 DEF IInv

\* A new assembly file: nobody else's, and no output of an earlier source.
LEMMA CreateKeeps == ASSUME IInv, CreateAsm PROVE IInv'
PROOF
  <1>0. /\ status = "running" /\ status' = "running" /\ pc = "create" /\ pc' = "activate"
        /\ flags' = flags /\ sources' = sources /\ cur' = cur
        /\ asm' = asm /\ queue' = queue /\ child' = child /\ lost' = lost
        /\ fs' = [fs EXCEPT ![AsmOf(cur)] = "partial"]
    BY DEF CreateAsm, At, Goto, AsmFile, AsmOf
  <1>1. pc \in Looping
    BY <1>0 DEF Looping
  <1>2. /\ fs'[AsmOf(cur)] = "partial"
        /\ \A k \in 1 .. sources : k # cur => fs'[AsmOf(k)] = fs[AsmOf(k)]
        /\ \A k \in SourceIds : k < cur => fs'[AsmOf(k)] = fs[AsmOf(k)]
        /\ \A f \in Files : f # AsmOf(cur) => fs'[f] = fs[f]
    BY <1>0, <1>1, OthersKeep
  <1>3. /\ cur \in SourceIds /\ cur \in 1 .. sources /\ \A k \in 1 .. sources : k \in SourceIds
        /\ \A k \in SourceIds : k \in Int
    BY <1>1, InLoop, SourcesFit DEF IInv
  <1>4. /\ \A k : AsmOf(k)' = AsmOf(k) /\ OutOf(k)' = OutOf(k)
        /\ StopAtAssembly' = StopAtAssembly /\ Link' = Link
    BY <1>0 DEF AsmOf, OutOf, StopAtAssembly, Link, HasOut
  <1>5. /\ \A k \in SourceIds : /\ Created(k)' = Created(k)
                                /\ Closed(k)' = Closed(k) /\ Queued(k)' = Queued(k)
                                /\ Committed(k)' = Committed(k)
                                /\ Closed(k) => k < cur /\ k # cur
                                /\ Committed(k) => k < cur
                                /\ Created(k) => k < cur
    BY <1>0, <1>3, <1>4 DEF Created, Closed, Queued, Committed, Behind
  <1>6. \A k : Written(k)' = Written(k)
    BY <1>0, <1>4 DEF Written, Finished
  <1>7. Types'
    BY <1>0, <1>3, FileNames DEF IInv, Types, Looping
  <1>8. Untouched' /\ Path'
    BY <1>0 DEF IInv, Path, Untouched, Looping, Conflicting, Printing, StopAtAssembly, Link,
                HasOut
  <1>9. AsmActive'
    BY <1>0, <1>4, <1>5 DEF IInv, AsmActive
  <1>10. AsmClosed'
    BY <1>0, <1>2, <1>4, <1>5 DEF IInv, AsmClosed
  <1>11. AsmFresh'
    BY <1>0, <1>2, <1>3, <1>4, <1>5 DEF IInv, AsmFresh
  <1>12. QueueIs' /\ GccIs'
    BY <1>0, <1>4, <1>5 DEF IInv, QueueIs, GccIs
  <1>13. OutputsAre'
    <2>1. ~StopAtAssembly => \A k \in 1 .. sources : fs'[OutOf(k)] = fs[OutOf(k)]
      BY <1>2, <1>3, OutNotAsm
    <2>. QED BY <1>0, <1>1, <1>4, <1>6, <2>1 DEF IInv, OutputsAre
  <1>14. Partial'
    BY <1>0, <1>2, <1>4 DEF IInv, Partial
  <1>15. TempsActive'
    BY <1>0, <1>2, <1>4, FileNames DEF IInv, TempsActive
  <1>16. JustMade'
    BY <1>0, <1>2, <1>4 DEF JustMade
  <1>. QED BY <1>7, <1>8, <1>9, <1>10, <1>11, <1>12, <1>13, <1>14, <1>15, <1>16 DEF IInv

\* The file becomes one of the active temporaries.
LEMMA ActivateKeeps == ASSUME IInv, ActivateAsm PROVE IInv'
PROOF
  <1>0. /\ status = "running" /\ status' = "running" /\ pc = "activate" /\ pc' = "generate"
        /\ flags' = flags /\ sources' = sources /\ cur' = cur /\ fs' = fs
        /\ queue' = queue /\ child' = child /\ lost' = lost
        /\ asm' = [asm EXCEPT ![cur] = AsmOf(cur)]
    BY DEF ActivateAsm, At, Goto, AsmFile, AsmOf
  <1>1. pc \in Looping
    BY <1>0 DEF Looping
  <1>2. /\ cur \in SourceIds /\ cur \in 1 .. sources /\ \A k \in 1 .. sources : k \in SourceIds
        /\ \A k \in SourceIds : k \in Int
    BY <1>1, InLoop, SourcesFit DEF IInv
  <1>3. /\ \A k : AsmOf(k)' = AsmOf(k) /\ OutOf(k)' = OutOf(k)
        /\ StopAtAssembly' = StopAtAssembly /\ Link' = Link
    BY <1>0 DEF AsmOf, OutOf, StopAtAssembly, Link, HasOut
  <1>4. /\ \A k \in SourceIds : /\ Created(k)' <=> Created(k) \/ k = cur
                                /\ Closed(k)' = Closed(k) /\ Queued(k)' = Queued(k)
                                /\ Committed(k)' = Committed(k)
                                /\ Created(k) => k < cur /\ k # cur
                                /\ Closed(k) => k < cur /\ k # cur
                                /\ Committed(k) => k < cur /\ k # cur
        /\ ~Created(cur) /\ ~Committed(cur)
    BY <1>0, <1>2, <1>3 DEF Created, Closed, Queued, Committed, Behind
  <1>5. \A k : Written(k)' = Written(k)
    BY <1>0, <1>3 DEF Written, Finished
  <1>6. \A k \in SourceIds : asm'[k] = IF k = cur THEN AsmOf(cur) ELSE asm[k]
    BY <1>0 DEF IInv, Types
  <1>7. Types'
    BY <1>0, <1>2, FileNames DEF IInv, Types, Looping
  <1>8. Untouched' /\ Path'
    BY <1>0 DEF IInv, Path, Untouched, Looping, Conflicting, Printing, StopAtAssembly, Link,
                HasOut
  <1>9. AsmActive'
    BY <1>0, <1>3, <1>4, <1>6 DEF IInv, AsmActive
  <1>10. AsmClosed'
    <2>1. fs[AsmOf(cur)] = "partial"
      BY <1>0 DEF IInv, JustMade
    <2>. QED BY <1>0, <1>3, <1>4, <2>1 DEF IInv, AsmClosed
  <1>11. AsmFresh'
    BY <1>0, <1>2, <1>3, <1>4 DEF IInv, AsmFresh
  <1>12. QueueIs' /\ GccIs'
    BY <1>0, <1>3, <1>4 DEF IInv, QueueIs, GccIs
  <1>13. OutputsAre'
    BY <1>0, <1>1, <1>3, <1>5 DEF IInv, OutputsAre
  <1>14. Partial'
    BY <1>0, <1>3 DEF IInv, Partial
  <1>15. TempsActive'
    <2>. SUFFICES ASSUME NEW k \in SourceIds
                  PROVE  fs[<<"tmp", k>>] = "absent" \/ asm'[k] = <<"tmp", k>>
      BY <1>0 DEF TempsActive
    <2>1. asm[cur] = NoFile
      BY <1>2, <1>4 DEF IInv, AsmActive
    <2>2. <<"tmp", k>> # NoFile /\ (<<"tmp", k>> = AsmOf(cur) => k = cur)
      BY <1>2, FileNames
    <2>. QED BY <1>6, <2>1, <2>2 DEF IInv, TempsActive
  <1>16. JustMade'
    BY <1>0 DEF JustMade
  <1>. QED BY <1>7, <1>8, <1>9, <1>10, <1>11, <1>12, <1>13, <1>14, <1>15, <1>16 DEF IInv

\* The assembly file is complete now, or is remembered as lost.
LEMMA CloseKeeps == ASSUME IInv, CloseAsm PROVE IInv'
PROOF
  <1>0. /\ status = "running" /\ status' = "running" /\ pc = "close"
        /\ pc' = IF StopAtAssembly THEN "commit" ELSE IF Link THEN "queue" ELSE "assemble"
        /\ flags' = flags /\ sources' = sources /\ cur' = cur /\ asm' = asm
        /\ queue' = queue /\ child' = child
    BY DEF CloseAsm, At, Goto
  <1>1. pc \in Looping
    BY <1>0 DEF Looping
  <1>3. /\ cur \in SourceIds /\ cur \in 1 .. sources /\ \A k \in 1 .. sources : k \in SourceIds
        /\ \A k \in SourceIds : k \in Int
    BY <1>1, InLoop, SourcesFit DEF IInv
  <1>4. /\ \A k : AsmOf(k)' = AsmOf(k) /\ OutOf(k)' = OutOf(k)
        /\ StopAtAssembly' = StopAtAssembly /\ Link' = Link
    BY <1>0 DEF AsmOf, OutOf, StopAtAssembly, Link, HasOut
  <1>5. /\ \A k \in SourceIds : /\ Created(k)' = Created(k)
                                /\ Closed(k)' <=> Closed(k) \/ k = cur
                                /\ Queued(k)' = Queued(k)
                                /\ Committed(k)' = Committed(k)
                                /\ Closed(k) => k < cur /\ k # cur
                                /\ Created(k) => k <= cur
        /\ Created(cur) /\ ~Committed(cur) /\ ~Closed(cur)
    BY <1>0, <1>3, <1>4 DEF Created, Closed, Queued, Committed, Behind
  <1>6. \A k : Written(k)' = Written(k)
    BY <1>0, <1>4 DEF Written, Finished
  <1>7. asm[cur] = AsmOf(cur)
    BY <1>0, <1>1, <1>5, InLoop
  <1>8. \/ fs' = [fs EXCEPT ![AsmOf(cur)] = "complete"] /\ lost' = lost
        \/ lost' = lost \cup {AsmOf(cur)} /\ fs' = fs
    BY <1>7 DEF CloseAsm
  <1>9. /\ \A k \in SourceIds : k < cur => fs'[AsmOf(k)] = fs[AsmOf(k)]
        /\ \A k \in 1 .. sources : k # cur => fs'[AsmOf(k)] = fs[AsmOf(k)]
        /\ \A f \in Files : f # AsmOf(cur) => fs'[f] = fs[f]
        /\ fs'[AsmOf(cur)] = IF AsmOf(cur) \in lost' THEN "partial" ELSE "complete"
    <2>1. fs[AsmOf(cur)] = "partial" /\ AsmOf(cur) \notin lost
      BY <1>0, <1>3, <1>5 DEF IInv, AsmClosed, AsmFresh
    <2>2. CASE fs' = [fs EXCEPT ![AsmOf(cur)] = "complete"] /\ lost' = lost
      BY <1>1, <2>1, <2>2, OthersKeep
    <2>3. CASE lost' = lost \cup {AsmOf(cur)} /\ fs' = fs
      BY <2>1, <2>3
    <2>. QED BY <1>8, <2>2, <2>3
  <1>10. \A k \in 1 .. sources : k # cur => (AsmOf(k) \in lost' <=> AsmOf(k) \in lost)
    <2>1. \A k \in 1 .. sources : k # cur => AsmOf(k) # AsmOf(cur)
      BY <1>1, <1>3, AsmDistinct, InLoop, SourcesFit DEF IInv
    <2>. QED BY <1>8, <2>1
  <1>11. Types' /\ Untouched'
    BY <1>0, <1>8, FileNames, SourcesFit DEF IInv, Types, Untouched, Looping
  <1>12. Path'
    BY <1>0, <1>1, <1>4 DEF IInv, Path, Looping, Conflicting, Printing, StopAtAssembly, Link,
                          HasOut
  <1>13. AsmActive'
    BY <1>0, <1>4, <1>5 DEF IInv, AsmActive
  <1>14. AsmClosed'
    <2>. SUFFICES ASSUME NEW k \in SourceIds
                  PROVE  /\ Created(k) /\ ~Closed(k) /\ k # cur => fs'[AsmOf(k)] = "partial"
                         /\ Closed(k) \/ k = cur => fs'[AsmOf(k)] =
                              IF AsmOf(k) \in lost' THEN "partial" ELSE "complete"
      BY <1>0, <1>4, <1>5 DEF AsmClosed
    <2>1. CASE k = cur
      BY <1>9, <2>1
    <2>2. CASE k < cur
      <3>1. k \in 1 .. sources /\ k # cur
        BY <1>1, <2>2, InLoop, SourcesFit DEF IInv, SourceIds
      <3>. QED BY <1>0, <1>9, <1>10, <2>2, <3>1 DEF IInv, AsmClosed
    <2>3. CASE k > cur
      BY <1>3, <1>5, <2>3
    <2>. QED BY <1>3, <2>1, <2>2, <2>3
  <1>15. AsmFresh'
    BY <1>0, <1>3, <1>4, <1>5, <1>9, <1>10 DEF IInv, AsmFresh
  <1>16. QueueIs' /\ GccIs'
    BY <1>0, <1>4, <1>5 DEF IInv, QueueIs, GccIs
  <1>17. OutputsAre'
    <2>1. ~StopAtAssembly => \A k \in 1 .. sources : fs'[OutOf(k)] = fs[OutOf(k)]
      BY <1>3, <1>9, OutNotAsm
    <2>2. lost' = {} => lost = {}
      BY <1>8
    <2>. QED BY <1>0, <1>1, <1>4, <1>6, <2>1, <2>2 DEF IInv, OutputsAre
  <1>18. Partial'
    <2>1. lost' = {} => lost = {} /\ fs'[AsmOf(cur)] = "complete"
      BY <1>8, <1>9
    <2>. QED BY <1>9, <2>1 DEF IInv, Partial
  <1>19. TempsActive'
    <2>. SUFFICES ASSUME NEW k \in SourceIds
                  PROVE  fs'[<<"tmp", k>>] = "absent" \/ asm[k] = <<"tmp", k>>
      BY <1>0 DEF TempsActive
    <2>1. CASE <<"tmp", k>> = AsmOf(cur)
      BY <1>3, <1>7, <2>1, FileNames
    <2>2. CASE <<"tmp", k>> # AsmOf(cur)
      BY <1>9, <2>2, FileNames DEF IInv, TempsActive
    <2>. QED BY <2>1, <2>2
  <1>20. JustMade'
    BY <1>0 DEF JustMade
  <1>. QED BY <1>11, <1>12, <1>13, <1>14, <1>15, <1>16, <1>17, <1>18, <1>19, <1>20 DEF IInv

-----------------------------------------------------------------------------
(***************************************************************************)
(* The next source, the link queue and gcc.                                *)
(***************************************************************************)

\* Moving on from a source leaves it behind, and nothing else.
LEMMA NextSourceMoves ==
  ASSUME IInv, NextSource, status = "running", pc \in {"commit", "queue", "gcc"},
         flags' = flags, sources' = sources
  PROVE  /\ status' = "running" /\ cur' \in SourceIds /\ cur' <= sources
         /\ pc' \in {"front end", "link", "return"}
         /\ pc' = "link" => queue' # {}
         /\ pc' = "return" => queue' = {}
         /\ pc' \in {"link", "return"} => cur' = sources
         /\ \A k \in SourceIds :
              /\ Created(k)' <=> k <= cur
              /\ Closed(k)' <=> k <= cur
              /\ Queued(k)' <=> k <= cur
              /\ pc' # "link" => (Committed(k)' <=> StopAtAssembly /\ k <= cur)
              /\ ~Link /\ queue' = {} => (Written(k)' <=> k <= cur)
              /\ Link /\ pc' # "return" => ~Written(k)'
PROOF
  <1>0. /\ cur \in SourceIds /\ cur \in Nat /\ sources \in Nat
        /\ \A k \in SourceIds : k \in Int
    BY SourcesFit DEF IInv
  <1>1. cur <= sources
    BY InLoop DEF Looping
  <1>2. Link' = Link /\ StopAtAssembly' = StopAtAssembly
    BY DEF Link, StopAtAssembly
  <1>3. CASE cur < sources
    <2>1. cur' = cur + 1 /\ pc' = "front end" /\ status' = "running"
      BY <1>3 DEF NextSource, Goto
    <2>2. cur' \in SourceIds /\ cur' <= sources
      <3>1. cur + 1 \in 1 .. sources
        BY <1>0, <1>3
      <3>2. cur' \in 1 .. sources
        BY <2>1, <3>1
      <3>. QED BY <1>0, <3>2, SourcesFit DEF IInv
    <2>3. \A k \in SourceIds : k < cur' <=> k <= cur
      <3>1. \A k \in SourceIds : k < cur + 1 <=> k <= cur
        BY <1>0
      <3>. QED BY <2>1, <3>1
    <2>4. \A k \in SourceIds :
            /\ Created(k)' <=> k <= cur
            /\ Closed(k)' <=> k <= cur
            /\ Queued(k)' <=> k <= cur
            /\ Committed(k)' <=> StopAtAssembly /\ k <= cur
      BY <1>2, <2>1, <2>3 DEF Created, Closed, Queued, Committed, Behind
    <2>5. \A k \in SourceIds : Written(k)' <=> ~Link /\ k <= cur
      BY <1>2, <2>1, <2>3 DEF Written, Finished
    <2>. QED BY <2>1, <2>2, <2>4, <2>5
  <1>4. CASE ~(cur < sources)
    <2>1. /\ cur' = cur /\ cur = sources /\ status' = "running"
          /\ pc' = IF queue' # {} THEN "link" ELSE "return"
      BY <1>0, <1>1, <1>4 DEF NextSource, Goto
    <2>2. \A k \in SourceIds : k < cur \/ k = cur <=> k <= cur
      BY <1>0
    <2>3. \A k \in SourceIds :
            /\ Created(k)' <=> k <= cur
            /\ Closed(k)' <=> k <= cur
            /\ Queued(k)' <=> k <= cur
            /\ pc' # "link" => (Committed(k)' <=> StopAtAssembly /\ k <= cur)
      BY <1>2, <2>1, <2>2 DEF Created, Closed, Queued, Committed, Behind
    <2>4. \A k \in SourceIds : /\ ~Link /\ queue' = {} => (Written(k)' <=> k <= cur)
                               /\ Link /\ pc' # "return" => ~Written(k)'
      BY <1>2, <2>1, <2>2 DEF Written, Finished
    <2>. QED BY <1>0, <1>1, <2>1, <2>3, <2>4
  <1>. QED BY <1>3, <1>4

\* A committed file is let go; it stays.
LEMMA CommitKeeps == ASSUME IInv, CommitAsm PROVE IInv'
PROOF
  <1>0. /\ status = "running" /\ pc = "commit" /\ queue' = queue /\ NextSource
        /\ flags' = flags /\ sources' = sources /\ fs' = fs /\ child' = child
        /\ lost' = lost /\ asm' = [asm EXCEPT ![cur] = NoFile]
    BY DEF CommitAsm, At
  <1>1. StopAtAssembly /\ queue = {} /\ pc \in Looping
    BY <1>0 DEF IInv, Path, QueueIs, Looping
  <1>2. /\ cur \in SourceIds /\ \A k \in SourceIds : k \in Int
        /\ \A k \in 1 .. sources : k \in SourceIds
    BY SourcesFit DEF IInv
  <1>3. /\ status' = "running" /\ cur' \in SourceIds /\ cur' <= sources
        /\ pc' \in {"front end", "return"}
        /\ pc' = "return" => cur' = sources
        /\ \A k \in SourceIds : /\ Created(k)' <=> k <= cur
                                /\ Closed(k)' <=> k <= cur
                                /\ Committed(k)' <=> k <= cur
    BY <1>0, <1>1, NextSourceMoves
  <1>4. /\ \A k : AsmOf(k)' = AsmOf(k) /\ OutOf(k)' = OutOf(k)
        /\ StopAtAssembly' = StopAtAssembly /\ Link' = Link
    BY <1>0 DEF AsmOf, OutOf, StopAtAssembly, Link, HasOut
  <1>5. \A k \in SourceIds : /\ Created(k) <=> k <= cur
                             /\ Closed(k) <=> k <= cur
                             /\ Committed(k) <=> k < cur
    BY <1>0, <1>1, <1>2 DEF Created, Closed, Committed, Behind
  <1>6. Types'
    BY <1>0, <1>3 DEF IInv, Types, Looping
  <1>7. Untouched' /\ GccIs' /\ OutputsAre' /\ QueueIs'
    BY <1>0, <1>1, <1>3, <1>4 DEF IInv, Untouched, GccIs, OutputsAre, QueueIs
  <1>8. Path'
    BY <1>0, <1>3 DEF IInv, Path, Looping, Conflicting, Printing, StopAtAssembly, Link, HasOut
  <1>9. AsmActive'
    <2>. SUFFICES ASSUME NEW k \in SourceIds PROVE asm'[k] = NoFile
      BY <1>3 DEF AsmActive
    <2>1. asm'[k] = IF k = cur THEN NoFile ELSE asm[k]
      BY <1>0 DEF IInv, Types
    <2>2. k # cur => (Created(k) <=> Committed(k))
      BY <1>2, <1>5
    <2>. QED BY <2>1, <2>2 DEF IInv, AsmActive
  <1>10. AsmClosed'
    BY <1>0, <1>3, <1>4, <1>5 DEF IInv, AsmClosed
  <1>11. AsmFresh'
    BY <1>0, <1>2, <1>3, <1>4, <1>5 DEF IInv, AsmFresh
  <1>12. Partial'
    BY <1>0 DEF IInv, Partial
  <1>13. TempsActive'
    <2>. SUFFICES ASSUME NEW k \in SourceIds PROVE fs[<<"tmp", k>>] = "absent"
      BY <1>0 DEF TempsActive
    <2>. SUFFICES asm[k] # <<"tmp", k>>
      BY <1>0 DEF IInv, TempsActive
    <2>1. asm[k] = AsmOf(k) \/ asm[k] = NoFile
      BY DEF IInv, AsmActive
    <2>2. <<"tmp", k>> # NoFile /\ <<"tmp", k>> # AsmOf(k)
      BY <1>1, FileNames
    <2>. QED BY <2>1, <2>2
  <1>14. JustMade'
    BY <1>3 DEF JustMade
  <1>. QED BY <1>6, <1>7, <1>8, <1>9, <1>10, <1>11, <1>12, <1>13, <1>14 DEF IInv

\* The file of every source passed is in the queue.
LEMMA QueueKeeps == ASSUME IInv, QueueAsm PROVE IInv'
PROOF
  <1>0. /\ status = "running" /\ pc = "queue" /\ queue' = queue \cup {asm[cur]} /\ NextSource
        /\ flags' = flags /\ sources' = sources /\ fs' = fs /\ child' = child
        /\ lost' = lost /\ asm' = asm
    BY DEF QueueAsm, At
  <1>1. ~StopAtAssembly /\ Link /\ pc \in Looping /\ queue' # {}
    BY <1>0 DEF IInv, Path, Looping
  <1>2. /\ cur \in SourceIds /\ \A k \in SourceIds : k \in Int
        /\ \A k \in 1 .. sources : k \in SourceIds
    BY SourcesFit DEF IInv
  <1>3. /\ status' = "running" /\ cur' \in SourceIds /\ cur' <= sources
        /\ pc' \in {"front end", "link"}
        /\ pc' = "link" => cur' = sources
        /\ \A k \in SourceIds : /\ Created(k)' <=> k <= cur
                                /\ Closed(k)' <=> k <= cur
                                /\ Queued(k)' <=> k <= cur
                                /\ ~Written(k)'
    BY <1>0, <1>1, NextSourceMoves
  <1>4. /\ \A k : AsmOf(k)' = AsmOf(k) /\ OutOf(k)' = OutOf(k)
        /\ StopAtAssembly' = StopAtAssembly /\ Link' = Link
    BY <1>0 DEF AsmOf, OutOf, StopAtAssembly, Link, HasOut
  <1>5. \A k \in SourceIds : /\ Created(k) <=> k <= cur
                             /\ Closed(k) <=> k <= cur
                             /\ Queued(k) <=> k < cur
                             /\ ~Committed(k) /\ ~Committed(k)'
                             /\ ~Written(k)
    <2>1. \A k \in SourceIds : /\ Created(k) <=> k <= cur
                               /\ Closed(k) <=> k <= cur
                               /\ Queued(k) <=> k < cur
      BY <1>0, <1>2 DEF Created, Closed, Queued, Behind
    <2>2. \A k \in SourceIds : ~Committed(k) /\ ~Committed(k)'
      BY <1>1, <1>4 DEF Committed
    <2>3. \A k \in SourceIds : ~Written(k)
      BY <1>0, <1>1 DEF Written, Finished
    <2>. QED BY <2>1, <2>2, <2>3
  <1>6. Types'
    BY <1>0, <1>3 DEF IInv, Types, Looping
  <1>7. Untouched'
    BY <1>3 DEF Untouched
  <1>8. Path'
    BY <1>0, <1>1, <1>3, <1>4 DEF IInv, Path, Looping, Conflicting, Printing, StopAtAssembly,
                                  Link, HasOut
  <1>9. AsmActive'
    BY <1>0, <1>3, <1>4, <1>5 DEF IInv, AsmActive
  <1>10. AsmClosed'
    BY <1>0, <1>3, <1>4, <1>5 DEF IInv, AsmClosed
  <1>11. AsmFresh'
    BY <1>0, <1>2, <1>3, <1>4, <1>5 DEF IInv, AsmFresh
  <1>12. QueueIs'
    <2>1. asm[cur] = <<"tmp", cur>>
      <3>1. asm[cur] = AsmOf(cur)
        BY <1>0, <1>2, <1>5 DEF IInv, AsmActive
      <3>. QED BY <1>1, <1>2, <3>1, FileNames
    <2>2. queue' = {<<"tmp", k>> : k \in {j \in SourceIds : j < cur}} \cup {<<"tmp", cur>>}
      BY <1>0, <1>1, <1>5, <2>1 DEF IInv, QueueIs
    <2>3. {<<"tmp", k>> : k \in {j \in SourceIds : j < cur}} \cup {<<"tmp", cur>>}
            = {<<"tmp", k>> : k \in {j \in SourceIds : j <= cur}}
      BY <1>2
    <2>. QED BY <1>1, <1>3, <1>4, <2>2, <2>3 DEF QueueIs
  <1>13. GccIs'
    BY <1>0, <1>3 DEF IInv, GccIs
  <1>14. OutputsAre'
    BY <1>0, <1>1, <1>2, <1>3, <1>4, <1>5 DEF IInv, OutputsAre
  <1>15. Partial' /\ TempsActive' /\ JustMade'
    BY <1>0, <1>3 DEF IInv, Partial, TempsActive, JustMade
  <1>. QED BY <1>6, <1>7, <1>8, <1>9, <1>10, <1>11, <1>12, <1>13, <1>14, <1>15 DEF IInv

\* gcc is started on closed files.
LEMMA StartKeeps == ASSUME IInv, Assemble \/ AssembleMany PROVE IInv'
PROOF
  <1>0. /\ status = "running" /\ status' = "running" /\ pc' = "gcc"
        /\ flags' = flags /\ sources' = sources /\ cur' = cur /\ fs' = fs /\ asm' = asm
        /\ queue' = queue /\ lost' = lost
        /\ pc \in {"assemble", "link"}
    BY DEF Assemble, AssembleMany, StartGcc, At, Goto
  <1>1. /\ pc \in Looping /\ ~StopAtAssembly /\ (pc = "link" <=> Link)
        /\ pc = "link" => cur = sources
    BY <1>0 DEF IInv, Path, Looping
  <1>2. /\ cur \in SourceIds /\ \A k \in SourceIds : k \in Int
        /\ \A k \in 1 .. sources : k \in SourceIds
    BY SourcesFit DEF IInv
  <1>3. /\ \A k : AsmOf(k)' = AsmOf(k) /\ OutOf(k)' = OutOf(k)
        /\ StopAtAssembly' = StopAtAssembly /\ Link' = Link
    BY <1>0 DEF AsmOf, OutOf, StopAtAssembly, Link, HasOut
  <1>4. \A k : /\ Created(k)' = Created(k) /\ Closed(k)' = Closed(k)
               /\ Committed(k)' = Committed(k)
               /\ Link => Queued(k)' = Queued(k)
    BY <1>0, <1>1, <1>3 DEF Created, Closed, Queued, Committed, Behind
  <1>5. asm[cur] = AsmOf(cur)
    <2>1. Created(cur) /\ ~Committed(cur)
      BY <1>0, <1>1 DEF Created, Committed, Behind
    <2>. QED BY <1>0, <1>1, <2>1, InLoop
  <1>6. child' = [state |-> "started", inputs |-> IF Link THEN queue ELSE {AsmOf(cur)},
                  out |-> OutOf(cur)]
    <2>1. CASE Assemble
      <3>1. pc = "assemble" /\ ~Link
        BY <1>1, <2>1 DEF Assemble, At
      <3>2. child' = [state |-> "started", inputs |-> {asm[cur]},
                      out |-> IF HasOut THEN OutPath ELSE <<".o", cur>>]
        BY <2>1 DEF Assemble, StartGcc
      <3>. QED BY <1>5, <3>1, <3>2 DEF OutOf
    <2>2. CASE AssembleMany
      <3>1. pc = "link" /\ Link
        BY <1>1, <2>2 DEF AssembleMany, At
      <3>2. child' = [state |-> "started", inputs |-> queue,
                      out |-> IF HasOut THEN OutPath ELSE DefaultOut]
        BY <2>2 DEF AssembleMany, StartGcc
      <3>. QED BY <3>1, <3>2 DEF OutOf
    <2>. QED BY <2>1, <2>2
  <1>7. \A k : Written(k)' <=> Written(k)
    <2>1. ~Finished /\ ~Finished'
      BY <1>0, <1>6 DEF Finished
    <2>2. CASE Link
      BY <1>3, <2>1, <2>2 DEF Written
    <2>3. CASE ~Link
      BY <1>0, <1>3, <2>1, <2>3 DEF Written
    <2>. QED BY <2>2, <2>3
  <1>8. Types'
    <2>1. queue \subseteq Files
      BY FileNames DEF IInv, QueueIs
    <2>2. child' \in [state : {"none", "started", "read", "failed", "ok"},
                      inputs : SUBSET Files, out : OutFiles \cup {NoFile}]
      BY <1>2, <1>6, <2>1, FileNames
    <2>. QED BY <1>0, <2>2 DEF IInv, Types, Looping
  <1>9. Untouched'
    BY <1>0 DEF Untouched
  <1>10. Path'
    BY <1>0, <1>1, <1>3 DEF IInv, Path, Looping, Conflicting, Printing, StopAtAssembly, Link,
                           HasOut
  <1>11. AsmActive' /\ AsmClosed' /\ AsmFresh'
    BY <1>0, <1>3, <1>4 DEF IInv, AsmActive, AsmClosed, AsmFresh
  <1>12. QueueIs'
    BY <1>0, <1>3, <1>4 DEF IInv, QueueIs
  <1>13. GccIs'
    BY <1>0, <1>3, <1>6 DEF GccIs
  <1>14. OutputsAre'
    BY <1>0, <1>1, <1>3, <1>7 DEF IInv, OutputsAre
  <1>15. Partial' /\ TempsActive' /\ JustMade'
    BY <1>0 DEF IInv, Partial, TempsActive, JustMade
  <1>. QED BY <1>8, <1>9, <1>10, <1>11, <1>12, <1>13, <1>14, <1>15 DEF IInv

\* gcc looks at its inputs.
LEMMA ReadsKeep == ASSUME IInv, GccReads PROVE IInv'
PROOF
  <1>0. /\ child.state = "started" /\ pc = "gcc"
        /\ child'.state \in {"read", "failed"}
        /\ child'.inputs = child.inputs /\ child'.out = child.out
        /\ child' \in [state : {"none", "started", "read", "failed", "ok"},
                       inputs : SUBSET Files, out : OutFiles \cup {NoFile}]
        /\ flags' = flags /\ sources' = sources /\ pc' = pc /\ cur' = cur /\ fs' = fs
        /\ asm' = asm /\ queue' = queue /\ status' = status /\ lost' = lost
    BY DEF GccReads, IInv, Types, GccIs
  <1>1. /\ \A k : AsmOf(k)' = AsmOf(k) /\ OutOf(k)' = OutOf(k)
        /\ StopAtAssembly' = StopAtAssembly /\ Link' = Link
    BY <1>0 DEF AsmOf, OutOf, StopAtAssembly, Link, HasOut
  <1>2. \A k : /\ Created(k)' = Created(k) /\ Closed(k)' = Closed(k)
               /\ Queued(k)' = Queued(k) /\ Committed(k)' = Committed(k)
    BY <1>0, <1>1 DEF Created, Closed, Queued, Committed, Behind
  <1>3. \A k : Written(k)' <=> Written(k)
    <2>1. ~Finished /\ ~Finished'
      BY <1>0 DEF Finished
    <2>2. CASE Link
      BY <1>1, <2>1, <2>2 DEF Written
    <2>3. CASE ~Link
      BY <1>0, <1>1, <2>1, <2>3 DEF Written
    <2>. QED BY <2>2, <2>3
  <1>4. Types' /\ Untouched'
    BY <1>0 DEF IInv, Types, Untouched
  <1>5. Path'
    BY <1>0 DEF IInv, Path, Conflicting, Printing, StopAtAssembly, Link, HasOut
  <1>6. AsmActive' /\ AsmClosed' /\ AsmFresh'
    BY <1>0, <1>1, <1>2 DEF IInv, AsmActive, AsmClosed, AsmFresh
  <1>7. QueueIs' /\ GccIs'
    BY <1>0, <1>1, <1>2 DEF IInv, QueueIs, GccIs
  <1>8. OutputsAre'
    BY <1>0, <1>1, <1>3 DEF IInv, OutputsAre
  <1>9. Partial' /\ TempsActive' /\ JustMade'
    BY <1>0, <1>1 DEF IInv, Partial, TempsActive, JustMade
  <1>. QED BY <1>4, <1>5, <1>6, <1>7, <1>8, <1>9 DEF IInv

\* What gcc may do to the files when it is about to write: its output, which
\* is no file of the driver.
LEMMA WriteEffect ==
  ASSUME IInv, child.state = "read"
  PROVE  /\ pc = "gcc" /\ pc \in Looping /\ ~StopAtAssembly /\ child.out = OutOf(cur)
         /\ OutOf(cur) \in Files /\ cur \in 1 .. sources
         /\ ~Written(cur) /\ fs[OutOf(cur)] # "complete"
         /\ \A k \in SourceIds : OutOf(cur) # AsmOf(k) /\ OutOf(cur) # <<"tmp", k>>
PROOF
  <1>1. pc = "gcc" /\ pc \in Looping /\ ~StopAtAssembly /\ child.out = OutOf(cur)
    BY DEF IInv, GccIs, Path, Looping
  <1>2. cur \in 1 .. sources /\ cur \in SourceIds
    BY <1>1, InLoop, SourcesFit DEF IInv
  <1>3. ~Written(cur)
    BY <1>1, <1>2, SourcesFit DEF IInv, Written, Finished
  <1>4. fs[OutOf(cur)] # "complete"
    BY <1>1, <1>2, <1>3 DEF IInv, OutputsAre
  <1>. QED BY <1>1, <1>2, <1>3, <1>4, FileNames, OutNotAsm

\* The output is written, or gcc fails before.
LEMMA WritesKeep == ASSUME IInv, GccWrites PROVE IInv'
PROOF
  <1>0. /\ child.state = "read" /\ child'.state \in {"ok", "failed"}
        /\ child'.inputs = child.inputs /\ child'.out = child.out
        /\ child' \in [state : {"none", "started", "read", "failed", "ok"},
                       inputs : SUBSET Files, out : OutFiles \cup {NoFile}]
        /\ flags' = flags /\ sources' = sources /\ pc' = pc /\ cur' = cur
        /\ asm' = asm /\ queue' = queue /\ status' = status /\ lost' = lost
    BY DEF GccWrites, IInv, Types
  <1>1. /\ pc = "gcc" /\ pc \in Looping /\ ~StopAtAssembly /\ child.out = OutOf(cur)
        /\ OutOf(cur) \in Files /\ cur \in 1 .. sources
        /\ \A k \in SourceIds : OutOf(cur) # AsmOf(k) /\ OutOf(cur) # <<"tmp", k>>
    BY <1>0, WriteEffect
  <1>2. /\ \A k : AsmOf(k)' = AsmOf(k) /\ OutOf(k)' = OutOf(k)
        /\ StopAtAssembly' = StopAtAssembly /\ Link' = Link
    BY <1>0 DEF AsmOf, OutOf, StopAtAssembly, Link, HasOut
  <1>3. \A k : /\ Created(k)' = Created(k) /\ Closed(k)' = Closed(k)
               /\ Queued(k)' = Queued(k) /\ Committed(k)' = Committed(k)
    BY <1>0, <1>2 DEF Created, Closed, Queued, Committed, Behind
  <1>4. /\ fs' \in [Files -> {"absent", "user", "partial", "complete"}]
        /\ \A f \in Files : f # OutOf(cur) => fs'[f] = fs[f]
        /\ child'.state = "ok" /\ lost = {} => fs'[OutOf(cur)] = "complete"
        /\ child'.state = "failed" => fs' = fs
        /\ lost = {} => fs' = fs \/ fs'[OutOf(cur)] = "complete"
    <2>0. fs \in [Files -> {"absent", "user", "partial", "complete"}]
      BY DEF IInv, Types
    <2>1. CASE /\ child' = [child EXCEPT !.state = "ok"]
               /\ fs' = [fs EXCEPT ![child.out] =
                            IF child.inputs \cap lost = {} THEN "complete" ELSE "partial"]
      <3>1. child'.state = "ok"
        BY <2>1 DEF IInv, Types
      <3>2. lost = {} => child.inputs \cap lost = {}
        OBVIOUS
      <3>. QED BY <1>1, <2>0, <2>1, <3>1, <3>2
    <2>2. CASE child' = [child EXCEPT !.state = "failed"] /\ fs' = fs
      <3>1. child'.state = "failed"
        BY <2>2 DEF IInv, Types
      <3>. QED BY <2>0, <2>2, <3>1
    <2>. QED BY <2>1, <2>2 DEF GccWrites
  <1>5. \A k \in SourceIds : fs'[AsmOf(k)] = fs[AsmOf(k)] /\ fs'[<<"tmp", k>>] = fs[<<"tmp", k>>]
    BY <1>1, <1>4, FileNames
  <1>6. Types'
    BY <1>0, <1>4 DEF IInv, Types
  <1>7. Untouched'
    BY <1>0, <1>1 DEF Untouched
  <1>8. Path'
    BY <1>0 DEF IInv, Path, Conflicting, Printing, StopAtAssembly, Link, HasOut
  <1>9. AsmActive' /\ AsmClosed'
    BY <1>0, <1>2, <1>3, <1>5 DEF IInv, AsmActive, AsmClosed
  <1>10. AsmFresh'
    BY <1>0, <1>2, <1>3, <1>5, SourcesFit DEF IInv, AsmFresh
  <1>11. QueueIs' /\ GccIs'
    BY <1>0, <1>1, <1>2, <1>3 DEF IInv, QueueIs, GccIs
  <1>12. OutputsAre'
    <2>. SUFFICES ASSUME NEW k \in 1 .. sources
                  PROVE  IF Written(k)' THEN lost = {} => fs'[OutOf(k)] = "complete"
                         ELSE fs'[OutOf(k)] # "complete"
      BY <1>0, <1>2 DEF OutputsAre
    <2>0. /\ k \in SourceIds /\ cur \in SourceIds /\ OutOf(k) \in Files
          /\ k \in Int /\ cur \in Int
      BY <1>1, SourcesFit, FileNames DEF IInv
    <2>1. ~Finished /\ (Finished' <=> child'.state = "ok")
      BY <1>0, <1>1 DEF Finished
    <2>2. IF Written(k) THEN lost = {} => fs[OutOf(k)] = "complete"
          ELSE fs[OutOf(k)] # "complete"
      BY <1>1 DEF IInv, OutputsAre
    <2>3. CASE child'.state = "failed"
      <3>1. Written(k)' <=> Written(k)
        BY <1>0, <1>2, <2>1, <2>3 DEF Written
      <3>. QED BY <1>4, <2>2, <2>3, <3>1
    <2>4. CASE child'.state = "ok" /\ Link
      <3>1. Written(k)'
        BY <1>2, <2>1, <2>4 DEF Written
      <3>2. OutOf(k) = OutOf(cur)
        BY <2>4 DEF OutOf
      <3>. QED BY <1>4, <2>4, <3>1, <3>2
    <2>5. CASE child'.state = "ok" /\ ~Link
      <3>1. Written(k)' <=> k <= cur
        BY <1>0, <1>2, <2>0, <2>1, <2>5 DEF Written
      <3>2. Written(k) <=> k < cur
        BY <2>1, <2>5 DEF Written
      <3>3. k # cur => OutOf(k) # OutOf(cur)
        <4>. SUFFICES ASSUME k # cur PROVE ~HasOut
          BY <2>0, <2>5, FileNames
        <4>1. sources > 1
          BY <1>1, SourcesFit DEF IInv
        <4>2. ~Conflicting
          BY <1>1 DEF IInv, Path
        <4>. QED BY <2>5, <4>1, <4>2 DEF Conflicting
      <3>4. k # cur => fs'[OutOf(k)] = fs[OutOf(k)]
        BY <1>4, <2>0, <3>3
      <3>5. CASE k = cur
        BY <1>4, <2>0, <2>5, <3>1, <3>5
      <3>6. CASE k # cur
        BY <2>0, <2>2, <3>1, <3>2, <3>4, <3>6
      <3>. QED BY <3>5, <3>6
    <2>. QED BY <1>0, <2>3, <2>4, <2>5
  <1>13. Partial'
    BY <1>0, <1>1, <1>4 DEF IInv, Partial
  <1>14. TempsActive'
    BY <1>0, <1>1, <1>5 DEF IInv, TempsActive
  <1>15. JustMade'
    BY <1>0, <1>1 DEF JustMade
  <1>. QED BY <1>6, <1>7, <1>8, <1>9, <1>10, <1>11, <1>12, <1>13, <1>14, <1>15 DEF IInv

\* system() returns: a failure ends the driver, a success moves it on.
LEMMA ReturnedKeeps == ASSUME IInv, GccReturned PROVE IInv'
PROOF
  <1>1. CASE child.state = "failed" /\ Die
    <2>1. Stop
      BY <1>1, Stops DEF IInv, GccReturned, At
    <2>. QED BY <2>1, StopKeeps
  <1>2. CASE child.state = "ok" /\ ~(child.state = "failed" /\ Die)
    <2>0. /\ status = "running" /\ pc = "gcc"
          /\ flags' = flags /\ sources' = sources /\ fs' = fs /\ asm' = asm
          /\ queue' = queue /\ child' = child /\ lost' = lost
          /\ IF Link THEN Goto("return") /\ cur' = cur ELSE NextSource
      BY <1>2 DEF GccReturned, At
    <2>1. /\ pc \in Looping /\ ~StopAtAssembly /\ cur <= sources
          /\ cur \in SourceIds /\ \A k \in SourceIds : k \in Int
          /\ \A k \in 1 .. sources : k \in SourceIds
          /\ Link => cur = sources
      BY <2>0, InLoop, SourcesFit DEF IInv, Path, Looping
    <2>2. /\ \A k : AsmOf(k)' = AsmOf(k) /\ OutOf(k)' = OutOf(k)
          /\ StopAtAssembly' = StopAtAssembly /\ Link' = Link
      BY <2>0 DEF AsmOf, OutOf, StopAtAssembly, Link, HasOut
    <2>3. /\ \A k : ~Committed(k)
          /\ \A k \in SourceIds : /\ Created(k) <=> k <= cur
                                  /\ Closed(k) <=> k <= cur
                                  /\ Queued(k) <=> k <= cur
                                  /\ Written(k) <=> (Link \/ k <= cur)
      <3>1. /\ \A k : ~Committed(k)
            /\ \A k \in SourceIds : /\ Created(k) <=> k <= cur
                                    /\ Closed(k) <=> k <= cur
                                    /\ Queued(k) <=> k <= cur
        BY <2>0, <2>1 DEF Committed, Created, Closed, Queued, Behind
      <3>2. \A k \in SourceIds : Written(k) <=> (Link \/ k <= cur)
        BY <1>2, <2>0, <2>1 DEF Written, Finished
      <3>. QED BY <3>1, <3>2
    <2>4. /\ status' = "running" /\ cur' \in SourceIds /\ cur' <= sources
          /\ pc' \in {"front end", "return"}
          /\ pc' = "return" => cur' = sources
          /\ \A k : ~Committed(k)'
          /\ \A k \in SourceIds : /\ Created(k)' <=> k <= cur
                                  /\ Closed(k)' <=> k <= cur
                                  /\ Queued(k)' <=> k <= cur
                                  /\ Written(k)' <=> (Link \/ k <= cur)
      <3>0. \A k : ~Committed(k)'
        BY <2>1, <2>2 DEF Committed
      <3>1. CASE Link
        <4>1. status' = "running" /\ cur' = cur /\ pc' = "return"
          BY <2>0, <3>1 DEF Goto
        <4>2. \A k \in SourceIds : /\ Created(k)' <=> k <= cur
                                   /\ Closed(k)' <=> k <= cur
                                   /\ Queued(k)' <=> k <= cur
          BY <2>1, <4>1 DEF Created, Closed, Queued, Behind
        <4>3. \A k : Written(k)'
          BY <2>2, <3>1, <4>1 DEF Written, Finished
        <4>. QED BY <2>1, <3>0, <3>1, <4>1, <4>2, <4>3
      <3>2. CASE ~Link
        <4>1. queue' = {}
          BY <2>0, <3>2 DEF IInv, QueueIs
        <4>. QED BY <2>0, <3>0, <3>2, <4>1, NextSourceMoves
      <3>. QED BY <3>1, <3>2
    <2>5. Types' /\ Untouched'
      BY <2>0, <2>4 DEF IInv, Types, Untouched, Looping
    <2>6. Path'
      BY <2>0, <2>2, <2>4 DEF IInv, Path, Looping, Conflicting, Printing, StopAtAssembly, Link,
                              HasOut
    <2>7. AsmActive'
      BY <2>0, <2>2, <2>3, <2>4 DEF IInv, AsmActive
    <2>8. AsmClosed'
      BY <2>0, <2>2, <2>3, <2>4 DEF IInv, AsmClosed
    <2>9. AsmFresh'
      BY <2>0, <2>1, <2>2, <2>3, <2>4 DEF IInv, AsmFresh
    <2>10. QueueIs'
      BY <2>0, <2>2, <2>3, <2>4 DEF IInv, QueueIs
    <2>11. GccIs'
      BY <1>2, <2>0, <2>4 DEF GccIs
    <2>12. OutputsAre'
      BY <2>0, <2>1, <2>2, <2>3, <2>4 DEF IInv, OutputsAre
    <2>13. Partial' /\ TempsActive' /\ JustMade'
      BY <2>0, <2>4 DEF IInv, Partial, TempsActive, JustMade
    <2>. QED BY <2>5, <2>6, <2>7, <2>8, <2>9, <2>10, <2>11, <2>12, <2>13 DEF IInv
  <1>. QED BY <1>1, <1>2 DEF GccReturned

-----------------------------------------------------------------------------
(***************************************************************************)
(* The invariant holds.                                                    *)
(***************************************************************************)

\* Steps that change nothing the invariant mentions.
LEMMA StutterKeeps == ASSUME IInv, UNCHANGED vars PROVE IInv'
PROOF
  <1>0. /\ flags' = flags /\ sources' = sources /\ pc' = pc /\ cur' = cur /\ fs' = fs
        /\ asm' = asm /\ queue' = queue /\ child' = child /\ status' = status
        /\ lost' = lost
    BY DEF vars
  <1>1. /\ \A k : AsmOf(k)' = AsmOf(k) /\ OutOf(k)' = OutOf(k)
        /\ \A k : /\ Created(k)' = Created(k) /\ Closed(k)' = Closed(k)
                  /\ Queued(k)' = Queued(k) /\ Committed(k)' = Committed(k)
                  /\ Written(k)' = Written(k)
        /\ StopAtAssembly' = StopAtAssembly /\ Link' = Link
    BY <1>0, SameProgress
  <1>2. Types' /\ Untouched'
    BY <1>0 DEF IInv, Types, Untouched
  <1>3. Path'
    BY <1>0 DEF IInv, Path, Conflicting, Printing, StopAtAssembly, Link, HasOut
  <1>4. AsmActive' /\ AsmClosed' /\ AsmFresh'
    BY <1>0, <1>1 DEF IInv, AsmActive, AsmClosed, AsmFresh
  <1>5. QueueIs' /\ GccIs'
    BY <1>0, <1>1 DEF IInv, QueueIs, GccIs
  <1>6. OutputsAre' /\ Partial' /\ TempsActive' /\ JustMade'
    BY <1>0, <1>1 DEF IInv, OutputsAre, Partial, TempsActive, JustMade
  <1>. QED BY <1>2, <1>3, <1>4, <1>5, <1>6 DEF IInv

\* What a step can be.
LEMMA StepKinds ==
  ASSUME IInv, Next
  PROVE  \/ Stop
         \/ SourceArg \/ (\E f \in Flag : OptionArg(f)) \/ CheckOptions
         \/ FrontEnd \/ Generate \/ CreateAsm \/ ActivateAsm \/ CloseAsm \/ CommitAsm \/ QueueAsm
         \/ Assemble \/ AssembleMany \/ GccReads \/ GccWrites \/ GccReturned
PROOF
  <1>1. CASE HelpArg \/ BadArg \/ PrintAndReturn \/ PrintFails \/ StepFails \/ Return \/ Killed
    BY <1>1, Stops DEF IInv
  <1>2. CASE ~(HelpArg \/ BadArg \/ PrintAndReturn \/ PrintFails \/ StepFails \/ Return
               \/ Killed)
    BY <1>2 DEF Next, Main, Gcc
  <1>. QED BY <1>1, <1>2

\* The invariant is inductive.
LEMMA Inductive == IInv /\ [Next]_vars => IInv'
PROOF
  <1>1. ASSUME IInv, UNCHANGED vars PROVE IInv'
    BY <1>1, StutterKeeps
  <1>2. ASSUME IInv, Next PROVE IInv'
    BY <1>2, StepKinds, StopKeeps, ArgKeeps, CheckKeeps, PassKeeps, CreateKeeps, ActivateKeeps,
       CloseKeeps, CommitKeeps, QueueKeeps, StartKeeps, ReadsKeep, WritesKeep, ReturnedKeeps
  <1>. QED BY <1>1, <1>2

\* It holds in every state of every run.
LEMMA Invariant == Spec => []IInv
PROOF
  BY InitIInv, Inductive, PTL DEF Spec

-----------------------------------------------------------------------------
(***************************************************************************)
(* What the runs check, for any number of sources and options.             *)
(***************************************************************************)

\* As many temporaries as sources.
LEMMA TempsCounted ==
  ASSUME NEW n \in Nat
  PROVE  Cardinality({<<"tmp", k>> : k \in 1 .. n}) = n
PROOF
  <1>. DEFINE S == 1 .. n
              T == {<<"tmp", k>> : k \in S}
              f == [k \in S |-> <<"tmp", k>>]
  <1>1. f \in Bijection(S, T)
    <2>1. f \in [S -> T]
      OBVIOUS
    <2>2. \A a, b \in S : f[a] = f[b] => a = b
      OBVIOUS
    <2>3. \A t \in T : \E a \in S : f[a] = t
      OBVIOUS
    <2>. HIDE DEF S, T, f
    <2>. QED BY <2>1, <2>2, <2>3 DEF Bijection, Injection, Surjection, IsInjective
  <1>2. IsFiniteSet(S) /\ Cardinality(S) = n
    BY FS_Interval
  <1>3. ExistsBijection(S, T)
    BY <1>1 DEF ExistsBijection
  <1>. HIDE DEF S, T, f
  <1>4. Cardinality(T) = n
    BY <1>2, <1>3, FS_Bijection
  <1>. QED BY <1>4 DEF T, S

\* gcc is started on the assembly of every source, each one closed, and none of
\* them goes away while the driver waits (assemble, assemble_many).
THEOREM InputsReady == Spec => []GccInputsReady
PROOF
  <1>1. IInv => GccInputsReady
    <2>. SUFFICES ASSUME IInv, child.state \in {"started", "read"}, status = "running"
                  PROVE  /\ \A f \in child.inputs :
                              fs[f] = IF f \in lost THEN "partial" ELSE "complete"
                         /\ Cardinality(child.inputs) = IF Link THEN sources ELSE 1
      BY DEF GccInputsReady
    <2>1. /\ pc = "gcc" /\ ~StopAtAssembly
          /\ child.inputs = IF Link THEN queue ELSE {AsmOf(cur)}
      BY DEF IInv, GccIs, Path
    <2>2. cur \in SourceIds /\ sources \in Nat /\ \A k \in SourceIds : k \in Int
      BY SourcesFit DEF IInv
    <2>3. \A k \in SourceIds : (Closed(k) <=> k <= cur) /\ (Queued(k) <=> k <= cur)
      BY <2>1, <2>2 DEF Closed, Queued, Behind
    <2>4. \A k \in SourceIds : k <= cur =>
            fs[AsmOf(k)] = IF AsmOf(k) \in lost THEN "partial" ELSE "complete"
      BY <2>3 DEF IInv, AsmClosed
    <2>5. CASE Link
      <3>1. cur = sources
        BY <2>1, <2>5 DEF IInv, Path
      <3>2. child.inputs = {<<"tmp", k>> : k \in {j \in SourceIds : Queued(j)}}
        BY <2>1, <2>5 DEF IInv, QueueIs
      <3>3. {j \in SourceIds : Queued(j)} = 1 .. sources
        <4>1. \A j \in SourceIds : Queued(j) => j \in 1 .. sources
          BY <2>2, <2>3, <3>1 DEF SourceIds
        <4>2. \A j \in 1 .. sources : j \in SourceIds /\ Queued(j)
          BY <2>2, <2>3, <3>1, SourcesFit DEF IInv
        <4>. QED BY <4>1, <4>2
      <3>4. child.inputs = {<<"tmp", k>> : k \in 1 .. sources}
        BY <3>2, <3>3
      <3>5. Cardinality(child.inputs) = sources
        BY <2>2, <3>4, TempsCounted
      <3>6. \A k \in 1 .. sources : k \in SourceIds /\ k <= cur /\ AsmOf(k) = <<"tmp", k>>
        <4>1. \A k \in 1 .. sources : k \in SourceIds /\ k <= sources
          BY <2>2, SourcesFit DEF IInv
        <4>2. \A k \in SourceIds : AsmOf(k) = <<"tmp", k>>
          BY <2>1, FileNames
        <4>. QED BY <3>1, <4>1, <4>2
      <3>. QED BY <2>4, <2>5, <3>4, <3>5, <3>6
    <2>6. CASE ~Link
      <3>1. child.inputs = {AsmOf(cur)}
        BY <2>1, <2>6
      <3>2. cur <= cur
        BY <2>2
      <3>3. Cardinality({AsmOf(cur)}) = 1
        BY FS_Singleton
      <3>. QED BY <2>2, <2>4, <2>6, <3>1, <3>2, <3>3
    <2>. QED BY <2>5, <2>6
  <1>. QED BY <1>1, Invariant, PTL

\* Whatever ends the run, the temporary assembly files that main() made with
\* mktempfile_s (cc.c:221) are gone, but for one that was created and not yet
\* activated when the end came (tempfile.c:203-214).
THEOREM TempsGone == Spec => []NoTempsLeft
PROOF
  <1>1. IInv => NoTempsLeft
    BY DEF IInv, TempsActive, NoTempsLeft, Unregistered, AsmFile, AsmOf
  <1>. QED BY <1>1, Invariant, PTL

\* Whatever ends the run, no file is left half-written unless a close failed
\* (cc.c:231), or the end came between the creation of the file and its activation
\* (tempfile.c:181-214).
THEOREM NothingPartial == Spec => []NoPartialOutput
PROOF
  <1>1. IInv => NoPartialOutput
    BY DEF IInv, Partial, NoPartialOutput, Unregistered, AsmFile, AsmOf
  <1>. QED BY <1>1, Invariant, PTL

\* Exit code 0 after closes that succeeded: all that was asked for is there.
THEOREM DoneOrLost == Spec => []DoneUnlessLost
PROOF
  <1>1. IInv => DoneUnlessLost
    <2>. SUFFICES ASSUME IInv, lost = {}, status = "exited", pc = "return",
                         NEW f \in Wanted
                  PROVE  fs[f] = "complete"
      BY DEF DoneUnlessLost, ExitZeroMeansDone
    <2>1. /\ pc \in Looping /\ cur = sources /\ cur \in SourceIds /\ cur \in 1 .. sources
          /\ sources \in Nat /\ \A k \in 1 .. sources : k \in SourceIds
          /\ \A k \in SourceIds : k \in Int
      BY InLoop, SourcesFit DEF IInv, Path, Looping
    <2>2. CASE StopAtAssembly
      <3>1. PICK k \in 1 .. sources : f = AsmOf(k)
        BY <2>2 DEF Wanted, AsmOf
      <3>2. k \in SourceIds /\ Closed(k) /\ Committed(k)
        BY <2>1, <2>2 DEF Closed, Committed, Behind
      <3>. QED BY <3>1, <3>2 DEF IInv, AsmClosed
    <2>3. CASE ~StopAtAssembly
      <3>1. PICK k \in 1 .. sources : f = OutOf(k)
        <4>1. CASE Link
          BY <2>1, <2>3, <4>1 DEF Wanted, OutOf
        <4>2. CASE ~Link
          BY <2>3, <4>2 DEF Wanted, OutOf
        <4>. QED BY <4>1, <4>2
      <3>2. Written(k)
        BY <2>1 DEF Written, Finished
      <3>. QED BY <2>1, <2>3, <3>1, <3>2 DEF IInv, OutputsAre
    <2>. QED BY <2>2, <2>3
  <1>. QED BY <1>1, Invariant, PTL

\* A finished output survives what happens to the sources behind it.
THEOREM Outputs == Spec => OutputsStay
PROOF
  <1>. DEFINE Stays == \A f \in Files \ Active : fs[f] = "complete" => fs'[f] = "complete"
  <1>1. ASSUME IInv, Next PROVE Stays
    <2>1. CASE fs' = fs
      BY <2>1
    <2>2. CASE Stop
      BY <2>2 DEF Stop, Cleanup
    <2>3. CASE CreateAsm
      <3>1. /\ pc = "create" /\ pc \in Looping
            /\ fs' = [fs EXCEPT ![AsmOf(cur)] = "partial"] /\ status = "running"
        BY <2>3 DEF CreateAsm, At, AsmFile, AsmOf, Looping
      <3>2. ~Created(cur) /\ cur \in 1 .. sources
        BY <1>1, <3>1, InLoop, SourcesFit DEF IInv, Created, Behind
      <3>3. fs[AsmOf(cur)] # "complete"
        BY <1>1, <3>1, <3>2 DEF IInv, AsmFresh
      <3>. QED BY <1>1, <3>1, <3>3, OthersKeep
    <2>4. CASE CloseAsm
      BY <1>1, <2>4 DEF CloseAsm, IInv, Types
    <2>5. CASE GccWrites
      <3>1. child.out = OutOf(cur) /\ fs[OutOf(cur)] # "complete"
        BY <1>1, <2>5, WriteEffect DEF GccWrites
      <3>. QED BY <1>1, <2>5, <3>1 DEF GccWrites, IInv, Types
    <2>6. CASE \/ SourceArg \/ (\E f \in Flag : OptionArg(f)) \/ FrontEnd \/ Generate
               \/ ActivateAsm \/ CommitAsm \/ QueueAsm \/ Assemble \/ AssembleMany \/ GccReads
      <3>1. fs' = fs
        BY <2>6 DEF SourceArg, OptionArg, FrontEnd, Generate, Proceed, ActivateAsm, CommitAsm,
                    QueueAsm, Assemble, AssembleMany, StartGcc, GccReads
      <3>. QED BY <2>1, <3>1
    <2>7. CASE CheckOptions
      <3>1. fs' = fs \/ Stop
        BY <1>1, <2>7, Stops DEF IInv, CheckOptions, At
      <3>. QED BY <2>1, <2>2, <3>1
    <2>8. CASE GccReturned
      <3>1. fs' = fs \/ Stop
        BY <1>1, <2>8, Stops DEF IInv, GccReturned, At
      <3>. QED BY <2>1, <2>2, <3>1
    <2>. QED BY <1>1, <2>2, <2>3, <2>4, <2>5, <2>6, <2>7, <2>8, StepKinds
  <1>2. IInv /\ [Next]_vars => [Stays]_fs
    BY <1>1 DEF vars
  <1>. QED BY <1>2, Invariant, PTL DEF Spec, OutputsStay

=============================================================================
