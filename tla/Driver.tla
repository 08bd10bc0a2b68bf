------------------------------- MODULE Driver -------------------------------
(***************************************************************************)
(* main() of the compiler (cc.c): options, one pass over the sources that  *)
(* leaves an assembly file for each, gcc on these files.  The calls of the *)
(* tempfile library are single steps here (Tempfile has their inside), but *)
(* for the creation of a file, which a signal may part from its            *)
(* activation.  The lexer, the parser and the code generator either        *)
(* succeed or die.                                                         *)
(***************************************************************************)
EXTENDS Integers, FiniteSets

CONSTANTS
  MaxSources, \* bound: source files on the command line
  MaxOptions  \* bound: options on the command line

ASSUME DriverAssumption == MaxSources \in Nat \ {0} /\ MaxOptions \in Nat

\* Files, by what they are and the source they come from (0: no single one).
SourceIds == 1 .. MaxSources
OutPath == <<"-o", 0>>
DefaultOut == <<"a.out", 0>>
Files == ({"tmp", ".s", ".o"} \X SourceIds) \cup {OutPath, DefaultOut}
NoFile == <<"none", 0>>

VARIABLES
  flags,   \* options seen: print_lex, print_tree, stop_at_assembly, !link, -o
  nropts,  \* how many options were read
  sources, \* sources.nr
  pc,      \* where main() is
  cur,     \* the index of the source loop, from 1
  fs,      \* content of the files
  asm,     \* asm[k]: file of the active tempfile object of source k
  queue,   \* asm_files_to_link
  child,   \* the gcc run by system(): its state, inputs and output
  code,    \* exit code
  status,  \* "running", "exited", "killed"
  lost     \* history: the assembly files whose close failed (disk full, quota)

vars == <<flags, nropts, sources, pc, cur, fs, asm, queue, child, code, status, lost>>

Flag == {"-l", "-t", "-S", "-c", "-o"}

NoChild == [state |-> "none", inputs |-> {}, out |-> NoFile]

Init ==
  /\ flags = {} /\ nropts = 0 /\ sources = 0
  /\ pc = "args" /\ cur = 1
  /\ fs \in [Files -> {"absent", "user"}]
  /\ \A k \in SourceIds : fs[<<"tmp", k>>] = "absent"
  /\ asm = [k \in SourceIds |-> NoFile]
  /\ queue = {}
  /\ child = NoChild
  /\ code = 0 /\ status = "running"
  /\ lost = {}

At(p) == status = "running" /\ pc = p

Goto(p) == pc' = p /\ UNCHANGED <<code, status>>

\* The files of active tempfile objects; exit() and the signal handler unlink
\* them.
Active == {asm[k] : k \in SourceIds} \ {NoFile}

\* Mutant: the files are forgotten, not removed.
CleanupForgets ==
  /\ asm' = [k \in SourceIds |-> NoFile]
  /\ UNCHANGED fs

Cleanup ==
  /\ fs' = [f \in Files |-> IF f \in Active THEN "absent" ELSE fs[f]]
  /\ asm' = [k \in SourceIds |-> NoFile]

\* exit(), the return of main() and die().
Exit(c) ==
  /\ Cleanup
  /\ code' = c /\ status' = "exited"
  /\ UNCHANGED <<flags, nropts, sources, pc, cur, queue, child, lost>>
Die == Exit(128)

(***************************************************************************)
(* The command line.                                                       *)
(***************************************************************************)
Printing == flags \cap {"-l", "-t"} # {}
StopAtAssembly == "-S" \in flags
Link == "-c" \notin flags
HasOut == "-o" \in flags

SourceArg ==
  /\ At("args") /\ sources < MaxSources
  /\ sources' = sources + 1
  /\ UNCHANGED <<flags, nropts, pc, cur, fs, asm, queue, child, code, status, lost>>

OptionArg(f) ==
  /\ At("args") /\ nropts < MaxOptions
  /\ flags' = flags \cup {f} /\ nropts' = nropts + 1
  /\ UNCHANGED <<sources, pc, cur, fs, asm, queue, child, code, status, lost>>

\* -h; an unknown option, a source without the .c suffix, -o without a value.
HelpArg == At("args") /\ Exit(0)
BadArg == At("args") /\ Die

\* Mutant: -o is accepted with -S or -c for several sources.
ConflictingNotOut ==
  \/ {"-l", "-t"} \subseteq flags
  \/ Printing /\ sources > 1
  \/ Printing /\ (StopAtAssembly \/ ~Link \/ HasOut)

Conflicting ==
  \/ {"-l", "-t"} \subseteq flags
  \/ Printing /\ sources > 1
  \/ Printing /\ (StopAtAssembly \/ ~Link \/ HasOut)
  \/ (StopAtAssembly \/ ~Link) /\ HasOut /\ sources > 1

CheckOptions ==
  /\ At("args")
  /\ IF sources = 0 THEN Exit(129)
     ELSE IF Conflicting THEN Die
     ELSE /\ Goto(IF Printing THEN "print" ELSE "front end")
          /\ UNCHANGED <<flags, nropts, sources, cur, fs, asm, queue, child, lost>>

\* --lex and --tree: print and return.
PrintAndReturn == At("print") /\ Exit(0)
PrintFails == At("print") /\ Die

(***************************************************************************)
(* The loop over the sources.                                              *)
(***************************************************************************)
AsmFile == IF ~StopAtAssembly THEN <<"tmp", cur>>
           ELSE IF HasOut THEN OutPath ELSE <<".s", cur>>

Proceed(p) ==
  Goto(p) /\ UNCHANGED <<flags, nropts, sources, cur, fs, asm, queue, child, lost>>

\* read_file, lex and parse_program
FrontEnd == At("front end") /\ Proceed("create")

\* create_tempfile truncates what was there; mktempfile_s finds a free name.
CreateAsm ==
  /\ At("create")
  /\ fs' = [fs EXCEPT ![AsmFile] = "partial"]
  /\ Goto("activate")
  /\ UNCHANGED <<flags, nropts, sources, cur, asm, queue, child, lost>>

\* activate_tempfile: before it the cleanup does not know of the file.
ActivateAsm ==
  /\ At("activate")
  /\ asm' = [asm EXCEPT ![cur] = AsmFile]
  /\ Goto("generate")
  /\ UNCHANGED <<flags, nropts, sources, cur, fs, queue, child, lost>>

\* fdopen_tempfile and generate_x86_asm
Generate == At("generate") /\ Proceed("close")

\* The result of close_tempfile_gently is only reported.
CloseAsm ==
  /\ At("close")
  /\ \/ fs' = [fs EXCEPT ![asm[cur]] = "complete"] /\ UNCHANGED lost
     \/ lost' = lost \cup {asm[cur]} /\ UNCHANGED fs
  /\ Goto(IF StopAtAssembly THEN "commit"
          ELSE IF Link THEN "queue" ELSE "assemble")
  /\ UNCHANGED <<flags, nropts, sources, cur, asm, queue, child>>

\* Any of these steps may die instead; activate_tempfile for want of memory.
StepFails ==
  /\ \/ At("front end") \/ At("create") \/ At("activate") \/ At("generate")
  /\ Die

\* Mutants: only one round, always the same source.
NextSourceStops ==
  cur' = cur /\ Goto(IF queue' # {} THEN "link" ELSE "return")
NextSourceRepeats == cur' = cur /\ Goto("front end")

NextSource ==
  IF cur < sources
  THEN cur' = cur + 1 /\ Goto("front end")
  ELSE cur' = cur /\ Goto(IF queue' # {} THEN "link" ELSE "return")

\* commit_tempfile: the file is closed, so it succeeds and lets it go.
CommitAsm ==
  /\ At("commit")
  /\ asm' = [asm EXCEPT ![cur] = NoFile]
  /\ UNCHANGED queue
  /\ NextSource
  /\ UNCHANGED <<flags, nropts, sources, fs, child, lost>>

\* Mutant: only the last file is kept.
QueueAsmLast ==
  /\ At("queue")
  /\ queue' = {asm[cur]}
  /\ NextSource
  /\ UNCHANGED <<flags, nropts, sources, fs, asm, child, lost>>

QueueAsm ==
  /\ At("queue")
  /\ queue' = queue \cup {asm[cur]}
  /\ NextSource
  /\ UNCHANGED <<flags, nropts, sources, fs, asm, child, lost>>

(***************************************************************************)
(* gcc: assemble and assemble_many.  system() runs it as a child; it reads *)
(* its inputs, then writes its output.  A parent that is killed leaves it  *)
(* behind.                                                                 *)
(***************************************************************************)
StartGcc(inputs, out) ==
  /\ child' = [state |-> "started", inputs |-> inputs, out |-> out]
  /\ Goto("gcc")
  /\ UNCHANGED <<flags, nropts, sources, cur, fs, asm, queue, lost>>

Assemble ==
  /\ At("assemble")
  /\ StartGcc({asm[cur]}, IF HasOut THEN OutPath ELSE <<".o", cur>>)

AssembleMany ==
  /\ At("link")
  /\ StartGcc(queue, IF HasOut THEN OutPath ELSE DefaultOut)

GccReads ==
  /\ child.state = "started"
  /\ child' = [child EXCEPT !.state =
                 IF \E f \in child.inputs : fs[f] = "absent" THEN "failed" ELSE "read"]
  /\ UNCHANGED <<flags, nropts, sources, pc, cur, fs, asm, queue, code, status, lost>>

GccWrites ==
  /\ child.state = "read"
  /\ \/ /\ child' = [child EXCEPT !.state = "ok"]
        /\ fs' = [fs EXCEPT ![child.out] =
                     IF child.inputs \cap lost = {} THEN "complete" ELSE "partial"]
     \/ /\ child' = [child EXCEPT !.state = "failed"]
        /\ UNCHANGED fs
  /\ UNCHANGED <<flags, nropts, sources, pc, cur, asm, queue, code, status, lost>>

\* system() returns.
GccReturned ==
  /\ At("gcc")
  /\ \/ child.state = "failed" /\ Die
     \/ /\ child.state = "ok"
        /\ UNCHANGED <<flags, nropts, sources, fs, asm, queue, child, lost>>
        /\ IF Link THEN Goto("return") /\ UNCHANGED cur ELSE NextSource

Return == At("return") /\ Exit(0)

\* SIGHUP, SIGTERM, SIGPIPE at any time; SIGINT and SIGQUIT are ignored while
\* system() waits, and gcc dies of them.
Killed ==
  /\ status = "running"
  /\ Cleanup
  /\ status' = "killed"
  /\ UNCHANGED <<flags, nropts, sources, pc, cur, queue, child, code, lost>>

Main ==
  \/ SourceArg \/ HelpArg \/ BadArg \/ CheckOptions
  \/ \E f \in Flag : OptionArg(f)
  \/ PrintAndReturn \/ PrintFails
  \/ FrontEnd \/ CreateAsm \/ ActivateAsm \/ Generate \/ CloseAsm \/ StepFails
  \/ CommitAsm \/ QueueAsm \/ Assemble \/ AssembleMany \/ GccReturned
  \/ Return

Gcc == GccReads \/ GccWrites

Next == Main \/ Gcc \/ Killed

\* The process and its child are scheduled.
Spec == Init /\ [][Next]_vars /\ WF_vars(Main) /\ WF_vars(Gcc)

-----------------------------------------------------------------------------
(***************************************************************************)
(* Properties.                                                             *)
(***************************************************************************)

\* The files the command line asks for.
Wanted ==
  IF StopAtAssembly
  THEN {IF HasOut THEN OutPath ELSE <<".s", k>> : k \in 1 .. sources}
  ELSE IF ~Link THEN {IF HasOut THEN OutPath ELSE <<".o", k>> : k \in 1 .. sources}
  ELSE {IF HasOut THEN OutPath ELSE DefaultOut}

\* Exit code 0 means that every file asked for was written to its end; with the
\* die of cc.c:236 this is what the driver intends when a close fails.
ExitZeroMeansDone ==
  status = "exited" /\ code = 0 /\ pc = "return"
    => \A f \in Wanted : fs[f] = "complete"

\* It does when every assembly file could be closed, whatever the options, the
\* number of sources and the outcome of gcc.
DoneUnlessLost == lost = {} => ExitZeroMeansDone

\* The file that the call in progress has created and not yet activated
\* (tempfile.c:181-214): a signal or a death there leaves it behind, since only
\* the files of the list are removed.
Unregistered == IF pc = "activate" THEN {AsmFile} ELSE {}

\* Whatever ends the run, no temporary assembly file is left but the one that was
\* being created at that moment: those of the sources before it are gone.
NoTempsLeft ==
  status # "running" =>
    \A k \in SourceIds : <<"tmp", k>> \notin Unregistered => fs[<<"tmp", k>>] = "absent"

\* A run that fails or is killed leaves no half-written file under a name the user
\* asked for, unless closing one failed, or with -S it ended between the truncation
\* of the file and its activation.
NoPartialOutput ==
  status # "running" /\ lost = {} =>
    \A f \in Files \ Unregistered : fs[f] # "partial"

\* gcc gets the assembly of every source, closed and (but for a failed close)
\* complete, and none of the files goes away while it is waited for.
GccInputsReady ==
  child.state \in {"started", "read"} /\ status = "running" =>
    /\ \A f \in child.inputs : fs[f] = IF f \in lost THEN "partial" ELSE "complete"
    /\ Cardinality(child.inputs) = IF Link THEN sources ELSE 1

\* Once written, an output stays, whatever happens to the sources behind it
\* (test-tempfiles.sh: "Should not remove main.s from step above"); no two
\* sources share one.
OutputsStay ==
  [][\A f \in Files \ Active : fs[f] = "complete" => fs'[f] = "complete"]_fs

\* Every compilation ends.
Ends == <>(status # "running")

=============================================================================
