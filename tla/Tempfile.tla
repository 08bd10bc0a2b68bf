------------------------------ MODULE Tempfile ------------------------------
(***************************************************************************)
(* The temporary file library (lib/tempfile.c) with its atexit and signal  *)
(* handlers.  A call is a sequence of steps, one for each statement whose  *)
(* effect a handler can see, and a signal may arrive between any two.      *)
(*                                                                         *)
(* A handler never goes back to the code it interrupted: it raises the     *)
(* signal again with the default action.  So one activation is enough: a   *)
(* signal replaces the steps that are left by those of the handler.        *)
(***************************************************************************)
EXTENDS Integers, Sequences, SequencesExt

CONSTANTS
  Objs,     \* struct tempfile objects the program allocates
  Paths,    \* file names
  Signals,  \* the signals of signal_set_common
  Slacks,   \* values of the constant of alloc_nr (array.h: 16)
  NoObj, NoPath

ASSUME ConstantsAssumption ==
  /\ Slacks \subseteq Nat \ {0}
  /\ NoObj \notin Objs /\ NoPath \notin Paths

NoCall == [op |-> "none", path |-> NoPath]

VARIABLES
  fs,        \* what each path names
  obj,       \* the objects
  arr,       \* tempfile_list.arr: what kind of pointer it is
  list,      \* the first tempfile_list.nr entries of the array
  alloc,     \* tempfile_list.alloc
  dispo,     \* disposition of the signals; "handler" once initialized is set
  todo,      \* the steps left of the call or handler that is running
  me, dest,  \* its object and the destination of a rename
  cursor,    \* the loop index of remove_tempfiles
  blocked,   \* signals whose handler is running
  slack,     \* the constant of alloc_nr, the same in a whole run
  status,    \* "running", "exited", "killed"; "undefined" after a memory error
  temps,     \* history: paths created here and neither kept nor deleted
  kept,      \* history: paths committed or renamed to
  pending    \* history: the create or commit call that has not returned

disk == <<fs, temps, kept, pending>>
memory == <<obj, arr, list, alloc>>
control == <<dispo, todo, me, dest, cursor, blocked, slack, status>>
vars == <<disk, memory, control>>

FreshObj == [mem |-> "none", active |-> FALSE, named |-> FALSE, fd |-> FALSE,
             fp |-> FALSE, path |-> NoPath]

Init ==
  /\ fs \in [Paths -> {"absent", "user"}]
  /\ obj = [o \in Objs |-> FreshObj]
  /\ arr = "null" /\ list = <<>> /\ alloc = 0
  /\ dispo = "default"
  /\ todo = <<>> /\ me = NoObj /\ dest = NoPath /\ cursor = 0
  /\ blocked = {} /\ slack \in Slacks
  /\ status = "running"
  /\ temps = {} /\ kept = {} /\ pending = NoCall

(***************************************************************************)
(* The calls, as sequences of steps.                                       *)
(***************************************************************************)
\* Mutant: an object that is active and never on the list.
ActivateUnlisted == <<"register", "grow", "activate">>

ActivateSteps == <<"register", "grow", "append", "activate">>
\* Mutants: the name freed while the object is active; the file removed.
DeactivateFreesFirst == <<"free name", "inactive", "take out", "free object">>
DeactivateUnlinks ==
  <<"unlink me", "inactive", "free name", "take out", "free object">>

DeactivateSteps == <<"inactive", "free name", "take out", "free object">>
DeleteSteps == <<"unlink me">> \o DeactivateSteps
RenameSteps == <<"rename">> \o DeactivateSteps
\* Mutant: the committed object stays active.
CommitKeepsActive == <<"committed">>

CommitSteps == DeactivateSteps \o <<"committed">>
RemoveSteps == <<"scan", "free list", "reset list">>
OnExitSteps == RemoveSteps \o <<"exit">>
OnSignalSteps == RemoveSteps \o <<"default action", "raise">>

\* close_tempfile_gently is a no-op on a closed file; how says what its caller
\* does about an error.
CloseSteps(o, how) == IF obj[o].fd THEN <<"forget fd", how>> ELSE <<>>

Idle == status = "running" /\ todo = <<>>

Call(o, steps) ==
  /\ todo' = steps
  /\ me' = o
  /\ UNCHANGED <<dispo, cursor, blocked, slack, status>>

\* The paths of the other objects in use: clients do not share a path.
Held(o) == {obj[q].path : q \in {r \in Objs \ {o} : obj[r].active}}

\* Which of the objects stands for the one that malloc returns does not matter.
FirstUnused == CHOOSE o \in Objs : obj[o].mem = "none"

\* create_tempfile_mode and mktempfile_s, up to the system call: new_tempfile
\* and the copy of the name.
Create(o, p, flag) ==
  /\ Idle
  /\ obj[o].mem = "none" /\ o = FirstUnused /\ p \notin Held(o)
  /\ obj' = [obj EXCEPT ![o] = [FreshObj EXCEPT !.mem = "live", !.named = TRUE,
                                                !.path = p]]
  /\ Call(o, <<flag>>)
  /\ UNCHANGED <<disk, arr, list, alloc, dest>>

Usable(o) == Idle /\ obj[o].active

\* fdopen_tempfile
Fdopen(o) ==
  /\ Usable(o) /\ obj[o].fd /\ ~obj[o].fp
  /\ obj' = [obj EXCEPT ![o].fp = TRUE]
  /\ UNCHANGED <<disk, arr, list, alloc, control>>

\* close_tempfile_gently called by the client
Close(o) ==
  /\ Usable(o) /\ obj[o].fd
  /\ Call(o, CloseSteps(o, "close"))
  /\ UNCHANGED <<disk, memory, dest>>

\* reopen_tempfile
Reopen(o) ==
  /\ Usable(o) /\ ~obj[o].fd
  /\ obj' = [obj EXCEPT ![o].fd = TRUE]
  /\ fs' = [fs EXCEPT ![obj[o].path] = "partial"]
  /\ UNCHANGED <<temps, kept, pending, arr, list, alloc, control>>

\* rename_tempfile, onto a file that no object uses: not onto its own either.
Rename(o, p) ==
  /\ Usable(o)
  /\ p \notin Held(NoObj)
  /\ Call(o, CloseSteps(o, "close or delete") \o RenameSteps)
  /\ dest' = p
  /\ UNCHANGED <<disk, memory>>

Commit(o) ==
  /\ Usable(o)
  /\ Call(o, CloseSteps(o, "close or fail") \o CommitSteps)
  /\ pending' = [op |-> "commit", path |-> obj[o].path]
  /\ UNCHANGED <<fs, temps, kept, memory, dest>>

Delete(o) ==
  /\ Usable(o)
  /\ Call(o, CloseSteps(o, "close") \o DeleteSteps)
  /\ UNCHANGED <<disk, memory, dest>>

\* exit(): from main or from a die() outside of the library.
ExitNow == IF dispo = "default" THEN <<"exit">> ELSE OnExitSteps

Exit ==
  /\ Idle
  /\ todo' = ExitNow /\ cursor' = 1 /\ me' = NoObj
  /\ UNCHANGED <<disk, memory, dispo, dest, blocked, slack, status>>

(***************************************************************************)
(* The steps.  At(s) is the guard of step s, Done goes on to the next one, *)
(* Goto(steps) leaves the rest for other steps.                            *)
(***************************************************************************)
At(s) == status = "running" /\ todo # <<>> /\ Head(todo) = s

Goto(steps) == todo' = steps /\ UNCHANGED <<dispo, me, dest, cursor, blocked, slack, status>>
Done == Goto(Tail(todo))

\* A read or a free of memory that is not ours: anything may follow.
Undefined ==
  /\ status' = "undefined"
  /\ UNCHANGED <<disk, memory, dispo, todo, me, dest, cursor, blocked, slack>>

path == obj[me].path

\* open(2) or mkstemps(3): O_EXCL ("open new") or O_TRUNC ("open any").
Open ==
  \/ /\ At("open any") \/ (At("open new") /\ fs[path] = "absent")
     /\ fs' = [fs EXCEPT ![path] = "partial"]
     /\ temps' = temps \cup {path}
     /\ kept' = kept \ {path}
     /\ pending' = [op |-> "create", path |-> path]
     /\ obj' = [obj EXCEPT ![me].fd = TRUE]
     /\ Goto(ActivateSteps)
     /\ UNCHANGED <<arr, list, alloc>>
  \/ /\ At("open new") \/ At("open any")
     /\ Goto(DeactivateSteps)
     /\ UNCHANGED <<disk, memory>>

\* Mutant: the signals are ignored instead.
RegisterIgnores ==
  /\ At("register")
  /\ dispo' = "ignore"
  /\ todo' = Tail(todo)
  /\ UNCHANGED <<disk, memory, me, dest, cursor, blocked, slack, status>>

\* activate_tempfile: the first call installs the handlers.
Register ==
  /\ At("register")
  /\ dispo' = "handler"
  /\ todo' = Tail(todo)
  /\ UNCHANGED <<disk, memory, me, dest, cursor, blocked, slack, status>>

\* ALLOC_GROW: alloc is set before the block is reallocated, and xrealloc dies
\* when there is no memory.
AllocNr(n) == ((n + slack) * 3) \div 2

Grow ==
  /\ At("grow")
  /\ UNCHANGED <<disk, obj, list, arr>>
  /\ IF Len(list) + 1 <= alloc
     THEN Done /\ UNCHANGED alloc
     ELSE /\ alloc' = IF AllocNr(alloc) < Len(list) + 1 THEN Len(list) + 1
                      ELSE AllocNr(alloc)
          /\ \/ Goto(<<"move block", "set pointer">> \o Tail(todo))
             \/ /\ todo' = ExitNow /\ cursor' = 1
                /\ UNCHANGED <<dispo, me, dest, blocked, slack, status>>

\* realloc(3): the old block is gone before the pointer is assigned.
MoveBlock ==
  /\ At("move block")
  /\ arr' = IF arr = "null" THEN "null" ELSE "freed"
  /\ Done
  /\ UNCHANGED <<disk, obj, list, alloc>>

SetPointer ==
  /\ At("set pointer")
  /\ arr' = "live"
  /\ Done
  /\ UNCHANGED <<disk, obj, list, alloc>>

AppendObj ==
  /\ At("append")
  /\ list' = Append(list, me)
  /\ Done
  /\ UNCHANGED <<disk, obj, arr, alloc>>

\* The last step of a create call.
Activate ==
  /\ At("activate")
  /\ obj' = [obj EXCEPT ![me].active = TRUE]
  /\ pending' = NoCall
  /\ Done
  /\ UNCHANGED <<fs, temps, kept, arr, list, alloc>>

\* close_tempfile_gently
ForgetFd ==
  /\ At("forget fd")
  /\ obj' = [obj EXCEPT ![me].fd = FALSE, ![me].fp = FALSE]
  /\ Done
  /\ UNCHANGED <<disk, arr, list, alloc>>

\* fclose(3) or close(2): the content is complete, or it is torn and there is
\* an error.
CloseFile(how) ==
  /\ At(how)
  /\ UNCHANGED <<temps, kept, memory>>
  /\ \/ /\ fs' = [fs EXCEPT ![path] = "complete"]
        /\ Done
        /\ UNCHANGED pending
     \/ /\ fs' = [fs EXCEPT ![path] = "torn"]
        /\ Goto(CASE how = "close" -> Tail(todo)
                  [] how = "close or delete" -> DeleteSteps
                  [] how = "close or fail" -> <<>>)
        /\ pending' = NoCall

RenameFile ==
  /\ At("rename")
  /\ \/ /\ fs' = [fs EXCEPT ![path] = "absent", ![dest] = fs[path]]
        /\ temps' = temps \ {path, dest}
        /\ kept' = (kept \ {path}) \cup {dest}
        /\ Done
        /\ UNCHANGED <<pending, memory>>
     \/ Goto(DeleteSteps) /\ UNCHANGED <<disk, memory>>

\* The end of commit_tempfile.
Committed ==
  /\ At("committed")
  /\ kept' = kept \cup {path}
  /\ temps' = temps \ {path}
  /\ pending' = NoCall
  /\ Done
  /\ UNCHANGED <<fs, memory>>

UnlinkMe ==
  /\ At("unlink me")
  /\ fs' = [fs EXCEPT ![path] = "absent"]
  /\ temps' = temps \ {path}
  /\ Done
  /\ UNCHANGED <<kept, pending, memory>>

\* deactivate_tempfile
Inactive ==
  /\ At("inactive")
  /\ obj' = [obj EXCEPT ![me].active = FALSE]
  /\ Done
  /\ UNCHANGED <<disk, arr, list, alloc>>

FreeName ==
  /\ At("free name")
  /\ obj' = [obj EXCEPT ![me].named = FALSE]
  /\ Done
  /\ UNCHANGED <<disk, arr, list, alloc>>

\* ARRAY_REMOVE: the entries behind the object move down, then nr is
\* decremented; an object that is not in the array changes nothing.
TakeOut ==
  /\ At("take out")
  /\ UNCHANGED <<disk, obj, arr, alloc>>
  /\ IF Contains(list, me)
     THEN LET k == SelectInSeq(list, LAMBDA o : o = me)
          IN /\ list' = [j \in DOMAIN list |->
                           IF j < k \/ j = Len(list) THEN list[j] ELSE list[j + 1]]
             /\ Goto(<<"shorten">> \o Tail(todo))
     ELSE Done /\ UNCHANGED list

\* The array shrinks when less than a quarter of it is in use.
Shorten ==
  /\ At("shorten")
  /\ list' = Front(list)
  /\ LET nr == Len(list) - 1
     IN IF nr > 0 /\ 4 * nr < alloc
        THEN /\ alloc' = IF alloc \div 2 < nr THEN nr + 8 ELSE alloc \div 2
             /\ Goto(<<"move block", "set pointer">> \o Tail(todo))
        ELSE Done /\ UNCHANGED alloc
  /\ UNCHANGED <<disk, obj, arr>>

FreeObject ==
  /\ At("free object")
  /\ obj' = [obj EXCEPT ![me].mem = "freed"]
  /\ Done
  /\ UNCHANGED <<disk, arr, list, alloc>>

(***************************************************************************)
(* remove_tempfiles, run by exit() or by the signal handler.               *)
(***************************************************************************)
\* Mutant: the loop does not advance over an inactive object.
ScanNextStuck == cursor' = cursor /\ UNCHANGED <<dispo, todo, dest, blocked, slack, status>>

ScanNext == cursor' = cursor + 1 /\ UNCHANGED <<dispo, todo, dest, blocked, slack, status>>

Scan ==
  /\ At("scan")
  /\ IF cursor > Len(list) THEN Done /\ UNCHANGED <<disk, memory>>
     ELSE IF arr # "live" \/ obj[list[cursor]].mem # "live" THEN Undefined
     ELSE /\ UNCHANGED <<disk, memory>>
          /\ IF obj[list[cursor]].active
             THEN /\ me' = list[cursor]
                  /\ todo' = <<"unlink", "clear">> \o todo
                  /\ UNCHANGED <<dispo, dest, cursor, blocked, slack, status>>
             ELSE ScanNext /\ UNCHANGED me

Unlink ==
  /\ At("unlink")
  /\ IF obj[me].named
     THEN /\ fs' = [fs EXCEPT ![path] = "absent"]
          /\ temps' = temps \ {path}
          /\ Done
          /\ UNCHANGED <<kept, pending, memory>>
     ELSE Undefined

Clear ==
  /\ At("clear")
  /\ obj' = [obj EXCEPT ![me].active = FALSE]
  /\ todo' = Tail(todo) /\ cursor' = cursor + 1
  /\ UNCHANGED <<disk, arr, list, alloc, dispo, me, dest, blocked, slack, status>>

\* FREE_ARRAY frees the block and resets the counters, not the pointer.
FreeList ==
  /\ At("free list")
  /\ IF arr = "freed" THEN Undefined
     ELSE /\ arr' = IF arr = "null" THEN "null" ELSE "freed"
          /\ Done
          /\ UNCHANGED <<disk, obj, list, alloc>>

ResetList ==
  /\ At("reset list")
  /\ list' = <<>> /\ alloc' = 0
  /\ Done
  /\ UNCHANGED <<disk, obj, arr>>

DefaultAction ==
  /\ At("default action")
  /\ dispo' = "default"
  /\ todo' = Tail(todo)
  /\ UNCHANGED <<disk, memory, me, dest, cursor, blocked, slack, status>>

End(s, how) ==
  /\ At(s)
  /\ status' = how
  /\ UNCHANGED <<disk, memory, dispo, todo, me, dest, cursor, blocked, slack>>

\* A signal: the handler of s runs with s blocked, others may interrupt it.
Signal(s) ==
  /\ status = "running" /\ s \notin blocked
  /\ UNCHANGED <<disk, memory, dispo, dest, slack>>
  /\ IF dispo = "default"
     THEN status' = "killed" /\ UNCHANGED <<todo, me, cursor, blocked>>
     ELSE /\ todo' = OnSignalSteps /\ me' = NoObj /\ cursor' = 1
          /\ blocked' = blocked \cup {s}
          /\ UNCHANGED status

LibraryStep ==
  \/ Open \/ Register \/ Grow \/ MoveBlock \/ SetPointer \/ AppendObj \/ Activate
  \/ ForgetFd \/ RenameFile \/ Committed \/ UnlinkMe
  \/ \E how \in {"close", "close or delete", "close or fail"} : CloseFile(how)
  \/ Inactive \/ FreeName \/ TakeOut \/ Shorten \/ FreeObject
  \/ Scan \/ Unlink \/ Clear \/ FreeList \/ ResetList \/ DefaultAction
  \/ End("exit", "exited") \/ End("raise", "killed")

Client ==
  \/ \E o \in Objs :
       \/ \E p \in Paths, flag \in {"open new", "open any"} : Create(o, p, flag)
       \/ Fdopen(o) \/ Close(o) \/ Reopen(o) \/ Commit(o) \/ Delete(o)
       \/ \E p \in Paths : Rename(o, p)
  \/ Exit

Next == LibraryStep \/ Client \/ \E s \in Signals : Signal(s)

\* The kernel runs the process: a call, once made, goes on.
Spec == Init /\ [][Next]_vars /\ WF_vars(LibraryStep)

-----------------------------------------------------------------------------
(***************************************************************************)
(* Properties.                                                             *)
(***************************************************************************)
Step == {"open new", "open any", "register", "grow", "move block",
         "set pointer", "append", "activate", "forget fd", "close",
         "close or delete", "close or fail", "rename", "committed",
         "unlink me", "inactive", "free name", "take out", "shorten",
         "free object", "scan", "unlink", "clear", "free list", "reset list",
         "default action", "exit", "raise"}

\* Type invariant of the library's memory and of the running activation.
TypeOK ==
  /\ fs \in [Paths -> {"absent", "user", "partial", "torn", "complete"}]
  /\ obj \in [Objs -> [mem : {"none", "live", "freed"}, active : BOOLEAN,
                       named : BOOLEAN, fd : BOOLEAN, fp : BOOLEAN,
                       path : Paths \cup {NoPath}]]
  /\ arr \in {"null", "live", "freed"}
  /\ list \in Seq(Objs) /\ alloc \in Nat
  /\ dispo \in {"default", "handler"}
  /\ todo \in Seq(Step)
  /\ me \in Objs \cup {NoObj} /\ dest \in Paths \cup {NoPath}
  /\ cursor \in Nat
  /\ blocked \subseteq Signals /\ slack \in Slacks
  /\ status \in {"running", "exited", "killed", "undefined"}
  /\ temps \subseteq Paths /\ kept \subseteq Paths
  /\ pending \in [op : {"none", "create", "commit"}, path : Paths \cup {NoPath}]

\* What a handler relies on between any two statements of the library: an active
\* object is on the list until cleanup is over, keeps its name, and what the
\* list holds is allocated and fits the array ("must be kept in self-consistent
\* states at all times", tempfile.c:43).
ListConsistent ==
  /\ \A o \in Objs : obj[o].active =>
       /\ Contains(list, o)
       /\ obj[o].named /\ obj[o].mem = "live"
       /\ dispo = "handler"
  /\ \A k \in DOMAIN list : obj[list[k]].mem = "live"
  /\ Len(list) <= alloc

\* The process has ended in a way the library meant it to.
Ended == status \in {"exited", "killed"}

\* A file that was committed or renamed into place stays, however the process
\* ends, and was closed before: complete, unless that close reported an error.
KeptSurvive == \A p \in kept : fs[p] \in {"complete", "torn"}

\* When the process ends no temporary file is left, unless it was killed or died
\* inside the call that was creating or committing it.
NoneForgotten ==
  Ended => \A p \in temps : fs[p] = "absent" \/ pending.path = p

\* A path is removed only while it is that of a temporary file: neither what the
\* user had nor what was published is unlinked by a stale object.
OnlyTempsRemoved ==
  [][\A p \in Paths :
       fs[p] # "absent" /\ fs'[p] = "absent" => p \in temps]_fs

\* Cleanup comes to an end: once a handler runs or exit() was called, the
\* process ends (possibly by a memory error).
CleanupEnds ==
  (blocked # {} \/ (todo # <<>> /\ Last(todo) = "exit")) ~> (status # "running")

\* "the tempfile objects that comprise it must be kept in self-consistent states
\* at all times" because "the signal handler can run at any time"
\* (tempfile.c:43-45): no handler meets freed memory.
HandlersSafe == status # "undefined"

=============================================================================
