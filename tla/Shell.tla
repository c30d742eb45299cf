-------------------------------- MODULE Shell --------------------------------
(***************************************************************************)
(* wsh (P2) in batch mode: the command loop, aliases, the builtins, fork,  *)
(* exec and wait of external commands, and pipelines.                      *)
(*                                                                         *)
(* A process is a shell, a segment of a pipeline that is still shell code, *)
(* or a program that replaced it.  fork copies the memory of the shell:    *)
(* return code, aliases, history, PATH and the lines of the script that    *)
(* the FILE buffer still holds; the offset of the open file is shared.     *)
(* System calls that other processes can see are steps; what a process     *)
(* does in its own memory between two of them is part of the step before.  *)
(* Words, not characters: Parse says what parseline_no_subst makes of the  *)
(* text of an alias.                                                       *)
(***************************************************************************)
EXTENDS Integers, Sequences, FiniteSets, SequencesExt, FiniteSetsExt, DynArray

CONSTANTS
    Scripts,        \* the batch files: sequences of lines; a line is the
                    \* sequence of its segments, a segment one of words
    Words,          \* the words of scripts and the texts of aliases
    Buckets, Hash,  \* the alias table: see HashMap
    Parse,          \* [Words -> Seq(Words)]
    Lookup,         \* Lookup[path][word]: "none", "program" or "directory"
    Number,         \* the words that are positive numbers, and their values
    Local,          \* the words that begin with . or /: no path is searched
    BadQuote,       \* the segment with a missing closing quote
    HistoryCap,     \* MAX_ARGS, the first capacity of the history
    Pids,           \* bound: process identifiers, among them Root
    Root,           \* the shell that was started
    Failures        \* bound: failing fork and pipe calls

NoWord  == "NULL"
NoText  == ""
NoPid   == 0

ASSUME ShellAssumption ==
    /\ Pids \subseteq Nat \ {NoPid} /\ Root \in Pids
    /\ NoText \in Words /\ NoWord \notin Words
    /\ Hash \in [Words -> Buckets]
    /\ Parse \in [Words -> Seq(Words)]
    /\ \A s \in Scripts : s \in Seq(Seq(Seq(Words)))
    /\ BadQuote # <<>>
    /\ HistoryCap \in Nat /\ Failures \in Nat

VARIABLES
    script,     \* the batch file
    proc,       \* per process: kind, parent, exit code
    mem,        \* per process: the shell's memory
    fds,        \* per process: the pipe ends it holds
    offset,     \* lines the offset of the open script has passed
    taken,      \* how often each line was taken from the script
    failures    \* failing system calls so far

vars == <<script, proc, mem, fds, offset, taken, failures>>

Aliases == INSTANCE HashMap

NoProc == [kind |-> "none", parent |-> NoPid, code |-> 0]

\* at: place in the code; line, end: the lines line..end are in the FILE
\* buffer; log: the lines this shell took; argv, segs: the command parsed;
\* i: segment reached; pids: the children of the pipeline; status: of the
\* segments waited for; lost: a pipeline was given up with children left.
Fresh == [at |-> "read", rc |-> 0, line |-> 1, end |-> 0, log |-> <<>>, alias |-> Aliases!hm_create,
          hist |-> NoArray, path |-> "/bin", argv |-> <<>>, segs |-> <<>>,
          i |-> 0, pids |-> <<>>, status |-> 0, lost |-> FALSE]

Init ==
    /\ script \in Scripts
    /\ proc = [p \in Pids |-> IF p = Root THEN [NoProc EXCEPT !.kind = "wsh"] ELSE NoProc]
    /\ mem = [p \in Pids |-> Fresh]
    /\ fds = [p \in Pids |-> {}]
    /\ offset = 0
    /\ taken = [l \in DOMAIN script |-> 0]
    /\ failures = 0

-----------------------------------------------------------------------------
(* Words and builtins *)

Builtins == {"exit", "path", "alias", "unalias", "which", "cd", "history"}

Found(m, w) == Lookup[m.path][w]

Alias(m, w) == Aliases!hm_get(m.alias, w, NoWord)

\* searchAlias: the first word is replaced once; an empty alias shifts the
\* arguments to the left.
searchAlias(m, argv) ==
    IF argv # <<>> /\ Alias(m, argv[1]) # NoWord
      THEN Parse[Alias(m, argv[1])] \o Tail(argv)
      ELSE argv

\* A well-formed alias name = 'command', the command possibly empty.
Aliasing(argv) == Len(argv) \in {3, 4} /\ argv[3] = "="

\* The values a builtin can return; exit returns only when it is misused.
Result(m, argv) ==
    LET n == Len(argv)
        Code(ok) == {IF ok THEN 0 ELSE 1}
    IN CASE argv[1] = "exit"    -> {1}
         [] argv[1] = "path"    -> Code(n <= 2)
         [] argv[1] = "alias"   -> Code(n = 1 \/ Aliasing(argv))
         [] argv[1] = "unalias" -> Code(n = 2)
         [] argv[1] = "which"   -> Code(/\ n = 2
                                        /\ \/ Alias(m, argv[2]) # NoWord
                                           \/ argv[2] \in Builtins
                                           \/ Found(m, argv[2]) # "none")
         [] argv[1] = "cd"      -> IF n <= 2 THEN {0, 1} ELSE {1}
         [] argv[1] = "history" -> Code(n = 1 \/ (n = 2 /\ argv[2] \in DOMAIN Number
                                        /\ Number[argv[2]] <= Len(m.hist.data)))

\* What a builtin leaves in the shell's memory, apart from the return code.
Effect(m, argv) ==
    LET n == Len(argv)
    IN CASE argv[1] = "path" /\ n = 2 -> [m EXCEPT !.path = argv[2]]
         [] argv[1] = "alias" /\ Aliasing(argv) ->
              [m EXCEPT !.alias = Aliases!hm_put(@, argv[2], IF n = 3 THEN NoText ELSE argv[4])]
         [] argv[1] = "unalias" /\ n = 2 -> [m EXCEPT !.alias = Aliases!hm_delete(@, argv[2])]
         [] argv[1] = "history" /\ n <= 2 /\ ~m.hist.made ->
              [m EXCEPT !.hist = da_create(HistoryCap)]
         [] OTHER -> m

-----------------------------------------------------------------------------
(* Processes *)

Runs(p, l)  == proc[p].kind = "wsh" /\ mem[p].at = l
Children(p) == {c \in Pids : proc[c].parent = p /\ proc[c].kind # "none"}
Free        == {c \in Pids : proc[c].kind = "none"}
Set(p, m)   == mem' = [mem EXCEPT ![p] = m]

\* A bug that must not happen: a missing history is not created.
PutOnly(m) == [m EXCEPT !.at = "read", !.argv = <<>>, !.hist = da_put(@, m.line - 1)]

\* The tail of processCmd: the line goes into the history, created if need be.
Recorded(m) ==
    [m EXCEPT !.at = "read", !.argv = <<>>,
              !.hist = da_put(IF m.hist.made THEN m.hist ELSE da_create(HistoryCap),
                              m.line - 1)]

\* A command that the shell itself fails to run.
Failed(m) == Recorded([m EXCEPT !.rc = 1])

\* p ends with a code; its children are left to init, its pipe ends closed.
Ended(p, c) == [q \in Pids |->
    IF q = p THEN IF proc[p].parent = NoPid /\ p # Root
                    THEN NoProc ELSE [proc[p] EXCEPT !.kind = "zombie", !.code = c]
    ELSE IF proc[q].parent # p THEN proc[q]
    ELSE IF proc[q].kind = "zombie" THEN NoProc
    ELSE [proc[q] EXCEPT !.parent = NoPid]]

End(p, c) ==
    /\ proc' = Ended(p, c)
    /\ mem' = [mem EXCEPT ![p] = Fresh]
    /\ fds' = [fds EXCEPT ![p] = {}]
    /\ UNCHANGED <<script, failures>>

\* exit and fclose give the lines left in the buffer back to the open file:
\* the offset, which all processes share, moves back by as much.
Rewound(o, m) == LET unread == m.end + 1 - m.line IN IF unread <= o THEN o - unread ELSE o

Exit(p, c) ==
    /\ End(p, c)
    /\ offset' = Rewound(offset, mem[p])
    /\ UNCHANGED taken

\* p is killed by a signal: a null pointer, or a pipe without a reader.
Killed(p) == End(p, 139) /\ UNCHANGED <<offset, taken>>

\* A child with a copy of p's memory and descriptors, at place l.
Born(p, l) == \E c \in Free :
    /\ \A d \in Free : c <= d
    /\ proc' = [proc EXCEPT ![c] = [kind |-> "wsh", parent |-> p, code |-> 0]]
    /\ mem' = [mem EXCEPT ![c] = [mem[p] EXCEPT !.at = l, !.pids = <<>>],
                          ![p] = IF l = "exec" THEN [mem[p] EXCEPT !.at = "wait"]
                                 ELSE [mem[p] EXCEPT !.i = @ + 1, !.pids = Append(@, c)]]
    /\ fds' = [fds EXCEPT ![c] = fds[p]]
    /\ UNCHANGED <<script, offset, taken, failures>>

\* A system call fails for lack of resources.
CallFails == failures < Failures /\ failures' = failures + 1

-----------------------------------------------------------------------------
(* The command loop *)

\* fgets takes the next line of the buffer, and reads the rest of the file
\* into it when it is empty.
Buffered(p) == mem[p].line <= mem[p].end
More(p)     == Runs(p, "read") /\ (Buffered(p) \/ offset < Len(script))
Upcoming(p) == IF Buffered(p) THEN mem[p].line ELSE offset + 1
Segments(p) == script[Upcoming(p)]

Fetched(p)  == [mem[p] EXCEPT !.line = Upcoming(p) + 1,
                              !.end = IF Buffered(p) THEN @ ELSE Len(script),
                              !.log = Append(@, Upcoming(p))]

FileRead(p) == IF Buffered(p) THEN offset ELSE Len(script)

Take(p) == More(p) /\ taken' = [taken EXCEPT ![Upcoming(p)] = @ + 1]

\* batch_main at the end of the file: main frees everything and returns rc.
AtEof(p) ==
    /\ Runs(p, "read") /\ ~More(p)
    /\ Exit(p, mem[p].rc)

\* processCmd and execCommand up to the fork: alias lookup, builtins, search.
\* argv[0] is compared after an empty alias shifted it away.  A local name
\* that is not executable leaves the return code if there is no path.
Command(m, argv) ==
    CASE argv[1] \in Builtins ->
           {Recorded([Effect(m, argv) EXCEPT !.rc = r]) : r \in Result(m, argv)}
      [] argv[1] \notin Builtins /\ Found(m, argv[1]) = "none" ->
           {IF argv[1] \in Local /\ m.path = "" THEN Recorded(m) ELSE Failed(m)}
      [] OTHER -> {[m EXCEPT !.at = "fork", !.argv = argv]}

Exits(argv) == argv = <<"exit">>

\* A line without a bar that does not leave the shell.
Line(p) ==
    /\ Take(p) /\ Len(Segments(p)) = 1
    /\ LET m    == Fetched(p)
           argv == Segments(p)[1]
       IN CASE argv = BadQuote -> Set(p, Failed(m))
            [] argv = <<>>     -> Set(p, Recorded(m))
            [] OTHER -> LET full == searchAlias(m, argv)
                        IN /\ full # <<>> /\ ~Exits(full)
                           /\ \E n \in Command(m, full) : Set(p, n)
    /\ offset' = FileRead(p)
    /\ UNCHANGED <<script, proc, fds, failures>>

\* exit ends the shell with the last return code; a null argv[0], left by an
\* empty alias without arguments, ends it with a segmentation fault.
Leave(p) ==
    /\ Take(p) /\ Len(Segments(p)) = 1
    /\ Segments(p)[1] \notin {BadQuote, <<>>}
    /\ LET full == searchAlias(mem[p], Segments(p)[1])
       IN \/ /\ Exits(full) /\ End(p, mem[p].rc)
             /\ offset' = Rewound(FileRead(p), Fetched(p))
          \/ /\ full = <<>> /\ End(p, 139)
             /\ offset' = FileRead(p)

\* fork in execCommand.
Fork(p) ==
    /\ Runs(p, "fork")
    /\ \/ Born(p, "exec")
       \/ /\ CallFails
          /\ Set(p, Failed(mem[p]))
          /\ UNCHANGED <<script, proc, fds, offset, taken>>

Becomes(p, k) ==
    /\ proc' = [proc EXCEPT ![p].kind = k]
    /\ mem' = [mem EXCEPT ![p] = Fresh]
    /\ UNCHANGED <<script, fds, offset, taken, failures>>

\* execv in the child.  access(X_OK) also accepts a directory; then execv
\* fails and the child returns into the command loop.
Exec(p) ==
    /\ Runs(p, "exec")
    /\ IF Found(mem[p], mem[p].argv[1]) = "program"
         THEN Becomes(p, "prog")
         ELSE /\ Set(p, Failed(mem[p]))
              /\ UNCHANGED <<script, proc, fds, offset, taken, failures>>

Zombies(p) == {c \in Children(p) : proc[c].kind = "zombie"}

\* A bug that must not happen: the shell does not wait.
NoWait(p) ==
    /\ Runs(p, "wait")
    /\ Set(p, Recorded(mem[p]))
    /\ UNCHANGED <<script, proc, fds, offset, taken, failures>>

\* wait(NULL): any child that ended.
Wait(p) ==
    /\ Runs(p, "wait")
    /\ \E c \in Zombies(p) : proc' = [proc EXCEPT ![c] = NoProc]
    /\ Set(p, Recorded(mem[p]))
    /\ UNCHANGED <<script, fds, offset, taken, failures>>

-----------------------------------------------------------------------------
(* Pipelines *)

PipeEnds(p, n) == {<<p, mem[p].line, k>> : k \in 1..(n - 1)} \X {"read", "write"}

\* The return code of a pipeline that is not run: empty segments and commands
\* that are not found are refused.  An alias that leaves nothing passes.
Refused(m, segs) ==
    \E k \in DOMAIN segs :
        \/ segs[k] \in {<<>>, BadQuote}
        \/ LET argv == searchAlias(m, segs[k])
           IN /\ argv # <<>> /\ argv[1] \notin Builtins
              /\ Found(m, argv[1]) = "none"

\* runPipe up to its first fork: parse, validate, expand, create the pipes.
Pipeline(p) ==
    /\ Take(p) /\ Len(Segments(p)) > 1
    /\ LET m    == Fetched(p)
           segs == Segments(p)
       IN \/ /\ Refused(m, segs)
             /\ Set(p, [m EXCEPT !.rc = 1])
             /\ UNCHANGED <<fds, failures>>
          \/ /\ ~Refused(m, segs)
             /\ CallFails
             /\ Set(p, [m EXCEPT !.rc = 1])
             /\ UNCHANGED fds
          \/ /\ ~Refused(m, segs)
             /\ Set(p, [m EXCEPT !.at = "spawn", !.i = 1, !.status = 0, !.pids = <<>>,
                                 !.segs = [k \in DOMAIN segs |-> searchAlias(m, segs[k])]])
             /\ fds' = [fds EXCEPT ![p] = PipeEnds(p, Len(segs))]
             /\ UNCHANGED failures
    /\ offset' = FileRead(p)
    /\ UNCHANGED <<script, proc>>

Forked(p) == mem[p].i > Len(mem[p].segs)
Dropped(m) == [m EXCEPT !.at = "read", !.segs = <<>>, !.i = 0, !.pids = <<>>, !.status = 0]

\* One fork per segment.  When one fails the pipes are closed and the
\* pipeline is given up; the children forked before it are not waited for.
Spawn(p) ==
    /\ Runs(p, "spawn") /\ ~Forked(p)
    /\ \/ Born(p, "segment")
       \/ /\ CallFails
          /\ Set(p, [Dropped(mem[p]) EXCEPT !.rc = 1, !.lost = @ \/ mem[p].i > 1])
          /\ fds' = [fds EXCEPT ![p] = {}]
          /\ UNCHANGED <<script, proc, offset, taken>>

\* A bug that must not happen: the shell keeps the write ends open.
CloseReadEnds(p) ==
    /\ Runs(p, "spawn") /\ Forked(p)
    /\ Set(p, [mem[p] EXCEPT !.at = "reap", !.i = 1])
    /\ fds' = [fds EXCEPT ![p] = {e \in @ : e[2] = "write"}]
    /\ UNCHANGED <<script, proc, offset, taken, failures>>

\* The parent closes every pipe end.
CloseAll(p) ==
    /\ Runs(p, "spawn") /\ Forked(p)
    /\ Set(p, [mem[p] EXCEPT !.at = "reap", !.i = 1])
    /\ fds' = [fds EXCEPT ![p] = {}]
    /\ UNCHANGED <<script, proc, offset, taken, failures>>

\* The pipe ends segment i of a pipeline is left with, among those it holds.
Own(p) == {e \in fds[p] : \/ e[1][3] = mem[p].i - 1 /\ e[2] = "read"
                          \/ e[1][3] = mem[p].i /\ e[2] = "write"}

\* dup2 and close in a child.
Redirect(p) ==
    /\ Runs(p, "segment")
    /\ Set(p, [mem[p] EXCEPT !.at = "run"])
    /\ fds' = [fds EXCEPT ![p] = Own(p)]
    /\ UNCHANGED <<script, proc, offset, taken, failures>>

\* Nobody can read what p writes.
NoReader(p) == \E e \in fds[p] : e[2] = "write" /\ \A q \in Pids : <<e[1], "read">> \notin fds[q]

\* The child runs a builtin and exits, becomes the program, or exits because
\* execv failed.  A null argv[0] and output nobody can read kill it.
RunSegment(p) ==
    /\ Runs(p, "run")
    /\ LET m    == mem[p]
           argv == m.segs[m.i]
       IN CASE argv = <<>> -> Killed(p)
            [] argv # <<>> /\ argv[1] \in Builtins ->
                 \/ NoReader(p) /\ Killed(p)
                 \/ \E r \in IF Exits(argv) THEN {m.rc} ELSE Result(m, argv) : Exit(p, r)
            [] OTHER -> IF Found(m, argv[1]) = "program" THEN Becomes(p, "prog") ELSE Exit(p, 1)

\* waitpid of the segments in order; the pipeline goes into a history that
\* exists already.
Reap(p) ==
    /\ Runs(p, "reap")
    /\ LET m == mem[p]
           c == m.pids[m.i]
       IN /\ proc[c].kind = "zombie"
          /\ proc' = [proc EXCEPT ![c] = NoProc]
          /\ LET status == IF proc[c].code = 0 THEN m.status ELSE 1
             IN IF m.i < Len(m.pids)
                  THEN Set(p, [m EXCEPT !.i = @ + 1, !.status = status])
                  ELSE Set(p, [Dropped(m) EXCEPT !.rc = status,
                                                 !.hist = da_put(@, m.line - 1)])
    /\ UNCHANGED <<script, fds, offset, taken, failures>>

-----------------------------------------------------------------------------
(* Programs: a program reads its input to the end and writes output that may
   fill the pipe, then exits with any code. *)

EndOfInput(p) == \A e \in fds[p] : e[2] = "read" =>
                    \A q \in Pids : <<e[1], "write">> \notin fds[q]

OutputGone(p) == \A e \in fds[p] : e[2] = "write" =>
                    \/ \A q \in Pids : <<e[1], "read">> \notin fds[q]
                    \/ \E q \in Pids : proc[q].kind = "prog" /\ <<e[1], "read">> \in fds[q]

ProgramEnds(p) ==
    /\ proc[p].kind = "prog" /\ EndOfInput(p) /\ OutputGone(p)
    /\ \E c \in {0, 1} : Exit(p, c)

-----------------------------------------------------------------------------
Step(p) ==
    \/ AtEof(p) \/ Line(p) \/ Leave(p) \/ Fork(p) \/ Exec(p) \/ Wait(p)
    \/ Pipeline(p) \/ Spawn(p) \/ CloseAll(p) \/ Redirect(p) \/ RunSegment(p) \/ Reap(p)
    \/ ProgramEnds(p)

Next == \E p \in Pids : Step(p)

\* Every process is scheduled and every program that can end does.
Spec == Init /\ [][Next]_vars /\ \A p \in Pids : WF_vars(Step(p))

-----------------------------------------------------------------------------
(* Properties *)

Places == {"read", "fork", "exec", "wait", "spawn", "segment", "run", "reap"}

\* Type correctness, and the history never holds more than it has room for.
TypeOK ==
    /\ proc \in [Pids -> [kind : {"none", "wsh", "prog", "zombie"},
                          parent : Pids \union {NoPid}, code : {0, 1, 139}]]
    /\ \A p \in Pids :
         /\ mem[p].at \in Places /\ mem[p].rc \in {0, 1} /\ mem[p].status \in {0, 1}
         /\ mem[p].line \in 1..(Len(script) + 1) /\ mem[p].end \in {0, Len(script)}
         /\ Len(mem[p].hist.data) <= mem[p].hist.capacity
         /\ \A e \in fds[p] : e[1][1] \in Pids /\ e[2] \in {"read", "write"}
    /\ offset \in 0..Len(script) /\ failures \in 0..Failures

\* How many members of S are at most i.
Rank(S, i) == Cardinality({j \in S : j <= i})

\* The history is a subsequence of the first n lines m took, with all those of
\* one command in it; s is the script.
Remembers(m, s, n) ==
    \E kept \in SUBSET (1..n) :
      /\ \A i \in 1..n : Len(s[m.log[i]]) = 1 => i \in kept
      /\ Len(m.hist.data) = Cardinality(kept)
      /\ \A i \in kept : m.hist.data[Rank(kept, i)] = m.log[i]

\* The history of every shell keeps all lines of one command that the shell
\* took, in order and each as often as it was taken, and no line it did not
\* take: whatever failed, however often the array grew, and in the children
\* that inherited it.  Pipelines may be missing from it, so this is less than
\* what is asked of the history (HistoryComplete).
HistoryKeepsCommands ==
    \A p \in Pids : Runs(p, "read") => Remembers(mem[p], script, Len(mem[p].log))

\* "the shell should print all the commands that have been entered so far, one
\* per line, in the order they were executed" (03_builtin_commands.md:283-285):
\* the history of a shell that reads is the lines it took.  runPipe does not
\* create a history (wsh.c:1060), and a pipeline that is refused or fails
\* returns before it is put in.
HistoryComplete == \A p \in Pids : Runs(p, "read") => mem[p].hist.data = mem[p].log

\* A shell that takes its next line has nothing left running: every command
\* was waited for, unless a pipeline was given up for want of a process.
Foreground ==
    \A p \in Pids : Runs(p, "read") /\ ~mem[p].lost => Children(p) = {} /\ fds[p] = {}

\* The alias table keeps the promise of a dictionary of names although names
\* share chains, and no child of the shell, in a pipeline or not, changes it.
AliasView   == [k \in Words |-> Alias(mem[Root], k)]
Names2Words == INSTANCE Dict WITH
    Keys <- Words, Values <- Words, Absent <- NoWord, dict <- AliasView

AliasesAreADict == [][proc'[Root].kind = "wsh"
                       => UNCHANGED AliasView \/ Names2Words!DictNext]_vars

\* The shell comes to its end: no pipeline waits for itself, because every
\* process closes the pipe ends it does not use.
ShellEnds == <>(proc[Root].kind = "zombie")

\* "read commands from script file line by line, execute each command and
\* repeat until EOF" (wsh.c:1173-1174): no line is executed more often than it
\* is in the file.  A segment of a pipeline that ends by exit() gives the
\* lines it inherited back to the file it shares with the shell.
EachLineOnce == \A l \in DOMAIN script : taken[l] <= 1
=============================================================================
