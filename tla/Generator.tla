------------------------------ MODULE Generator ------------------------------
(***************************************************************************)
(* The commands of gomyadmin that write files (internal/cli and            *)
(* internal/generator): init, demo, generate resource, generate            *)
(* from-schema and openapi, each a process of its own, all in one project  *)
(* directory.  A file takes four calls of the operating system (Stat,      *)
(* MkdirAll, open, write): each may fail, other commands run in between,   *)
(* and a command may be killed.                                            *)
(***************************************************************************)
EXTENDS Naturals, FiniteSets, Sequences, SequencesExt

CONSTANTS Commands,    \* processes, each runs one command
          Calls,       \* what they may have been started with
          Top, Inner,  \* names of the project's files, and of those further down
          Output,      \* the path openapi writes to
          Stems,       \* what the words in names of tables are made of
          User, Nothing,
          MaxFaults    \* how many calls fail or commands are killed

\* Two directories stand for all: the project's own, and backend/internal/admin.
Dirs == {"root", "admin"}
Words == [stem : Stems, plural : BOOLEAN]

ASSUME GeneratorAssumption ==
  /\ MaxFaults \in Nat
  /\ User \notin Commands /\ Nothing \notin Commands \union {User}
  /\ Output.dir \in Dirs
  /\ \A c \in Calls :
       /\ c.cmd \in {"init", "demo", "resource", "schema", "openapi"}
       /\ c.force \in BOOLEAN /\ c.names \in Seq(Seq(Words))
       /\ c.force => c.cmd \in {"resource", "schema"}

VARIABLES
  call,    \* call[p]: [cmd, force, names], the name of a resource or of tables
  disk,    \* disk[f]: the file at path f, or Nothing
  dirs,    \* the directories that exist
  run,     \* run[p]: the local variables of p
  faults,
  before,  \* ghost: before[p]: the paths with a file ever since p began
  during   \* ghost: during[p]: the commands that ran while p did

generatorVars == <<call, disk, dirs, run, faults, before, during>>

\* A path is a directory and a name in it.
Project == {[dir |-> "root", name |-> n] : n \in Top} \union {[dir |-> "admin", name |-> n] : n \in Inner}

\* A name is a sequence of words; the words of a table are made singular.
singularize(word) == [word EXCEPT !.plural = FALSE]

tableToResourceName(table) == [k \in DOMAIN table |-> singularize(table[k])]

resourceFileName(name) == [dir |-> "admin", name |-> name]

FileOf(c, name) ==
  resourceFileName(IF c.cmd = "schema" THEN tableToResourceName(name) ELSE name)

\* The names of resources end in _resource.go, and those of the project do not.
ASSUME NamesAssumption ==
  \A c \in Calls : \A name \in ToSet(c.names) : FileOf(c, name) \notin Project

Paths == Project \union {Output} \union
         UNION {{FileOf(c, name) : name \in ToSet(c.names)} : c \in Calls}

Parents(f) == {"root", f.dir}
There == {f \in Paths : disk[f] # Nothing}
Empty == There = {} /\ "admin" \notin dirs

\* at is the place in the list of tables; reported are the places of those
\* said to be generated; handle is what was opened, by who made it.
\* made is the file behind the path, by whose write was the last, and of the
\* table it was for.
File == [made : Commands \union {User}, by : Commands \union {User}, of : Seq(Words), whole : BOOLEAN]
Local == [pc : {"idle", "check", "mkroot", "table", "stat", "mkdir", "open", "write", "rollback", "over"},
          outcome : {"none", "created", "ready", "ok", "failed", "killed"},
          todo : SUBSET Project, at : Nat \ {0}, target : Paths \union {Nothing},
          handle : Commands \union {User, Nothing}, written : Seq(Project),
          reported : SUBSET Nat, cwd : BOOLEAN]

ASSUME NothingAssumption == Nothing \notin File

GeneratorTypeOK ==
  /\ call \in [Commands -> Calls]
  /\ disk \in [Paths -> File \union {Nothing}]
  /\ dirs \subseteq Dirs /\ faults \in 0 .. MaxFaults
  /\ \A f \in There : f.dir \in dirs
  /\ run \in [Commands -> Local]
  /\ before \in [Commands -> SUBSET Paths]
  /\ during \in [Commands -> SUBSET Commands]

GeneratorInit ==
  /\ call \in [Commands -> Calls]
  /\ dirs \in {{}, {"root"}, Dirs}
  /\ \E there \in SUBSET {f \in Paths : f.dir \in dirs} :
       disk = [f \in Paths |->
                IF f \in there THEN [made |-> User, by |-> User, of |-> <<>>, whole |-> TRUE] ELSE Nothing]
  /\ run = [p \in Commands |->
             [pc |-> "idle", outcome |-> "none", todo |-> {}, at |-> 1,
              target |-> Nothing, handle |-> Nothing, written |-> <<>>, reported |-> {}, cwd |-> TRUE]]
  /\ faults = 0
  /\ before = [p \in Commands |-> {}]
  /\ during = [p \in Commands |-> {}]

-----------------------------------------------------------------------------
Running(p) == run[p].pc \notin {"idle", "over"}
Creates(p) == call[p].cmd \in {"init", "demo"}

\* init and demo are started beside the project, the others in its directory,
\* which a rollback may take from under them.
Lost(p) == ~Creates(p) /\ ~run[p].cwd

\* The local variables of p become r.
Becomes(p, r) == run' = [run EXCEPT ![p] = r]

Over(r, outcome) == [r EXCEPT !.pc = "over", !.outcome = outcome]

\* Arguments that are no good end a command before this.
Begin(p, r) ==
  /\ run[p].pc = "idle"
  /\ Becomes(p, r)
  /\ before' = [before EXCEPT ![p] = There]
  /\ during' = [q \in Commands |->
                 IF q = p THEN {o \in Commands : Running(o)}
                 ELSE IF Running(q) THEN during[q] \union {p} ELSE during[q]]
  /\ UNCHANGED <<call, disk, dirs, faults>>

InitProject(p) == [run[p] EXCEPT !.pc = "check", !.todo = Project]

runInit(p) == call[p].cmd = "init" /\ Begin(p, InitProject(p))

\* A directory of that name, whatever is in it, is a demo that is ready.
runDemo(p) ==
  /\ call[p].cmd = "demo"
  /\ Begin(p, IF "root" \in dirs THEN Over(run[p], "ready") ELSE InitProject(p))

runGenerate(p) ==
  /\ call[p].cmd \in {"resource", "schema"} /\ "root" \in dirs
  /\ Begin(p, [run[p] EXCEPT !.pc = "table"])

\* openapi asks nobody whether the file is there.
runOpenAPI(p) ==
  /\ call[p].cmd = "openapi" /\ "root" \in dirs
  /\ Begin(p, [run[p] EXCEPT !.pc = "open", !.target = Output])

-----------------------------------------------------------------------------
\* What every step below leaves alone.
Others == UNCHANGED <<call, during>>

\* ensureNoConflicts, one file after the other, in the order of a map.
NoConflict(p, f) ==
  /\ run[p].pc = "check" /\ f \in run[p].todo /\ disk[f] = Nothing
  /\ LET todo == run[p].todo \ {f}
     IN Becomes(p, IF todo = {} THEN [run[p] EXCEPT !.pc = "mkroot", !.todo = Project]
                                ELSE [run[p] EXCEPT !.todo = todo])
  /\ UNCHANGED <<disk, dirs, faults, before>> /\ Others

Conflict(p, f) ==
  /\ run[p].pc = "check" /\ f \in run[p].todo /\ disk[f] # Nothing
  /\ Becomes(p, Over(run[p], "failed"))
  /\ UNCHANGED <<disk, dirs, faults, before>> /\ Others

\* From here on InitProject rolls back what it has written.
MakeRoot(p) ==
  /\ run[p].pc = "mkroot"
  /\ dirs' = dirs \union {"root"}
  /\ Becomes(p, [run[p] EXCEPT !.pc = "stat"])
  /\ UNCHANGED <<disk, faults, before>> /\ Others

\* The loop over the tables has one for p; its name.
More(p) == run[p].at <= Len(call[p].names)
Table(p) == call[p].names[run[p].at]

\* GenerateResource makes its directory before it looks for the file.
NextTable(p) ==
  /\ run[p].pc = "table" /\ More(p) /\ ~Lost(p)
  /\ dirs' = dirs \union Dirs
  /\ Becomes(p, [run[p] EXCEPT !.pc = "stat", !.target = FileOf(call[p], Table(p))])
  /\ UNCHANGED <<disk, faults, before>> /\ Others

AllTables(p) ==
  /\ run[p].pc = "table" /\ ~More(p)
  /\ Becomes(p, Over(run[p], "ok"))
  /\ UNCHANGED <<disk, dirs, faults, before>> /\ Others

\* (wrong variant: the error of writeFile is dropped)
Failing_Ignored(p) ==
  IF Creates(p) /\ run[p].todo # {run[p].target}
  THEN [run[p] EXCEPT !.pc = "stat", !.todo = @ \ {run[p].target}]
  ELSE Over(run[p], IF Creates(p) THEN "created" ELSE "failed")

\* (wrong variant: no continue after the error of a table)
Failing_Reported(p) ==
  CASE Creates(p) -> [run[p] EXCEPT !.pc = "rollback"]
    [] call[p].cmd = "schema" ->
         [run[p] EXCEPT !.pc = "table", !.at = @ + 1, !.reported = @ \union {run[p].at}]
    [] OTHER -> Over(run[p], "failed")

\* What a command does about an error of writeFile.
Failing(p) ==
  CASE Creates(p) -> [run[p] EXCEPT !.pc = "rollback"]
    [] call[p].cmd = "schema" -> [run[p] EXCEPT !.pc = "table", !.at = @ + 1]
    [] OTHER -> Over(run[p], "failed")

\* What it does about the success.
Succeeding(p) ==
  LET r == run[p]
  IN CASE Creates(p) ->
            IF r.todo = {r.target} THEN Over([r EXCEPT !.todo = {}], "created")
            ELSE [r EXCEPT !.pc = "stat", !.todo = @ \ {r.target}, !.written = Append(@, r.target)]
       [] call[p].cmd = "schema" ->
            [r EXCEPT !.pc = "table", !.at = @ + 1, !.reported = @ \union {r.at}]
       [] OTHER -> Over(r, "ok")

\* writeFile.  An init takes its files in the order of a map.
Targets(p) == IF Creates(p) THEN run[p].todo ELSE {run[p].target}

\* (wrong variant: no Stat before the write)
Absent_Unasked(p, f) == TRUE

Absent(p, f) == disk[f] = Nothing \/ call[p].force \/ Lost(p)

StatAbsent(p, f) ==
  /\ run[p].pc = "stat" /\ f \in Targets(p) /\ Absent(p, f)
  /\ Becomes(p, [run[p] EXCEPT !.pc = "mkdir", !.target = f])
  /\ UNCHANGED <<disk, dirs, faults, before>> /\ Others

StatExists(p, f) ==
  /\ run[p].pc = "stat" /\ f \in Targets(p) /\ ~Absent(p, f)
  /\ Becomes(p, Failing(p))
  /\ UNCHANGED <<disk, dirs, faults, before>> /\ Others

MakeParents(p) ==
  /\ run[p].pc = "mkdir" /\ ~Lost(p)
  /\ dirs' = dirs \union Parents(run[p].target)
  /\ Becomes(p, [run[p] EXCEPT !.pc = "open"])
  /\ UNCHANGED <<disk, faults, before>> /\ Others

\* O_CREATE and O_TRUNC: a file that is there by now is emptied.
Open(p) ==
  LET f == run[p].target
      made == IF disk[f] = Nothing THEN p ELSE disk[f].made
  IN /\ run[p].pc = "open" /\ f.dir \in dirs /\ ~Lost(p)
     /\ disk' = [disk EXCEPT ![f] = [made |-> made, by |-> p, of |-> <<>>, whole |-> FALSE]]
     /\ Becomes(p, [run[p] EXCEPT !.pc = "write", !.handle = made])
     /\ UNCHANGED <<dirs, faults, before>> /\ Others

\* A rollback has taken the directory away.
DirectoryGone(p) ==
  /\ \/ run[p].pc = "open" /\ (run[p].target.dir \notin dirs \/ Lost(p))
     \/ run[p].pc = "mkdir" /\ Lost(p)
     \/ run[p].pc = "table" /\ More(p) /\ Lost(p)
  /\ Becomes(p, Failing(p))
  /\ UNCHANGED <<disk, dirs, faults, before>> /\ Others

\* The content goes to the file that was opened, even if its path is gone.
Write(p) ==
  LET f == run[p].target
  IN /\ run[p].pc = "write"
     /\ disk' = IF disk[f] # Nothing /\ disk[f].made = run[p].handle
                THEN [disk EXCEPT ![f].by = p, ![f].whole = TRUE,
                                  ![f].of = IF More(p) THEN Table(p) ELSE <<>>]
                ELSE disk
     /\ Becomes(p, Succeeding(p))
     /\ UNCHANGED <<dirs, faults, before>> /\ Others

\* Any of these calls fails; a write may have stored a part by then.
Fails(p) ==
  /\ faults < MaxFaults
  /\ run[p].pc \in {"check", "mkroot", "table", "mkdir", "open", "write"}
  /\ run[p].pc = "table" => More(p)
  /\ faults' = faults + 1
  /\ Becomes(p, IF run[p].pc \in {"check", "mkroot"} THEN Over(run[p], "failed") ELSE Failing(p))
  /\ UNCHANGED <<disk, dirs, before>> /\ Others

-----------------------------------------------------------------------------
\* The deferred function of InitProject: the written files, the last first.
Removed(f) ==
  /\ disk' = [disk EXCEPT ![f] = Nothing]
  /\ before' = [p \in Commands |-> before[p] \ {f}]

\* (wrong variant: the loop ends before the first file)
RemoveWritten_ButFirst(p) ==
  /\ run[p].pc = "rollback" /\ run[p].written # <<>>
  /\ IF Len(run[p].written) > 1 THEN Removed(Last(run[p].written)) ELSE UNCHANGED <<disk, before>>
  /\ Becomes(p, [run[p] EXCEPT !.written = Front(@)])
  /\ UNCHANGED <<dirs, faults>> /\ Others

RemoveWritten(p) ==
  /\ run[p].pc = "rollback" /\ run[p].written # <<>>
  /\ Removed(Last(run[p].written))
  /\ Becomes(p, [run[p] EXCEPT !.written = Front(@)])
  /\ UNCHANGED <<dirs, faults>> /\ Others

RemoveFails(p) ==
  /\ run[p].pc = "rollback" /\ run[p].written # <<>> /\ faults < MaxFaults
  /\ faults' = faults + 1
  /\ Becomes(p, [run[p] EXCEPT !.written = Front(@)])
  /\ UNCHANGED <<disk, dirs, before>> /\ Others

\* os.Remove takes a directory only when it is empty; its errors go unseen.
RemoveRoot(p) ==
  /\ run[p].pc = "rollback" /\ run[p].written = <<>>
  /\ dirs' = IF Empty THEN {} ELSE dirs
  /\ run' = [q \in Commands |->
              IF q = p THEN Over(run[p], "failed") ELSE [run[q] EXCEPT !.cwd = @ /\ ~(Empty /\ Running(q))]]
  /\ UNCHANGED <<disk, faults, before>> /\ Others

Killed(p) ==
  /\ Running(p) /\ faults < MaxFaults
  /\ faults' = faults + 1
  /\ Becomes(p, Over(run[p], "killed"))
  /\ UNCHANGED <<disk, dirs, before>> /\ Others

Step(p) ==
  \/ runInit(p) \/ runDemo(p) \/ runGenerate(p) \/ runOpenAPI(p)
  \/ \E f \in Paths : NoConflict(p, f) \/ Conflict(p, f) \/ StatAbsent(p, f) \/ StatExists(p, f)
  \/ MakeRoot(p) \/ NextTable(p) \/ AllTables(p)
  \/ MakeParents(p) \/ Open(p) \/ DirectoryGone(p) \/ Write(p) \/ Fails(p)
  \/ RemoveWritten(p) \/ RemoveFails(p) \/ RemoveRoot(p) \/ Killed(p)

GeneratorNext == \E p \in Commands : Step(p)

GeneratorSpec == GeneratorInit /\ [][GeneratorNext]_generatorVars

-----------------------------------------------------------------------------
\* Without --force no file that was there when a command began is touched by
\* it, by its writes or by its rollback; with --force only the files of the
\* names it was given; openapi's own output aside (Stat before WriteFile, and
\* the list of written files).
KeepsWhatWasThere ==
  [][\A p \in Commands : \A f \in before[p] \ {Output} :
       run[p] # run'[p] /\ disk[f] # disk'[f] =>
         call[p].force /\ \E name \in ToSet(call[p].names) : f = FileOf(call[p], name)]_generatorVars

\* "Created": every file of the project is there and whole, if no other init
\* that ran at the same time failed; and it stays there, whole unless openapi
\* is told to write to the very file (InitProject).
CreatedIsComplete ==
  \A p \in Commands :
    run[p].outcome = "created"
    /\ (\A q \in during[p] : Creates(q) => run[q].outcome = "created") =>
      \A f \in Project : disk[f] # Nothing /\ (f # Output => disk[f].whole)

\* What a failed init leaves, beside directories, is at most one file for each
\* call that has failed, the one it could not finish or could not remove (the
\* failures of other commands count as well); whatever others did meanwhile (the order of writing and remembering,
\* and the deferred removal).
FailureCleansUp ==
  \A p \in Commands :
    run[p].outcome = "failed" /\ Creates(p) =>
      Cardinality({f \in There : disk[f].made = p}) <= faults

\* "generated X (table: T)": when from-schema is done, the file of T is whole
\* and T's own, unless --force has let a later table of the same resource
\* name take it, or openapi has (the continue after an error, and names made singular).
ReportIsTrue ==
  [][\A p \in Commands :
       call[p].cmd = "schema" /\ run[p].outcome = "none" /\ run'[p].outcome = "ok"
       /\ (\A q \in during[p] : call[q].cmd \notin {"schema", "resource"}) =>
         LET names == call[p].names
         IN \A k \in DOMAIN names :
              k \in run[p].reported /\ FileOf(call[p], names[k]) # Output
              /\ (call[p].force => \A j \in k + 1 .. Len(names) :
                    FileOf(call[p], names[j]) # FileOf(call[p], names[k])) =>
                LET file == disk[FileOf(call[p], names[k])]
                IN file # Nothing /\ file.whole /\ file.by = p /\ file.of = names[k]]_generatorVars
=============================================================================
