------------------------------ MODULE Indexer ------------------------------
(***************************************************************************)
(* How changes of files reach the index (daemon/folder/meta):              *)
(* DirectoryWatcher and DirectoryPoller name paths, IndexerQueue keeps one  *)
(* task for each, IndexerWorkers on its thread pool read the files and the   *)
(* main thread stores what they made.  Users change files at any time, and   *)
(* AssemblerWorkers put files of received Metas in place; Assembler says     *)
(* where they take them from.                                                *)
(*                                                                         *)
(* A content is a number; files are regular ones.  Times are in seconds, as   *)
(* boost::filesystem::last_write_time has them.                              *)
(***************************************************************************)
EXTENDS Naturals, FiniteSets

CONSTANTS
    Path,
    Worker,         \* bound: IndexerWorker objects that exist at a time
    Assembler,      \* bound: AssemblerWorkers of a path that exist at a time
    None,           \* in the place of a worker or a Meta that is not there
    MaxThreads,     \* maxThreadCount of threadpool_
    MoveEvents,     \* how many events moving a file into place may cause
    SentMtimes,     \* mtimes that Metas of other nodes have
    MaxVersions,    \* bound: contents that users write and other nodes send
    MaxTime,        \* bound: seconds that pass
    MaxRetries,     \* bound: how often the timer has a Meta assembled whose path
                    \* still has an AssemblerWorker
    MaxEvents       \* bound: events of a path that are queued when a user changes it

ASSUME BoundsAssumption ==
    MaxThreads \in Nat \ {0} /\ MoveEvents \subseteq Nat
    /\ MaxVersions \in Nat /\ MaxTime \in Nat \ {0} /\ MaxEvents \in Nat /\ MaxRetries \in Nat
    /\ SentMtimes \subseteq 1 .. MaxTime

VARIABLES
    now,            \* the time
    versions,       \* how many contents there were
    file,           \* content of each path, 0 if there is no file, and its mtime
    index,          \* the path's row of table meta: content, 0 if it is DELETED,
                    \* mtime, and whether it is assembled
    tasks,          \* tasks_
    worker,         \* the IndexerWorkers
    is_indexing,    \* what the StateCollector was told
    events,         \* how many events of dir_monitor are queued for each path
    prepared,       \* prepared_assemble_, a multiset
    assembling,     \* the AssemblerWorkers of each path: the content and mtime of
                    \* the Meta that they put in place, and how far they are
    retries,        \* how many retries there were while a worker was there
    received,       \* history: contents that other nodes sent
    removed,        \* history: paths that a user removed
    misled,         \* history: paths whose mtime could not tell a change
    overlapped      \* history: paths at which workers met, the index not having
                    \* been found right since

diskVars == <<now, versions, file, events>>
queueVars == <<tasks, worker, is_indexing>>
historyVars == <<received, removed, misled, overlapped>>
vars == <<diskVars, index, queueVars, prepared, assembling, retries, historyVars>>

Free == [pc |-> "free"]
NoFile == [content |-> 0, mtime |-> 0]
Mixed == MaxVersions + 1        \* a content of parts of two versions

At(w, pc) == worker[w].pc = pc

Workers(p) == {w \in Worker : ~At(w, "free") /\ worker[w].path = p}

\* A worker has begun with the path.
InProgress(p) == \E w \in Workers(p) : ~At(w, "queued")

\* There is an AssemblerWorker of the path.
Assembling(p) == \E a \in Assembler : assembling[p][a] # None

\* The index is right about the path, and no worker is going to change that.
AtRest(p) ==
    /\ ~InProgress(p)
    /\ ~Assembling(p)
    /\ index[p] # None
    /\ index[p].content = file[p].content
    /\ index[p].mtime = file[p].mtime

Init ==
    /\ now = 1
    /\ versions = 0
    /\ file = [p \in Path |-> NoFile]
    /\ index = [p \in Path |-> None]
    /\ tasks = [p \in Path |-> None]
    /\ worker = [w \in Worker |-> Free]
    /\ is_indexing = FALSE
    /\ events = [p \in Path |-> 0]
    /\ prepared = [p \in Path |-> 0]
    /\ assembling = [p \in Path |-> [a \in Assembler |-> None]]
    /\ retries = 0
    /\ received = {}
    /\ removed = {}
    /\ misled = {}
    /\ overlapped = {}
-----------------------------------------------------------------------------
\* A change to content c with mtime m cannot be told from an older state: a Meta
\* that is, or is about to be, in the index has that mtime and another content, or
\* a worker has read the old content and not yet the mtime.
Misleads(p, c, m) ==
    \/ index[p] # None /\ index[p].mtime = m /\ index[p].content # c
    \/ \E w \in Workers(p) :
        \/ At(w, "created") /\ worker[w].mtime = m /\ worker[w].content # c
        \/ At(w, "read")
        \/ At(w, "attrib")

\* Time goes on.
Tick ==
    /\ now < MaxTime
    /\ now' = now + 1
    /\ UNCHANGED <<versions, file, events, index, queueVars, prepared, assembling,
                   retries, historyVars>>

\* A user writes the file.
Write(p) ==
    /\ versions < MaxVersions
    /\ events[p] < MaxEvents
    /\ versions' = versions + 1
    /\ file' = [file EXCEPT ![p] = [content |-> versions + 1, mtime |-> now]]
    /\ events' = [events EXCEPT ![p] = @ + 1]
    /\ misled' = IF Misleads(p, versions + 1, now) THEN misled \cup {p} ELSE misled
    /\ UNCHANGED <<now, index, queueVars, prepared, assembling, retries, received,
                   removed, overlapped>>

\* A user removes the file.
Remove(p) ==
    /\ file[p].content # 0
    /\ events[p] < MaxEvents
    /\ file' = [file EXCEPT ![p] = NoFile]
    /\ events' = [events EXCEPT ![p] = @ + 1]
    /\ removed' = removed \cup {p}
    /\ UNCHANGED <<now, versions, index, queueVars, prepared, assembling, retries,
                   received, misled, overlapped>>
-----------------------------------------------------------------------------
\* A worker that is replaced: threadpool_->cancel takes it from the pool if
\* it has not started, stop() asks it to end if it has.
Stopped(x) == IF x.pc = "queued" THEN Free ELSE [x EXCEPT !.active = FALSE]

NewWorker(p) ==
    [pc |-> "queued", path |-> p, active |-> TRUE, old |-> None, content |-> 0, mtime |-> 0]

\* The ways to give each of the paths a new worker of its own.
Assignments(paths) ==
    {f \in [paths -> {w \in Worker : At(w, "free")}] :
        \A p \in paths, q \in paths : f[p] = f[q] => p = q}

\* IndexerQueue::addIndexing of some paths, each with a new worker, no matter
\* which.
AddIndexing(paths) ==
    /\ Assignments(paths) # {}
    /\ LET new == CHOOSE f \in Assignments(paths) : TRUE
       IN  /\ tasks' = [p \in Path |-> IF p \in paths THEN new[p] ELSE tasks[p]]
           /\ worker' = [w \in Worker |->
                CASE \E p \in paths : new[p] = w -> NewWorker(CHOOSE p \in paths : new[p] = w)
                  [] \E p \in paths : tasks[p] = w -> Stopped(worker[w])
                  [] OTHER -> worker[w]]
    /\ is_indexing' = (is_indexing \/ \E p \in paths : \A q \in Path \ {p} : tasks[q] = None)

\* Index::getIncompleteMeta and Index::getExistingMeta.
Incomplete(p) == index[p] # None /\ index[p].content # 0 /\ ~index[p].assembled
Existing(p) == index[p] # None /\ index[p].content # 0 /\ index[p].assembled

\* Faulty: files that are gone are not looked for.
MutReindexList == {p \in Path : file[p].content # 0 /\ ~Incomplete(p)}

\* DirectoryPoller::getReindexList.
ReindexList == {p \in Path : (file[p].content # 0 /\ ~Incomplete(p)) \/ Existing(p)}

\* DirectoryPoller::addPathsToQueue.
Poll ==
    /\ AddIndexing(ReindexList)
    /\ UNCHANGED <<diskVars, index, prepared, assembling, retries, historyVars>>

\* Faulty: an event is taken off prepared_assemble_ whether it is there or not.
MutHandleDirEvent(p) ==
    /\ events[p] > 0
    /\ events' = [events EXCEPT ![p] = @ - 1]
    /\ prepared' = [prepared EXCEPT ![p] = @ - 1]
    /\ UNCHANGED <<now, versions, file, index, queueVars, assembling, retries, historyVars>>

\* DirectoryWatcher::handleDirEvent: an event that was prepared for is skipped.
HandleDirEvent(p) ==
    /\ events[p] > 0
    /\ events' = [events EXCEPT ![p] = @ - 1]
    /\ \/ /\ prepared[p] > 0
          /\ prepared' = [prepared EXCEPT ![p] = @ - 1]
          /\ UNCHANGED queueVars
       \/ /\ prepared[p] = 0
          /\ AddIndexing({p})
          /\ UNCHANGED prepared
    /\ UNCHANGED <<now, versions, file, index, assembling, retries, historyVars>>
-----------------------------------------------------------------------------
\* A worker goes on to pc.
Goto(w, pc) == worker' = [worker EXCEPT ![w].pc = pc]

workerUnchanged == <<diskVars, index, tasks, is_indexing, prepared, assembling, retries>>

Running == {w \in Worker : worker[w].pc \in {"check", "type", "open", "read", "attrib"}}

\* IndexerWorker::run on a thread of the pool: the Meta that is in the index.
StartWorker(w) ==
    /\ At(w, "queued")
    /\ Cardinality(Running) < MaxThreads
    /\ worker' = [worker EXCEPT ![w].pc = "check", ![w].old = index[worker[w].path]]
    /\ overlapped' = CASE Assembling(worker[w].path) -> overlapped \cup {worker[w].path}
                       [] AtRest(worker[w].path) -> overlapped \ {worker[w].path}
                       [] OTHER -> overlapped
    /\ UNCHANGED <<workerUnchanged, received, removed, misled>>

\* metaFailed is emitted.
Fail(w) == worker' = [worker EXCEPT ![w] = [NewWorker(worker[w].path) EXCEPT !.pc = "failed"]]

\* metaCreated is emitted, with a Meta of this content and mtime.
Create(w, c, m) ==
    worker' = [worker EXCEPT ![w] =
        [NewWorker(worker[w].path) EXCEPT !.pc = "created", !.content = c, !.mtime = m]]

\* "Modification time is not changed".
CheckMtime(w) ==
    /\ At(w, "check")
    /\ LET f == file[worker[w].path]
           old == worker[w].old
       IN  IF old # None /\ f.content # 0 /\ f.mtime = old.mtime THEN Fail(w) ELSE Goto(w, "type")
    /\ UNCHANGED <<workerUnchanged, historyVars>>

\* make_Meta, get_type: a missing file makes a DELETED Meta, without attributes,
\* if there was one before that was not.
GetType(w) ==
    /\ At(w, "type")
    /\ LET old == worker[w].old IN
       IF file[worker[w].path].content # 0
       THEN worker' = [worker EXCEPT ![w].pc = "open", ![w].old = None]
       ELSE IF old = None \/ old.content = 0 THEN Fail(w) ELSE Create(w, 0, 0)
    /\ UNCHANGED <<workerUnchanged, historyVars>>

\* update_chunks opens the file.
OpenFile(w) ==
    /\ At(w, "open")
    /\ LET f == file[worker[w].path] IN
       IF f.content = 0 THEN Fail(w)
       ELSE worker' = [worker EXCEPT ![w].content = f.content, ![w].pc = "read"]
    /\ UNCHANGED <<workerUnchanged, historyVars>>

\* update_chunks reads it.  What changes meanwhile may be seen, or in part.
ReadFile(w) ==
    /\ At(w, "read")
    /\ worker[w].active
    /\ LET f == file[worker[w].path] IN
       \E c \in IF f.content \in {0, worker[w].content} THEN {worker[w].content}
                ELSE {worker[w].content, f.content, Mixed} :
            worker' = [worker EXCEPT ![w].content = c, ![w].pc = "attrib"]
    /\ UNCHANGED <<workerUnchanged, historyVars>>

\* "Indexing had been interruped".
Interrupted(w) ==
    /\ At(w, "read")
    /\ ~worker[w].active
    /\ Fail(w)
    /\ UNCHANGED <<workerUnchanged, historyVars>>

\* update_fsattrib; last_write_time throws if the file has gone.
UpdateFsattrib(w) ==
    /\ At(w, "attrib")
    /\ LET f == file[worker[w].path] IN
       IF f.content = 0 THEN Fail(w) ELSE Create(w, worker[w].content, f.mtime)
    /\ UNCHANGED <<workerUnchanged, historyVars>>

\* The task of the path is taken off, whichever worker has it, and the
\* worker deleted.
Finish(w) ==
    /\ tasks' = [tasks EXCEPT ![worker[w].path] = None]
    /\ worker' = [worker EXCEPT ![w] = Free]
    /\ is_indexing' = (is_indexing /\ \E p \in Path : tasks'[p] # None)

\* IndexerQueue::metaCreated.
MetaCreated(w) ==
    /\ At(w, "created")
    /\ Finish(w)
    /\ index' = [index EXCEPT ![worker[w].path] =
            [content |-> worker[w].content, mtime |-> worker[w].mtime, assembled |-> TRUE]]
    /\ UNCHANGED <<diskVars, prepared, assembling, retries, historyVars>>

\* Faulty: the task stays when a file is skipped.
MutMetaFailed(w) ==
    /\ At(w, "failed")
    /\ worker' = [worker EXCEPT ![w] = Free]
    /\ UNCHANGED <<diskVars, index, tasks, is_indexing, prepared, assembling, retries,
                   historyVars>>

\* IndexerQueue::metaFailed.
MetaFailed(w) ==
    /\ At(w, "failed")
    /\ Finish(w)
    /\ UNCHANGED <<diskVars, index, prepared, assembling, retries, historyVars>>
-----------------------------------------------------------------------------
\* AssemblerQueue::addAssemble: another worker, whatever others of the path are at.
AddAssemble(p, c, m) ==
    /\ \E a \in Assembler : assembling[p][a] = None
    /\ LET new == CHOOSE a \in Assembler : assembling[p][a] = None
       IN  assembling' = [assembling EXCEPT ![p][new] =
                [content |-> c, mtime |-> m, pc |-> "archive"]]
    /\ overlapped' = IF InProgress(p) \/ Assembling(p) THEN overlapped \cup {p} ELSE overlapped

\* A Meta is received (MetaDownloader) with this content and mtime, while older ones
\* may still be assembled.
PutMeta(p, c, m) ==
    /\ versions < MaxVersions
    /\ versions' = versions + 1
    /\ index' = [index EXCEPT ![p] = [content |-> c, mtime |-> m, assembled |-> FALSE]]
    /\ AddAssemble(p, c, m)
    /\ UNCHANGED <<now, file, events, queueVars, prepared, retries, removed, misled>>

\* It is of a file, or DELETED.
PutFile(p, m) == PutMeta(p, versions + 1, m) /\ received' = received \cup {versions + 1}
PutDeleted(p) == PutMeta(p, 0, 0) /\ UNCHANGED received

\* AssemblerQueue::periodic_assemble_operation tries it again.
PeriodicAssemble(p) ==
    /\ Incomplete(p)
    /\ AddAssemble(p, index[p].content, index[p].mtime)
    /\ retries' = IF Assembling(p) THEN retries + 1 ELSE retries
    /\ retries' <= MaxRetries
    /\ UNCHANGED <<diskVars, index, queueVars, prepared, received, removed, misled>>

Assembles(p, a, pc) == assembling[p][a] # None /\ assembling[p][a].pc = pc

\* DirectoryWatcher::prepareAssemble, from assemble_file for a FILE and from
\* Archive::archive for a DELETED one.
PrepareAssemble(type, exists) ==
    IF type = "DELETED" THEN 1 ELSE 3 + IF exists THEN 1 ELSE 0

\* AssemblerWorker::assemble_file up to Archive::archive, or assemble_deleted: the
\* old file is taken away, and events are prepared for, be there a file or not.
ArchiveOld(p, a) ==
    /\ Assembles(p, a, "archive")
    /\ LET exists == file[p].content # 0
           type == IF assembling[p][a].content = 0 THEN "DELETED" ELSE "FILE"
       IN  /\ prepared' = [prepared EXCEPT ![p] = @ + PrepareAssemble(type, exists)]
           /\ events' = [events EXCEPT ![p] = @ + IF exists THEN 1 ELSE 0]
           /\ assembling' = [assembling EXCEPT ![p][a].pc =
                    IF type = "DELETED" THEN "mark" ELSE "move"]
    /\ file' = [file EXCEPT ![p] = NoFile]
    /\ UNCHANGED <<now, versions, index, queueVars, retries, historyVars>>

\* Faulty: the file is not given the mtime of its Meta.
MutAssembledMtime(p, a) == now

\* last_write_time of the temporary file, before it is moved.
AssembledMtime(p, a) == assembling[p][a].mtime

\* QFile::rename to the final location.  The events RENAMED (NEW NAME) and perhaps
\* MODIFIED follow.
MoveNew(p, a) ==
    /\ Assembles(p, a, "move")
    /\ file[p].content = 0
    /\ file' = [file EXCEPT ![p] =
            [content |-> assembling[p][a].content, mtime |-> AssembledMtime(p, a)]]
    /\ \E k \in MoveEvents : events' = [events EXCEPT ![p] = @ + k]
    /\ assembling' = [assembling EXCEPT ![p][a].pc = "mark"]
    /\ misled' = IF Misleads(p, assembling[p][a].content, AssembledMtime(p, a))
                 THEN misled \cup {p} ELSE misled
    /\ UNCHANGED <<now, versions, index, queueVars, prepared, retries, received, removed,
                   overlapped>>

\* It fails, for a user or another worker has put a file there: abort_assembly.
MoveFails(p, a) ==
    /\ Assembles(p, a, "move")
    /\ file[p].content # 0
    /\ assembling' = [assembling EXCEPT ![p][a] = None]
    /\ UNCHANGED <<diskVars, index, queueVars, prepared, retries, historyVars>>

\* markAssembled, Index::setAssembled: whichever Meta the path's row has by now.
MarkAssembled(p, a) ==
    /\ Assembles(p, a, "mark")
    /\ index' = [index EXCEPT ![p].assembled = TRUE]
    /\ assembling' = [assembling EXCEPT ![p][a] = None]
    /\ UNCHANGED <<diskVars, queueVars, prepared, retries, historyVars>>

AssemblerStep(p, a) ==
    \/ ArchiveOld(p, a)
    \/ MoveNew(p, a)
    \/ MoveFails(p, a)
    \/ MarkAssembled(p, a)

WorkerStep(w) ==
    \/ CheckMtime(w)
    \/ GetType(w)
    \/ OpenFile(w)
    \/ ReadFile(w)
    \/ Interrupted(w)
    \/ UpdateFsattrib(w)
    \/ MetaCreated(w)
    \/ MetaFailed(w)

Next ==
    \/ Tick
    \/ Poll
    \/ \E p \in Path :
        \/ Write(p)
        \/ Remove(p)
        \/ HandleDirEvent(p)
        \/ \E m \in SentMtimes : PutFile(p, m)
        \/ PutDeleted(p)
        \/ PeriodicAssemble(p)
        \/ \E a \in Assembler : AssemblerStep(p, a)
    \/ \E w \in Worker : StartWorker(w) \/ WorkerStep(w)

Spec == Init /\ [][Next]_vars
-----------------------------------------------------------------------------
Times == 0 .. MaxTime
Contents == 0 .. Mixed
Metas == [content : Contents, mtime : Times, assembled : BOOLEAN]
Assembly == [content : Contents, mtime : Times, pc : {"archive", "move", "mark"}]
WorkerState ==
    [pc : {"queued", "check", "type", "open", "read", "attrib", "created", "failed"},
     path : Path, active : BOOLEAN, old : Metas \cup {None}, content : Contents, mtime : Times]

ASSUME NoneAssumption == None \notin Worker /\ None \notin Metas /\ None \notin Assembly

\* Every variable keeps its type.
TypeOK ==
    /\ now \in Times
    /\ versions \in 0 .. MaxVersions
    /\ file \in [Path -> [content : Contents, mtime : Times]]
    /\ index \in [Path -> Metas \cup {None}]
    /\ tasks \in [Path -> Worker \cup {None}]
    /\ worker \in [Worker -> WorkerState \cup {Free}]
    /\ is_indexing \in BOOLEAN
    /\ events \in [Path -> Nat]
    /\ prepared \in [Path -> Nat]
    /\ assembling \in [Path -> [Assembler -> Assembly \cup {None}]]
    /\ retries \in 0 .. MaxRetries
    /\ received \subseteq Contents
    /\ removed \subseteq Path
    /\ misled \subseteq Path
    /\ overlapped \subseteq Path

\* A worker in tasks_, which addIndexing would cancel and stop, has not been
\* deleted and is the path's, though any worker of a path takes off its task; and
\* is_indexing is shown exactly while there are tasks.
TasksAlive ==
    /\ \A p \in Path : tasks[p] # None => tasks[p] \in Workers(p)
    /\ is_indexing <=> \E p \in Path : tasks[p] # None

\* What the assembler does is not taken for a user's edit, which would go
\* out as a new revision: a Meta is made only of a content that a user wrote, or
\* DELETED for a file that a user removed, unless two workers met at the path:
\* indexing began or had not ended while a received Meta was assembled, or a second
\* Meta was received meanwhile.  The exception ends when indexing begins with the
\* index right about the path.
NoEcho ==
    \A w \in Worker :
        At(w, "created") /\ worker[w].path \notin overlapped =>
            /\ worker[w].content \notin received
            /\ worker[w].content = 0 => worker[w].path \in removed
-----------------------------------------------------------------------------
\* Threads run and so does the main thread; the pool starts a worker, and a
\* worker reads its file to the end, before the next scan replaces it, again and
\* again; scans and assembling go on.
Fairness ==
    /\ \A w \in Worker : WF_vars(WorkerStep(w))
    /\ SF_vars(Poll)
    /\ \A p \in Path :
        /\ SF_vars(\E w \in Workers(p) : StartWorker(w))
        /\ SF_vars(\E w \in Workers(p) : ReadFile(w))
        /\ \A a \in Assembler : WF_vars(AssemblerStep(p, a))
        /\ WF_vars(PeriodicAssemble(p))

FairSpec == Spec /\ Fairness

Indexed(p) ==
    IF index[p] = None THEN file[p].content = 0 ELSE index[p].content = file[p].content

\* In the end the index has what is on the disk, whatever results came late,
\* tasks were replaced and events skipped.  Only a change that left
\* no trace in the mtime can be missed.
IndexCatchesUp == \A p \in Path : <>[](Indexed(p) \/ p \in misled)
=============================================================================
