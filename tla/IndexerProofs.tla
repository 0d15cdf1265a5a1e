--------------------------- MODULE IndexerProofs ---------------------------
(***************************************************************************)
(* Proofs about Indexer for any paths, workers, events and bounds.          *)
(***************************************************************************)
EXTENDS Indexer, TLAPS

Steps == {"queued", "check", "type", "open", "read", "attrib", "created", "failed"}

\* What is being assembled has its row in the index.
Known == \A p \in Path : Assembling(p) => index[p] # None

\* Contents are numbered as they come up: what comes next is new.
Seen == (0 .. versions) \cup {Mixed}
Fresh ==
    /\ received \subseteq 1 .. versions
    /\ \A p \in Path :
        /\ file[p].content \in Seen
        /\ index[p] # None => index[p].content \in Seen
        /\ \A a \in Assembler : assembling[p][a] # None => assembling[p][a].content \in Seen
    /\ \A w \in Worker : ~At(w, "free") => worker[w].content \in Seen

\* The Meta that is assembled for a path is the only one, and the one that the index
\* has; the old file makes room for it.
Kept(p) ==
    \A a \in Assembler : assembling[p][a] # None =>
        /\ \A b \in Assembler : assembling[p][b] # None => b = a
        /\ index[p].content = assembling[p][a].content
        /\ index[p].mtime = assembling[p][a].mtime
        /\ assembling[p][a].pc = "move" => file[p].content \notin received

\* No worker is busy with the path meanwhile.
Alone(p) == Kept(p) /\ (Assembling(p) => ~InProgress(p))

\* Once it is in place, a file of another node has the mtime that its Meta has, and
\* a file that the index knows of is there unless a user removed it.
Placed(p) ==
    \A a \in Assembler : assembling[p][a] # None => assembling[p][a].pc = "mark"
Agrees(p) ==
    /\ file[p].content \in received => index[p] # None /\ index[p].mtime = file[p].mtime
    /\ p \notin removed /\ index[p] # None /\ index[p].content # 0 => file[p].content # 0
Settled(p) == Placed(p) => Agrees(p)

\* What a worker in state x has found out, from the Meta it took from the index
\* to the one it makes.
Sound(x) ==
    LET f == file[x.path] IN
    /\ x.pc = "check" /\ f.content \in received => x.old # None /\ x.old.mtime = f.mtime
    /\ /\ x.pc \in {"check", "type"} /\ x.path \notin removed
       /\ x.old # None /\ x.old.content # 0
       => f.content # 0
    /\ x.pc \in {"type", "open", "read", "attrib", "created"} => f.content \notin received
    /\ /\ x.pc \in {"open", "read", "attrib"} \/ (x.pc = "created" /\ x.content # 0)
       /\ x.path \notin removed
       => f.content # 0
    /\ x.pc \in {"read", "attrib", "created"} => x.content \notin received
    /\ x.pc \in {"read", "attrib"} => x.content # 0
    /\ x.pc = "created" /\ x.content = 0 => x.path \in removed

\* The inductive invariant.
IInv ==
    /\ TypeOK /\ Known /\ TasksAlive /\ Fresh
    /\ \A p \in Path \ overlapped : Alone(p) /\ Settled(p)
    /\ \A w \in Worker : ~At(w, "free") /\ worker[w].path \notin overlapped => Sound(worker[w])
-----------------------------------------------------------------------------
LEMMA BoundFacts ==
    /\ Mixed \in Nat /\ Mixed > MaxVersions
    /\ 0 \in Contents /\ 0 \in Times /\ Mixed \in Contents
    /\ SentMtimes \subseteq Times
BY BoundsAssumption DEF Mixed, Contents, Times

LEMMA SeenFacts == ASSUME TypeOK PROVE Seen \subseteq Contents
<1>1. versions \in 0 .. MaxVersions
  BY DEF TypeOK
<1> QED BY <1>1, BoundsAssumption DEF Seen, Contents, Mixed

\* A worker that is not free has the fields of one.
LEMMA WorkerFacts ==
    ASSUME TypeOK, NEW w \in Worker, ~At(w, "free")
    PROVE  worker[w] \in WorkerState
BY DEF TypeOK, At, Free

LEMMA NewWorkerFacts ==
    ASSUME NEW p \in Path
    PROVE  /\ NewWorker(p) \in WorkerState
           /\ NewWorker(p).pc = "queued" /\ NewWorker(p).path = p
           /\ NewWorker(p).content = 0
BY BoundFacts DEF NewWorker, WorkerState

\* One worker changes.
LEMMA UpdateFacts ==
    ASSUME TypeOK, NEW w \in Worker, NEW x \in WorkerState \cup {Free},
           worker' = [worker EXCEPT ![w] = x]
    PROVE  /\ worker' \in [Worker -> WorkerState \cup {Free}]
           /\ worker'[w] = x
           /\ \A u \in Worker : u # w => worker'[u] = worker[u]
BY DEF TypeOK

\* What the steps of a worker make of it.
LEMMA GotoFacts ==
    ASSUME TypeOK, NEW w \in Worker, ~At(w, "free"), NEW pc \in Steps, Goto(w, pc)
    PROVE  \E x \in WorkerState :
              /\ worker' = [worker EXCEPT ![w] = x]
              /\ x.pc = pc /\ x.path = worker[w].path /\ x.old = worker[w].old
              /\ x.content = worker[w].content
<1> DEFINE x == [worker[w] EXCEPT !.pc = pc]
<1>1. worker[w] \in WorkerState
  BY WorkerFacts
<1>2. x \in WorkerState
  BY <1>1 DEF WorkerState, Steps
<1>3. worker' = [worker EXCEPT ![w] = x]
  BY DEF Goto, TypeOK
<1>4. /\ x.pc = pc /\ x.path = worker[w].path /\ x.old = worker[w].old
      /\ x.content = worker[w].content
  BY <1>1 DEF WorkerState
<1> QED BY <1>2, <1>3, <1>4

LEMMA FailFacts ==
    ASSUME TypeOK, NEW w \in Worker, ~At(w, "free"), Fail(w)
    PROVE  \E x \in WorkerState :
              /\ worker' = [worker EXCEPT ![w] = x]
              /\ x.pc = "failed" /\ x.path = worker[w].path /\ x.content = 0
<1> DEFINE x == [NewWorker(worker[w].path) EXCEPT !.pc = "failed"]
<1>1. worker[w].path \in Path
  BY WorkerFacts DEF WorkerState
<1>2. x \in WorkerState
  BY <1>1, BoundFacts DEF NewWorker, WorkerState
<1>3. worker' = [worker EXCEPT ![w] = x]
  BY DEF Fail
<1>4. x.pc = "failed" /\ x.path = worker[w].path /\ x.content = 0
  BY DEF NewWorker
<1> QED BY <1>2, <1>3, <1>4

LEMMA CreateFacts ==
    ASSUME TypeOK, NEW w \in Worker, ~At(w, "free"),
           NEW c \in Contents, NEW m \in Times, Create(w, c, m)
    PROVE  \E x \in WorkerState :
              /\ worker' = [worker EXCEPT ![w] = x]
              /\ x.pc = "created" /\ x.path = worker[w].path /\ x.content = c
<1> DEFINE x == [NewWorker(worker[w].path) EXCEPT !.pc = "created", !.content = c, !.mtime = m]
<1>1. worker[w].path \in Path
  BY WorkerFacts DEF WorkerState
<1>2. x \in WorkerState
  BY <1>1, BoundFacts DEF NewWorker, WorkerState
<1>3. worker' = [worker EXCEPT ![w] = x]
  BY DEF Create
<1>4. x.pc = "created" /\ x.path = worker[w].path /\ x.content = c
  BY DEF NewWorker
<1> QED BY <1>2, <1>3, <1>4

\* Each of the paths that are queued has a new worker of its own; of the
\* others some are stopped.
LEMMA AddFacts ==
    ASSUME TypeOK, TasksAlive, NEW paths \in SUBSET Path, AddIndexing(paths)
    PROVE  /\ tasks' \in [Path -> Worker \cup {None}]
           /\ worker' \in [Worker -> WorkerState \cup {Free}]
           /\ is_indexing' \in BOOLEAN
           /\ TasksAlive'
           /\ \A w \in Worker :
                \/ worker'[w].pc = "free"
                \/ worker'[w].pc = "queued" /\ worker'[w].content = 0
                \/ /\ worker[w].pc = worker'[w].pc /\ worker[w].path = worker'[w].path
                   /\ worker[w].old = worker'[w].old /\ worker[w].content = worker'[w].content
<1> DEFINE new == CHOOSE f \in Assignments(paths) : TRUE
<1>1. new \in Assignments(paths)
  BY DEF AddIndexing
<1>2. /\ new \in [paths -> Worker]
      /\ \A p \in paths : At(new[p], "free")
      /\ \A p \in paths, q \in paths : new[p] = new[q] => p = q
  BY <1>1 DEF Assignments
<1>3. /\ tasks' = [p \in Path |-> IF p \in paths THEN new[p] ELSE tasks[p]]
      /\ worker' = [w \in Worker |->
                CASE \E p \in paths : new[p] = w -> NewWorker(CHOOSE p \in paths : new[p] = w)
                  [] \E p \in paths : tasks[p] = w -> Stopped(worker[w])
                  [] OTHER -> worker[w]]
      /\ is_indexing' = (is_indexing \/ \E p \in paths : \A q \in Path \ {p} : tasks[q] = None)
  BY DEF AddIndexing
<1> HIDE DEF new
<1>4. \A p \in paths : worker'[new[p]] = NewWorker(p)
  <2> DEFINE Owner(w) == CHOOSE q \in paths : new[q] = w
  <2>1. \A p \in paths : Owner(new[p]) = p
    BY <1>2
  <2>2. worker' = [w \in Worker |->
                CASE \E p \in paths : new[p] = w -> NewWorker(Owner(w))
                  [] \E p \in paths : tasks[p] = w -> Stopped(worker[w])
                  [] OTHER -> worker[w]]
    BY <1>3
  <2> HIDE DEF Owner
  <2>3. ASSUME NEW w \in Worker, \E p \in paths : new[p] = w
        PROVE  worker'[w] = NewWorker(Owner(w))
    <3>1. ~ \E p \in paths : tasks[p] = w
      BY <1>2, <2>3, NoneAssumption DEF TasksAlive, Workers
    <3> QED BY <2>2, <2>3, <3>1
  <2> QED BY <1>2, <2>1, <2>3
<1>5. \A w \in Worker : (\A p \in paths : new[p] # w /\ tasks[p] # w) => worker'[w] = worker[w]
  BY <1>3
<1>6. \A w \in Worker : (\A p \in paths : new[p] # w) /\ (\E p \in paths : tasks[p] = w)
        => worker'[w] = Stopped(worker[w]) /\ worker[w] \in WorkerState
  <2>1. \A w \in Worker : (\A p \in paths : new[p] # w) /\ (\E p \in paths : tasks[p] = w)
          => worker'[w] = Stopped(worker[w])
    BY <1>3
  <2>2. \A w \in Worker : (\E p \in paths : tasks[p] = w) => ~At(w, "free")
    BY NoneAssumption DEF TasksAlive, Workers
  <2> QED BY <2>1, <2>2, WorkerFacts
<1>7. \A x \in WorkerState :
        \/ x.pc = "queued" /\ Stopped(x) = Free
        \/ /\ Stopped(x) \in WorkerState
           /\ Stopped(x).pc = x.pc /\ Stopped(x).path = x.path
           /\ Stopped(x).old = x.old /\ Stopped(x).content = x.content
  BY DEF Stopped, WorkerState
<1>8. ASSUME NEW w \in Worker
      PROVE  /\ worker'[w] \in WorkerState \cup {Free}
             /\ \/ worker'[w].pc = "free"
                \/ worker'[w].pc = "queued" /\ worker'[w].content = 0
                \/ /\ worker[w].pc = worker'[w].pc /\ worker[w].path = worker'[w].path
                   /\ worker[w].old = worker'[w].old /\ worker[w].content = worker'[w].content
  <2>1. CASE \E p \in paths : new[p] = w
    BY <1>4, <2>1, NewWorkerFacts
  <2>2. CASE (\A p \in paths : new[p] # w) /\ (\E p \in paths : tasks[p] = w)
    <3>1. Free.pc = "free"
      BY DEF Free
    <3> QED BY <1>6, <1>7, <2>2, <3>1
  <2>3. CASE \A p \in paths : new[p] # w /\ tasks[p] # w
    BY <1>5, <2>3 DEF TypeOK
  <2> QED BY <2>1, <2>2, <2>3
<1>9. \E g : worker' = [w \in Worker |-> g[w]]
  BY <1>3
<1>10. worker' \in [Worker -> WorkerState \cup {Free}]
  BY <1>8, <1>9
<1>11. tasks' \in [Path -> Worker \cup {None}]
  BY <1>2, <1>3 DEF TypeOK
<1>12. ASSUME NEW p \in Path, tasks'[p] # None
       PROVE  tasks'[p] \in Workers(p)'
  <2>1. CASE p \in paths
    <3>1. tasks'[p] = new[p] /\ new[p] \in Worker
      BY <1>2, <1>3, <2>1
    <3> QED BY <1>4, <2>1, <3>1, NewWorkerFacts DEF Workers, At
  <2>2. CASE p \notin paths
    <3>1. tasks'[p] = tasks[p] /\ tasks[p] \in Workers(p)
      BY <1>3, <1>12, <2>2 DEF TasksAlive
    <3>2. \A q \in paths : new[q] # tasks[p]
      BY <1>2, <3>1 DEF Workers
    <3>3. \A q \in paths : tasks[q] # tasks[p]
      BY <1>12, <2>2, <3>1 DEF TasksAlive, Workers
    <3>4. worker'[tasks[p]] = worker[tasks[p]]
      BY <1>5, <3>1, <3>2, <3>3 DEF Workers
    <3> QED BY <3>1, <3>4 DEF Workers, At
  <2> QED BY <2>1, <2>2
<1>13. is_indexing' <=> \E p \in Path : tasks'[p] # None
  <2>1. \A p \in Path : tasks'[p] # None <=> (p \in paths \/ tasks[p] # None)
    BY <1>2, <1>3, NoneAssumption
  <2> QED BY <1>3, <2>1 DEF TasksAlive
<1>14. TasksAlive'
  BY <1>12, <1>13 DEF TasksAlive
<1>15. is_indexing' \in BOOLEAN
  BY <1>3
<1> QED BY <1>8, <1>10, <1>11, <1>14, <1>15
-----------------------------------------------------------------------------
\* What is known of a path, or of a worker, stays so while what it is about stays.
LEMMA PathSame ==
    ASSUME NEW p \in Path, Alone(p), Settled(p),
           assembling'[p] = assembling[p], index'[p] = index[p], file'[p] = file[p],
           InProgress(p)' => InProgress(p), removed \subseteq removed',
           file[p].content \in received' => file[p].content \in received
    PROVE  Alone(p)' /\ Settled(p)'
BY DEF Alone, Settled, Kept, Placed, Agrees, Assembling

LEMMA SoundSame ==
    ASSUME NEW x, NEW y, Sound(x),
           y.pc = x.pc, y.path = x.path, y.old = x.old, y.content = x.content,
           file'[x.path] = file[x.path], removed \subseteq removed',
           file[x.path].content \in received' => file[x.path].content \in received,
           x.content \in received' => x.content \in received
    PROVE  Sound(y)'
BY DEF Sound

\* A worker that is busy has its path to itself.
LEMMA BusyFacts ==
    ASSUME IInv, NEW w \in Worker, worker[w].pc \notin {"free", "queued"}
    PROVE  /\ worker[w] \in WorkerState /\ worker[w].path \in Path
           /\ worker[w].path \notin overlapped =>
                ~Assembling(worker[w].path) /\ Sound(worker[w])
<1>1. ~At(w, "free") /\ worker[w] \in WorkerState
  BY WorkerFacts DEF IInv, At
<1>2. worker[w].path \in Path
  BY <1>1 DEF WorkerState
<1>3. InProgress(worker[w].path)
  BY <1>1 DEF InProgress, Workers, At
<1> QED BY <1>1, <1>2, <1>3 DEF IInv, Alone

\* One worker goes on.
LEMMA StepKeeps ==
    ASSUME IInv, NEW w \in Worker, ~At(w, "free"), NEW x \in WorkerState,
           worker' = [worker EXCEPT ![w] = x],
           x.path = worker[w].path, x.pc # "queued", x.content \in Seen,
           UNCHANGED <<workerUnchanged, received, removed, misled>>,
           overlapped \ {x.path} \subseteq overlapped', overlapped' \subseteq Path,
           x.path \notin overlapped' =>
               /\ x.path \notin overlapped \/ AtRest(x.path)
               /\ ~Assembling(x.path) /\ Sound(x)
    PROVE  IInv'
<1> USE DEF workerUnchanged, diskVars
<1>1. /\ worker' \in [Worker -> WorkerState \cup {Free}]
      /\ worker'[w] = x
      /\ \A u \in Worker : u # w => worker'[u] = worker[u]
  BY UpdateFacts DEF IInv
<1>2. x.pc # "free"
  BY DEF WorkerState
<1>3. TypeOK' /\ Known'
  BY <1>1 DEF IInv, TypeOK, Known, Assembling
<1>4. \A p \in Path : Workers(p)' = Workers(p)
  BY <1>1, <1>2 DEF Workers, At
<1>5. TasksAlive'
  BY <1>4 DEF IInv, TasksAlive
<1>6. Fresh'
  <2>1. \A u \in Worker : ~At(u, "free")' => worker'[u].content \in Seen
    BY <1>1 DEF IInv, Fresh, At
  <2> QED BY <2>1 DEF IInv, Fresh, Seen
<1>7. ASSUME NEW p \in Path \ overlapped' PROVE Alone(p)' /\ Settled(p)'
  <2>1. CASE p = x.path
    <3>1. ~Assembling(p)' /\ Kept(p)'
      BY <1>7, <2>1 DEF Assembling, Kept
    <3>2. Settled(p) \/ Agrees(p)
      BY <1>7, <2>1 DEF IInv, AtRest, Agrees
    <3>3. Placed(p)
      BY <1>7, <2>1 DEF Assembling, Placed
    <3> QED BY <3>1, <3>2, <3>3 DEF Alone, Settled, Agrees
  <2>2. CASE p # x.path
    <3>1. InProgress(p)' => InProgress(p)
      BY <1>1, <2>2 DEF InProgress, Workers, At
    <3> QED BY <1>7, <2>2, <3>1, PathSame DEF IInv
  <2> QED BY <2>1, <2>2
<1>8. ASSUME NEW u \in Worker, ~At(u, "free")', worker'[u].path \notin overlapped'
      PROVE  Sound(worker[u])'
  <2>1. CASE u = w
    BY <1>1, <1>8, <2>1 DEF Sound
  <2>2. CASE u # w /\ worker[u].path \notin overlapped
    <3>1. Sound(worker[u])
      BY <1>1, <1>8, <2>2 DEF IInv, At
    <3> QED BY <1>1, <2>2, <3>1 DEF Sound
  <2>3. CASE u # w /\ worker[u].path \in overlapped
    <3>1. worker[u].path = x.path /\ AtRest(x.path) /\ ~At(u, "free")
      BY <1>1, <1>8, <2>3 DEF At
    <3>2. worker[u].pc = "queued"
      BY <3>1 DEF AtRest, InProgress, Workers, At
    <3> QED BY <1>1, <2>3, <3>2 DEF Sound
  <2> QED BY <2>1, <2>2, <2>3
<1> QED BY <1>3, <1>5, <1>6, <1>7, <1>8 DEF IInv
-----------------------------------------------------------------------------
LEMMA StartKeeps ==
    ASSUME IInv, NEW w \in Worker, StartWorker(w)
    PROVE  IInv'
<1> DEFINE p == worker[w].path
           y == [worker[w] EXCEPT !.pc = "check", !.old = index[p]]
<1>1. ~At(w, "free") /\ worker[w] \in WorkerState /\ p \in Path
  BY WorkerFacts DEF StartWorker, At, IInv, WorkerState
<1>2. index[p] \in Metas \cup {None}
  BY <1>1 DEF IInv, TypeOK
<1>3. y \in WorkerState
  BY <1>1, <1>2 DEF WorkerState
<1>4. /\ y.pc = "check" /\ y.path = p /\ y.old = index[p]
      /\ y.content = worker[w].content
  BY <1>1 DEF WorkerState
<1>5. worker' = [worker EXCEPT ![w] = y]
  BY DEF StartWorker, IInv, TypeOK
<1>6. PICK x \in WorkerState : x = y
  BY <1>3
<1> HIDE DEF y
<1>7. /\ UNCHANGED <<workerUnchanged, received, removed, misled>>
      /\ overlapped' = CASE Assembling(p) -> overlapped \cup {p}
                         [] AtRest(p) -> overlapped \ {p}
                         [] OTHER -> overlapped
  BY DEF StartWorker
<1>8. Assembling(p) => ~AtRest(p)
  BY DEF AtRest
<1>9. /\ overlapped \ {p} \subseteq overlapped'
      /\ Assembling(p) => p \in overlapped'
      /\ p \notin overlapped' => p \notin overlapped \/ AtRest(p)
      /\ overlapped' \subseteq overlapped \cup {p}
  BY <1>7, <1>8
<1>10. overlapped' \subseteq Path
  BY <1>1, <1>9 DEF IInv, TypeOK
<1>11. x.content \in Seen
  BY <1>1, <1>4, <1>6 DEF IInv, Fresh
<1>12. ASSUME p \notin overlapped' PROVE ~Assembling(p) /\ Sound(x)
  <2>1. ~Assembling(p)
    BY <1>9, <1>12
  <2>2. Agrees(p)
    <3>1. Placed(p)
      BY <2>1 DEF Assembling, Placed
    <3>2. CASE AtRest(p)
      BY <3>2 DEF AtRest, Agrees
    <3>3. CASE p \notin overlapped
      BY <1>1, <3>1, <3>3 DEF IInv, Settled
    <3> QED BY <1>9, <1>12, <3>2, <3>3
  <2> QED BY <1>4, <1>6, <2>1, <2>2 DEF Sound, Agrees
<1> QED BY <1>1, <1>4, <1>5, <1>6, <1>7, <1>9, <1>10, <1>11, <1>12, StepKeeps

\* A worker that has failed says nothing.
LEMMA FailKeeps ==
    ASSUME IInv, NEW w \in Worker, worker[w].pc \notin {"free", "queued"}, Fail(w),
           UNCHANGED <<workerUnchanged, historyVars>>
    PROVE  IInv'
<1>1. ~At(w, "free")
  BY DEF At
<1>2. PICK x \in WorkerState :
        /\ worker' = [worker EXCEPT ![w] = x]
        /\ x.pc = "failed" /\ x.path = worker[w].path /\ x.content = 0
  BY <1>1, FailFacts DEF IInv
<1>3. x.content \in Seen
  BY <1>2 DEF Seen, IInv, TypeOK
<1>4. Sound(x)
  BY <1>2 DEF Sound
<1> QED BY <1>1, <1>2, <1>3, <1>4, BusyFacts, StepKeeps DEF historyVars, IInv, TypeOK

LEMMA CreateKeeps ==
    ASSUME IInv, NEW w \in Worker, worker[w].pc \notin {"free", "queued"},
           NEW c \in Seen, NEW m \in Times, Create(w, c, m),
           UNCHANGED <<workerUnchanged, historyVars>>,
           worker[w].path \notin overlapped =>
               /\ file[worker[w].path].content \notin received
               /\ c # 0 /\ worker[w].path \notin removed => file[worker[w].path].content # 0
               /\ c \notin received
               /\ c = 0 => worker[w].path \in removed
    PROVE  IInv'
<1>1. ~At(w, "free")
  BY DEF At
<1>2. c \in Contents
  BY SeenFacts DEF IInv
<1>3. PICK x \in WorkerState :
        /\ worker' = [worker EXCEPT ![w] = x]
        /\ x.pc = "created" /\ x.path = worker[w].path /\ x.content = c
  BY <1>1, <1>2, CreateFacts DEF IInv
<1>4. x.path \notin overlapped => ~Assembling(x.path) /\ Sound(x)
  BY <1>3, BusyFacts DEF Sound
<1> QED BY <1>1, <1>3, <1>4, StepKeeps DEF historyVars, IInv, TypeOK

LEMMA CheckMtimeKeeps ==
    ASSUME IInv, NEW w \in Worker, CheckMtime(w)
    PROVE  IInv'
<1> DEFINE p == worker[w].path
<1>1. worker[w].pc \notin {"free", "queued"} /\ ~At(w, "free")
  BY DEF CheckMtime, At
<1>2. CASE Fail(w)
  BY <1>1, <1>2, FailKeeps DEF CheckMtime
<1>3. CASE /\ ~(worker[w].old # None /\ file[p].content # 0 /\ file[p].mtime = worker[w].old.mtime)
           /\ Goto(w, "type")
  <2>1. PICK x \in WorkerState :
          /\ worker' = [worker EXCEPT ![w] = x]
          /\ x.pc = "type" /\ x.path = p /\ x.old = worker[w].old
          /\ x.content = worker[w].content
    BY <1>1, <1>3, GotoFacts DEF IInv, Steps
  <2>2. x.content \in Seen
    BY <1>1, <2>1 DEF IInv, Fresh
  <2>3. 0 \notin received
    BY DEF IInv, Fresh, TypeOK
  <2>4. p \notin overlapped => ~Assembling(p) /\ Sound(x)
    BY <1>1, <1>3, <2>1, <2>3, BusyFacts DEF CheckMtime, At, Sound
  <2> QED BY <1>1, <2>1, <2>2, <2>4, StepKeeps DEF CheckMtime, historyVars, IInv, TypeOK
<1> QED BY <1>2, <1>3 DEF CheckMtime

LEMMA GetTypeKeeps ==
    ASSUME IInv, NEW w \in Worker, GetType(w)
    PROVE  IInv'
<1> DEFINE p == worker[w].path
<1>1. worker[w].pc \notin {"free", "queued"} /\ ~At(w, "free") /\ worker[w].pc = "type"
  BY DEF GetType, At
<1>2. CASE file[p].content # 0
  <2> DEFINE y == [worker[w] EXCEPT !.pc = "open", !.old = None]
  <2>1. worker[w] \in WorkerState
    BY <1>1, BusyFacts
  <2>2. worker' = [worker EXCEPT ![w] = y]
    BY <1>2 DEF GetType, IInv, TypeOK
  <2>3. y \in WorkerState
    BY <2>1 DEF WorkerState
  <2>4. y.pc = "open" /\ y.path = p /\ y.content = worker[w].content
    BY <2>1 DEF WorkerState
  <2>5. PICK x \in WorkerState : x = y
    BY <2>3
  <2> HIDE DEF y
  <2>6. x.content \in Seen
    BY <1>1, <2>4, <2>5 DEF IInv, Fresh
  <2>7. p \notin overlapped => ~Assembling(p) /\ Sound(x)
    BY <1>1, <1>2, <2>4, <2>5, BusyFacts DEF Sound
  <2> QED BY <1>1, <2>2, <2>4, <2>5, <2>6, <2>7, StepKeeps DEF GetType, historyVars, IInv, TypeOK
<1>3. CASE Fail(w)
  BY <1>1, <1>3, FailKeeps DEF GetType
<1>4. CASE /\ file[p].content = 0 /\ worker[w].old # None /\ worker[w].old.content # 0
           /\ Create(w, 0, 0)
  <2>1. 0 \notin received /\ 0 \in Seen
    BY DEF IInv, Fresh, TypeOK, Seen
  <2>2. p \notin overlapped => p \in removed
    BY <1>1, <1>4, BusyFacts DEF Sound
  <2> QED BY <1>1, <1>4, <2>1, <2>2, BoundFacts, CreateKeeps DEF GetType
<1> QED BY <1>2, <1>3, <1>4 DEF GetType

LEMMA OpenFileKeeps ==
    ASSUME IInv, NEW w \in Worker, OpenFile(w)
    PROVE  IInv'
<1> DEFINE p == worker[w].path
<1>1. worker[w].pc \notin {"free", "queued"} /\ ~At(w, "free") /\ worker[w].pc = "open"
  BY DEF OpenFile, At
<1>2. CASE Fail(w)
  BY <1>1, <1>2, FailKeeps DEF OpenFile
<1>3. CASE /\ file[p].content # 0
           /\ worker' = [worker EXCEPT ![w].content = file[p].content, ![w].pc = "read"]
  <2> DEFINE y == [worker[w] EXCEPT !.content = file[p].content, !.pc = "read"]
  <2>1. worker[w] \in WorkerState /\ p \in Path
    BY <1>1, BusyFacts
  <2>2. worker' = [worker EXCEPT ![w] = y]
    BY <1>3 DEF IInv, TypeOK
  <2>3. y \in WorkerState
    <3>1. file[p].content \in Contents
      BY <2>1 DEF IInv, TypeOK
    <3> QED BY <2>1, <3>1 DEF WorkerState
  <2>4. y.pc = "read" /\ y.path = p /\ y.content = file[p].content
    BY <2>1 DEF WorkerState
  <2>5. PICK x \in WorkerState : x = y
    BY <2>3
  <2> HIDE DEF y
  <2>6. x.content \in Seen
    BY <2>1, <2>4, <2>5 DEF IInv, Fresh
  <2>7. p \notin overlapped => ~Assembling(p) /\ Sound(x)
    BY <1>1, <1>3, <2>4, <2>5, BusyFacts DEF Sound
  <2> QED BY <1>1, <2>2, <2>4, <2>5, <2>6, <2>7, StepKeeps DEF OpenFile, historyVars, IInv, TypeOK
<1> QED BY <1>2, <1>3 DEF OpenFile

LEMMA ReadFileKeeps ==
    ASSUME IInv, NEW w \in Worker, ReadFile(w)
    PROVE  IInv'
<1> DEFINE p == worker[w].path
<1>1. worker[w].pc \notin {"free", "queued"} /\ ~At(w, "free") /\ worker[w].pc = "read"
  BY DEF ReadFile, At
<1>2. worker[w] \in WorkerState /\ p \in Path
  BY <1>1, BusyFacts
<1>3. PICK c \in {worker[w].content, file[p].content, Mixed} :
        /\ c = file[p].content => file[p].content # 0 \/ c = worker[w].content
        /\ worker' = [worker EXCEPT ![w].content = c, ![w].pc = "attrib"]
  BY DEF ReadFile
<1> DEFINE y == [worker[w] EXCEPT !.content = c, !.pc = "attrib"]
<1>4. c \in Seen
  BY <1>1, <1>2, <1>3 DEF IInv, Fresh, Seen
<1>5. c \in Contents
  BY <1>4, SeenFacts DEF IInv
<1>6. worker' = [worker EXCEPT ![w] = y]
  BY <1>3 DEF IInv, TypeOK
<1>7. y \in WorkerState
  BY <1>2, <1>5 DEF WorkerState
<1>8. y.pc = "attrib" /\ y.path = p /\ y.content = c
  BY <1>2 DEF WorkerState
<1>9. PICK x \in WorkerState : x = y
  BY <1>7
<1> HIDE DEF y
<1>10. Mixed \notin received /\ Mixed # 0
  BY BoundFacts, BoundsAssumption DEF IInv, Fresh, TypeOK
<1>11. p \notin overlapped => ~Assembling(p) /\ Sound(x)
  BY <1>1, <1>3, <1>8, <1>9, <1>10, BusyFacts DEF Sound
<1> QED BY <1>1, <1>4, <1>6, <1>8, <1>9, <1>11, StepKeeps DEF ReadFile, historyVars, IInv, TypeOK

LEMMA UpdateFsattribKeeps ==
    ASSUME IInv, NEW w \in Worker, UpdateFsattrib(w)
    PROVE  IInv'
<1> DEFINE p == worker[w].path
<1>1. worker[w].pc \notin {"free", "queued"} /\ ~At(w, "free") /\ worker[w].pc = "attrib"
  BY DEF UpdateFsattrib, At
<1>2. CASE Fail(w)
  BY <1>1, <1>2, FailKeeps DEF UpdateFsattrib
<1>3. CASE Create(w, worker[w].content, file[p].mtime)
  <2>1. worker[w].content \in Seen
    BY <1>1 DEF IInv, Fresh
  <2>2. file[p].mtime \in Times
    BY <1>1, BusyFacts DEF IInv, TypeOK
  <2>3. p \notin overlapped =>
               /\ file[p].content \notin received
               /\ p \notin removed => file[p].content # 0
               /\ worker[w].content \notin received
               /\ worker[w].content # 0
    BY <1>1, BusyFacts DEF Sound
  <2> QED BY <1>1, <1>3, <2>1, <2>2, <2>3, CreateKeeps DEF UpdateFsattrib
<1> QED BY <1>2, <1>3 DEF UpdateFsattrib
-----------------------------------------------------------------------------
\* A worker is deleted, with the task of its path, and its Meta may go to the index.
LEMMA FinishKeeps ==
    ASSUME IInv, NEW w \in Worker, worker[w].pc \notin {"free", "queued"}, Finish(w),
           UNCHANGED <<diskVars, prepared, assembling, retries, historyVars>>,
           \/ index' = index
           \/ MetaCreated(w)
    PROVE  IInv'
<1> USE DEF diskVars, historyVars
<1> DEFINE p == worker[w].path
<1>1. worker[w] \in WorkerState /\ p \in Path
  BY BusyFacts
<1>2. /\ worker' \in [Worker -> WorkerState \cup {Free}]
      /\ worker'[w] = Free
      /\ \A u \in Worker : u # w => worker'[u] = worker[u]
  BY UpdateFacts DEF Finish, IInv
<1>3. Free.pc = "free"
  BY DEF Free
<1>4. /\ tasks' \in [Path -> Worker \cup {None}] /\ tasks'[p] = None
      /\ \A q \in Path : q # p => tasks'[q] = tasks[q]
  BY <1>1 DEF Finish, IInv, TypeOK
<1>5. /\ index' \in [Path -> Metas \cup {None}]
      /\ \A q \in Path : q # p => index'[q] = index[q]
      /\ index[p] # None => index'[p] # None
      /\ index'[p] # None => index'[p].content \in Seen
      /\ \/ index'[p] = index[p]
         \/ At(w, "created") /\ index'[p].content = worker[w].content
  <2>1. CASE index' = index
    BY <1>1, <2>1 DEF IInv, TypeOK, Fresh
  <2>2. CASE MetaCreated(w)
    <3> DEFINE m == [content |-> worker[w].content, mtime |-> worker[w].mtime, assembled |-> TRUE]
    <3>1. m \in Metas
      BY <1>1 DEF WorkerState, Metas
    <3>2. m # None
      BY <3>1, NoneAssumption
    <3>3. m.content = worker[w].content /\ m.content \in Seen
      BY DEF IInv, Fresh, At
    <3>4. index' = [index EXCEPT ![p] = m] /\ At(w, "created")
      BY <2>2 DEF MetaCreated
    <3> HIDE DEF m
    <3>5. /\ index' \in [Path -> Metas \cup {None}] /\ index'[p] = m
          /\ \A q \in Path : q # p => index'[q] = index[q]
      BY <1>1, <3>1, <3>4 DEF IInv, TypeOK
    <3> QED BY <3>2, <3>3, <3>4, <3>5
  <2> QED BY <2>1, <2>2
<1>6. is_indexing' = (is_indexing /\ \E q \in Path : tasks'[q] # None)
  BY DEF Finish
<1>7. TypeOK' /\ Known'
  <2>1. is_indexing' \in BOOLEAN
    BY <1>6
  <2> QED BY <1>2, <1>4, <1>5, <2>1 DEF IInv, TypeOK, Known, Assembling
<1>8. TasksAlive'
  <2>1. ASSUME NEW q \in Path, tasks'[q] # None PROVE tasks'[q] \in Workers(q)'
    <3>1. q # p /\ tasks'[q] = tasks[q] /\ tasks[q] \in Workers(q)
      BY <1>4, <2>1 DEF IInv, TasksAlive
    <3>2. tasks[q] # w
      BY <3>1 DEF Workers
    <3> QED BY <1>2, <3>1, <3>2 DEF Workers, At
  <2>2. is_indexing' <=> \E q \in Path : tasks'[q] # None
    BY <1>4, <1>6 DEF IInv, TasksAlive
  <2> QED BY <2>1, <2>2 DEF TasksAlive
<1>9. Fresh'
  <2>1. \A u \in Worker : ~At(u, "free")' => worker'[u].content \in Seen
    BY <1>2, <1>3 DEF IInv, Fresh, At
  <2>2. \A q \in Path : index'[q] # None => index'[q].content \in Seen
    BY <1>5 DEF IInv, Fresh
  <2> QED BY <2>1, <2>2 DEF IInv, Fresh, Seen
<1>10. ASSUME NEW q \in Path \ overlapped' PROVE Alone(q)' /\ Settled(q)'
  <2>1. InProgress(q)' => InProgress(q)
    BY <1>2, <1>3 DEF InProgress, Workers, At
  <2>2. Alone(q) /\ Settled(q)
    BY DEF IInv
  <2>3. CASE index'[q] = index[q]
    BY <2>1, <2>2, <2>3, PathSame
  <2>4. CASE q = p /\ At(w, "created") /\ index'[p].content = worker[w].content
    <3>1. ~Assembling(p) /\ Sound(worker[w])
      BY <2>4, BusyFacts
    <3>2. ~Assembling(q)' /\ Kept(q)'
      BY <2>4, <3>1 DEF Assembling, Kept
    <3>3. Agrees(q)'
      BY <1>5, <2>4, <3>1 DEF Agrees, Sound, At
    <3> QED BY <3>2, <3>3 DEF Alone, Settled
  <2> QED BY <1>5, <2>3, <2>4
<1>11. ASSUME NEW u \in Worker, ~At(u, "free")', worker'[u].path \notin overlapped'
      PROVE  Sound(worker[u])'
  <2>1. u # w /\ worker'[u] = worker[u]
    BY <1>2, <1>3, <1>11 DEF At
  <2>2. Sound(worker[u])
    BY <1>11, <2>1 DEF IInv, At
  <2> QED BY <2>1, <2>2 DEF Sound
<1> QED BY <1>7, <1>8, <1>9, <1>10, <1>11 DEF IInv

LEMMA WorkerKeeps ==
    ASSUME IInv, NEW w \in Worker, WorkerStep(w)
    PROVE  IInv'
<1>1. CASE Interrupted(w)
  BY <1>1, FailKeeps DEF Interrupted, At
<1>2. CASE MetaCreated(w)
  BY <1>2, FinishKeeps DEF MetaCreated, At
<1>3. CASE MetaFailed(w)
  BY <1>3, FinishKeeps DEF MetaFailed, At
<1> QED BY <1>1, <1>2, <1>3, CheckMtimeKeeps, GetTypeKeeps, OpenFileKeeps, ReadFileKeeps,
           UpdateFsattribKeeps DEF WorkerStep

\* Paths are queued, for the scan or for an event.
LEMMA AddKeeps ==
    ASSUME IInv, NEW paths \in SUBSET Path, AddIndexing(paths),
           UNCHANGED <<now, versions, file, index, assembling, retries, historyVars>>,
           events' \in [Path -> Nat], prepared' \in [Path -> Nat]
    PROVE  IInv'
<1> USE DEF historyVars
<1>1. /\ tasks' \in [Path -> Worker \cup {None}]
      /\ worker' \in [Worker -> WorkerState \cup {Free}]
      /\ is_indexing' \in BOOLEAN
      /\ TasksAlive'
      /\ \A w \in Worker :
           \/ worker'[w].pc = "free"
           \/ worker'[w].pc = "queued" /\ worker'[w].content = 0
           \/ /\ worker[w].pc = worker'[w].pc /\ worker[w].path = worker'[w].path
              /\ worker[w].old = worker'[w].old /\ worker[w].content = worker'[w].content
  BY AddFacts DEF IInv
<1>2. TypeOK' /\ Known'
  BY <1>1 DEF IInv, TypeOK, Known, Assembling
<1>3. Fresh'
  <2>1. 0 \in Seen
    BY DEF Seen, IInv, TypeOK
  <2>2. \A u \in Worker : ~At(u, "free")' => worker'[u].content \in Seen
    BY <1>1, <2>1 DEF IInv, Fresh, At
  <2> QED BY <2>2 DEF IInv, Fresh, Seen
<1>4. ASSUME NEW q \in Path \ overlapped' PROVE Alone(q)' /\ Settled(q)'
  <2>1. InProgress(q)' => InProgress(q)
    BY <1>1 DEF InProgress, Workers, At
  <2> QED BY <2>1, PathSame DEF IInv
<1>5. ASSUME NEW u \in Worker, ~At(u, "free")', worker'[u].path \notin overlapped'
      PROVE  Sound(worker[u])'
  <2>1. CASE worker'[u].pc = "queued"
    BY <2>1 DEF Sound
  <2>2. CASE worker'[u].pc # "queued"
    <3>1. /\ worker[u].pc = worker'[u].pc /\ worker[u].path = worker'[u].path
          /\ worker[u].old = worker'[u].old /\ worker[u].content = worker'[u].content
      BY <1>1, <1>5, <2>2 DEF At
    <3>2. Sound(worker[u])
      BY <1>5, <3>1 DEF IInv, At
    <3> QED BY <3>1, <3>2 DEF Sound
  <2> QED BY <2>1, <2>2
<1> QED BY <1>1, <1>2, <1>3, <1>4, <1>5 DEF IInv
-----------------------------------------------------------------------------
\* No worker is busy with the path.
Quiet(p) == \A w \in Worker : worker[w].path = p => worker[w].pc \in {"free", "queued"}

LEMMA QuietFacts ==
    ASSUME IInv, NEW p \in Path
    PROVE  /\ InProgress(p) \/ Quiet(p)
           /\ Assembling(p) /\ p \notin overlapped => Quiet(p)
BY DEF IInv, Alone, InProgress, Workers, Quiet, At

\* Something happens to one path, and the workers do nothing.
LEMMA PathKeeps ==
    ASSUME IInv, NEW p \in Path, UNCHANGED queueVars, TypeOK', versions <= versions',
           \A q \in Path : q # p =>
               /\ file'[q] = file[q] /\ index'[q] = index[q] /\ assembling'[q] = assembling[q],
           file'[p].content \in Seen',
           index'[p] # None => index'[p].content \in Seen',
           \A a \in Assembler : assembling'[p][a] # None =>
               index'[p] # None /\ assembling'[p][a].content \in Seen',
           removed \subseteq removed', overlapped \subseteq overlapped',
           received' \subseteq 1 .. versions',
           \A c \in Seen : c \in received' => c \in received,
           p \notin overlapped' =>
               /\ Alone(p)' /\ Settled(p)'
               /\ \A u \in Worker : worker[u].pc \notin {"free", "queued"} /\ worker[u].path = p
                    => Sound(worker[u])'
    PROVE  IInv'
<1>1. worker' = worker /\ tasks' = tasks /\ is_indexing' = is_indexing
  BY DEF queueVars
<1>2. Seen \subseteq Seen'
  BY DEF Seen, IInv, TypeOK
<1>3. \A q \in Path : Workers(q)' = Workers(q) /\ (InProgress(q)' <=> InProgress(q))
  BY <1>1 DEF Workers, InProgress, At
<1>4. Known' /\ TasksAlive'
  BY <1>1, <1>3 DEF IInv, Known, TasksAlive, Assembling
<1>5. Fresh'
  <2>1. \A u \in Worker : ~At(u, "free")' => worker'[u].content \in Seen'
    BY <1>1, <1>2 DEF IInv, Fresh, At
  <2>2. \A q \in Path :
        /\ file'[q].content \in Seen'
        /\ index'[q] # None => index'[q].content \in Seen'
        /\ \A a \in Assembler : assembling'[q][a] # None => assembling'[q][a].content \in Seen'
    BY <1>2 DEF IInv, Fresh
  <2> QED BY <2>1, <2>2 DEF Fresh
<1>6. ASSUME NEW q \in Path \ overlapped' PROVE Alone(q)' /\ Settled(q)'
  <2>1. CASE q # p
    <3>1. file[q].content \in received' => file[q].content \in received
      BY DEF IInv, Fresh
    <3>2. Alone(q) /\ Settled(q)
      BY DEF IInv
    <3> QED BY <1>3, <2>1, <3>1, <3>2, PathSame
  <2> QED BY <1>6, <2>1
<1>7. ASSUME NEW u \in Worker, ~At(u, "free")', worker'[u].path \notin overlapped'
      PROVE  Sound(worker[u])'
  <2>1. CASE worker[u].pc = "queued"
    BY <1>1, <2>1 DEF Sound
  <2>2. CASE worker[u].path = p /\ worker[u].pc # "queued"
    BY <1>1, <1>7, <2>2 DEF At
  <2>3. CASE worker[u].path # p /\ worker[u].pc # "queued"
    <3>1. worker[u].path \in Path
      BY <1>1, <1>7, <2>3, BusyFacts DEF At
    <3>2. Sound(worker[u])
      BY <1>1, <1>7 DEF IInv, At
    <3>3. worker[u].content \in Seen /\ file[worker[u].path].content \in Seen
      BY <1>1, <1>7, <3>1 DEF IInv, Fresh, At
    <3> QED BY <1>1, <2>3, <3>1, <3>2, <3>3, SoundSame
  <2> QED BY <2>1, <2>2, <2>3
<1> QED BY <1>4, <1>5, <1>6, <1>7 DEF IInv

LEMMA WriteKeeps ==
    ASSUME IInv, NEW p \in Path, Write(p)
    PROVE  IInv'
<1> DEFINE v == versions + 1
           f == [content |-> v, mtime |-> now]
<1>1. v \in 1 .. MaxVersions /\ versions' = v /\ versions <= versions' /\ versions \in Nat
  BY BoundsAssumption DEF Write, IInv, TypeOK
<1>2. v \in Contents /\ now \in Times
  BY <1>1, BoundFacts, BoundsAssumption DEF Contents, Mixed, IInv, TypeOK
<1>3. f.content = v /\ f \in [content : Contents, mtime : Times]
  BY <1>2
<1>4. file' = [file EXCEPT ![p] = f]
  BY DEF Write
<1> HIDE DEF f
<1>5. /\ file' \in [Path -> [content : Contents, mtime : Times]] /\ file'[p] = f
      /\ \A q \in Path : q # p => file'[q] = file[q]
  BY <1>3, <1>4 DEF IInv, TypeOK
<1>6. /\ index' = index /\ assembling' = assembling /\ retries' = retries /\ received' = received
      /\ removed' = removed /\ overlapped' = overlapped /\ UNCHANGED queueVars
  BY DEF Write
<1>7. TypeOK'
  <2>1. events' \in [Path -> Nat]
    BY DEF Write, IInv, TypeOK
  <2>2. misled' \subseteq Path
    BY DEF Write, IInv, TypeOK
  <2>3. now' = now /\ prepared' = prepared /\ worker' = worker /\ tasks' = tasks
        /\ is_indexing' = is_indexing
    BY DEF Write, queueVars
  <2>4. versions' \in 0 .. MaxVersions
    BY <1>1, BoundsAssumption
  <2> QED BY <1>5, <1>6, <2>1, <2>2, <2>3, <2>4 DEF IInv, TypeOK
<1>8. received' \subseteq 1 .. versions' /\ v \notin received /\ v # 0
  BY <1>1, <1>6 DEF IInv, Fresh
<1>9. v \in Seen' /\ Seen \subseteq Seen'
  BY <1>1 DEF Seen
<1>10. \A u \in Worker : worker'[u] = worker[u]
  BY <1>6 DEF queueVars
<1>11. ASSUME p \notin overlapped' PROVE Alone(p)' /\ Settled(p)'
  <2>1. Alone(p) /\ Settled(p)
    BY <1>6, <1>11 DEF IInv
  <2>2. InProgress(p)' <=> InProgress(p)
    BY <1>10 DEF InProgress, Workers, At
  <2>3. Alone(p)'
    BY <1>3, <1>5, <1>6, <1>8, <2>1, <2>2 DEF Alone, Kept, Assembling
  <2>4. Agrees(p)'
    BY <1>3, <1>5, <1>6, <1>8 DEF Agrees
  <2> QED BY <2>3, <2>4 DEF Settled
<1>12. ASSUME p \notin overlapped', NEW u \in Worker,
              worker[u].pc \notin {"free", "queued"}, worker[u].path = p
       PROVE  Sound(worker[u])'
  <2>1. Sound(worker[u])
    BY <1>6, <1>12, BusyFacts
  <2> QED BY <1>3, <1>5, <1>6, <1>8, <1>10, <1>12, <2>1 DEF Sound
<1>13. /\ index'[p] # None => index'[p].content \in Seen'
       /\ \A a \in Assembler : assembling'[p][a] # None =>
            index'[p] # None /\ assembling'[p][a].content \in Seen'
  BY <1>6, <1>9 DEF IInv, Fresh, Known, Assembling
<1> HIDE DEF v
<1> QED BY <1>1, <1>3, <1>5, <1>6, <1>7, <1>8, <1>9, <1>11, <1>12, <1>13, PathKeeps

LEMMA RemoveKeeps ==
    ASSUME IInv, NEW p \in Path, Remove(p)
    PROVE  IInv'
<1>1. NoFile.content = 0 /\ NoFile \in [content : Contents, mtime : Times]
  BY BoundFacts DEF NoFile
<1>2. /\ file' \in [Path -> [content : Contents, mtime : Times]] /\ file'[p] = NoFile
      /\ \A q \in Path : q # p => file'[q] = file[q]
  BY <1>1 DEF Remove, IInv, TypeOK
<1>3. /\ now' = now /\ versions' = versions /\ index' = index /\ prepared' = prepared
      /\ assembling' = assembling /\ retries' = retries /\ received' = received
      /\ misled' = misled
      /\ overlapped' = overlapped /\ UNCHANGED queueVars
      /\ worker' = worker /\ tasks' = tasks /\ is_indexing' = is_indexing
  BY DEF Remove, queueVars
<1>4. removed' = removed \cup {p}
  BY DEF Remove
<1>5. TypeOK'
  <2>1. events' \in [Path -> Nat]
    BY DEF Remove, IInv, TypeOK
  <2> QED BY <1>2, <1>3, <1>4, <2>1 DEF IInv, TypeOK
<1>6. /\ Seen' = Seen /\ 0 \in Seen /\ 0 \notin received /\ versions <= versions'
      /\ received' \subseteq 1 .. versions'
  BY <1>3 DEF IInv, Fresh, Seen, TypeOK
<1>7. ASSUME p \notin overlapped' PROVE Alone(p)' /\ Settled(p)'
  <2>1. Alone(p) /\ Settled(p)
    BY <1>3, <1>7 DEF IInv
  <2>2. InProgress(p)' <=> InProgress(p)
    BY <1>3 DEF InProgress, Workers, At
  <2>3. Alone(p)'
    BY <1>1, <1>2, <1>3, <1>6, <2>1, <2>2 DEF Alone, Kept, Assembling
  <2>4. Agrees(p)'
    BY <1>1, <1>2, <1>3, <1>4, <1>6 DEF Agrees
  <2> QED BY <2>3, <2>4 DEF Settled
<1>8. ASSUME p \notin overlapped', NEW u \in Worker,
             worker[u].pc \notin {"free", "queued"}, worker[u].path = p
      PROVE  Sound(worker[u])'
  <2>1. Sound(worker[u])
    BY <1>3, <1>8, BusyFacts
  <2> QED BY <1>1, <1>2, <1>3, <1>4, <1>6, <1>8, <2>1 DEF Sound
<1>9. /\ index'[p] # None => index'[p].content \in Seen'
      /\ \A a \in Assembler : assembling'[p][a] # None =>
            index'[p] # None /\ assembling'[p][a].content \in Seen'
  BY <1>3, <1>6 DEF IInv, Fresh, Known, Assembling
<1> QED BY <1>1, <1>2, <1>3, <1>4, <1>5, <1>6, <1>7, <1>8, <1>9, PathKeeps
-----------------------------------------------------------------------------
\* One AssemblerWorker changes, or comes, or ends.
LEMMA JobFacts ==
    ASSUME TypeOK, NEW p \in Path, NEW a \in Assembler, NEW x \in Assembly \cup {None},
           assembling' = [assembling EXCEPT ![p][a] = x]
    PROVE  /\ assembling' \in [Path -> [Assembler -> Assembly \cup {None}]]
           /\ assembling'[p][a] = x
           /\ \A b \in Assembler : b # a => assembling'[p][b] = assembling[p][b]
           /\ \A q \in Path : q # p => assembling'[q] = assembling[q]
<1> DEFINE g == [assembling[p] EXCEPT ![a] = x]
<1>1. assembling[p] \in [Assembler -> Assembly \cup {None}]
  BY DEF TypeOK
<1>2. /\ g \in [Assembler -> Assembly \cup {None}] /\ g[a] = x
      /\ \A b \in Assembler : b # a => g[b] = assembling[p][b]
  BY <1>1
<1>3. assembling' = [assembling EXCEPT ![p] = g]
  BY DEF TypeOK
<1> HIDE DEF g
<1> QED BY <1>2, <1>3 DEF TypeOK

\* The path of an AssemblerWorker, unless workers met there: it is the only worker,
\* and no IndexerWorker is busy.
LEMMA JobAlone ==
    ASSUME IInv, NEW p \in Path, NEW a \in Assembler, assembling[p][a] # None
    PROVE  /\ assembling[p][a] \in Assembly /\ assembling[p][a].content \in Seen
           /\ index[p] # None /\ index[p] \in Metas /\ index[p].content \in Seen
           /\ p \notin overlapped =>
                /\ Quiet(p) /\ Kept(p)
                /\ \A b \in Assembler : b # a => assembling[p][b] = None
<1>1. Assembling(p) /\ index[p] # None
  BY DEF Assembling, IInv, Known
<1>2. assembling[p][a] \in Assembly /\ index[p] \in Metas
  BY <1>1 DEF IInv, TypeOK
<1>3. assembling[p][a].content \in Seen /\ index[p].content \in Seen
  BY <1>1 DEF IInv, Fresh
<1>4. p \notin overlapped => Quiet(p) /\ Kept(p)
  BY <1>1, QuietFacts DEF IInv, Alone
<1>5. p \notin overlapped => \A b \in Assembler : b # a => assembling[p][b] = None
  BY <1>4 DEF Kept
<1> QED BY <1>1, <1>2, <1>3, <1>4, <1>5

\* A step of an AssemblerWorker.  Where workers have not met, the worker is the only
\* one of the path, its Meta is in the index, and what it leaves behind agrees with
\* that once it is in place.
LEMMA AssemblerKeeps ==
    ASSUME IInv, NEW p \in Path, NEW a \in Assembler, UNCHANGED queueVars, TypeOK',
           versions <= versions',
           \A q \in Path : q # p =>
               /\ file'[q] = file[q] /\ index'[q] = index[q] /\ assembling'[q] = assembling[q],
           \A b \in Assembler : b # a => assembling'[p][b] = assembling[p][b],
           file'[p].content \in Seen', index'[p] # None, index'[p].content \in Seen',
           assembling'[p][a] # None => assembling'[p][a].content \in Seen',
           removed' = removed, overlapped \subseteq overlapped',
           received' \subseteq 1 .. versions',
           \A c \in Seen : c \in received' => c \in received,
           p \notin overlapped' =>
               /\ Quiet(p)
               /\ \A b \in Assembler : b # a => assembling[p][b] = None
               /\ assembling'[p][a] # None =>
                    /\ index'[p].content = assembling'[p][a].content
                    /\ index'[p].mtime = assembling'[p][a].mtime
                    /\ assembling'[p][a].pc = "move" => file'[p].content \notin received'
               /\ (assembling'[p][a] # None => assembling'[p][a].pc = "mark") => Agrees(p)'
    PROVE  IInv'
<1>1. Quiet(p) => ~InProgress(p)'
  BY DEF Quiet, InProgress, Workers, At, queueVars
<1>2. ASSUME p \notin overlapped' PROVE Alone(p)' /\ Settled(p)'
  <2>1. \A b \in Assembler : b # a => assembling'[p][b] = None
    BY <1>2
  <2>2. Kept(p)'
    BY <1>2, <2>1 DEF Kept
  <2>3. Settled(p)'
    BY <1>2 DEF Settled, Placed
  <2> QED BY <1>1, <1>2, <2>2, <2>3 DEF Alone
<1>3. \A b \in Assembler : assembling'[p][b] # None =>
        index'[p] # None /\ assembling'[p][b].content \in Seen'
  <2>1. Seen \subseteq Seen'
    BY DEF Seen, IInv, TypeOK
  <2> QED BY <2>1 DEF IInv, Fresh
<1>4. p \notin overlapped' =>
        \A u \in Worker : worker[u].path = p => worker[u].pc \in {"free", "queued"}
  BY DEF Quiet
<1> QED BY <1>2, <1>3, <1>4, PathKeeps

\* Another worker comes.
LEMMA AddAssembleFacts ==
    ASSUME IInv, NEW p \in Path, NEW c \in Contents, NEW m \in Times, AddAssemble(p, c, m)
    PROVE  \E a \in Assembler, x \in Assembly :
              /\ assembling[p][a] = None
              /\ assembling' = [assembling EXCEPT ![p][a] = x]
              /\ x # None /\ x.content = c /\ x.mtime = m /\ x.pc = "archive"
              /\ overlapped \subseteq overlapped' /\ overlapped' \subseteq Path
              /\ p \notin overlapped' =>
                    /\ Quiet(p)
                    /\ \A b \in Assembler : assembling[p][b] = None
<1> DEFINE a == CHOOSE b \in Assembler : assembling[p][b] = None
           x == [content |-> c, mtime |-> m, pc |-> "archive"]
<1>1. a \in Assembler /\ assembling[p][a] = None
  BY DEF AddAssemble
<1>2. x \in Assembly /\ x.content = c /\ x.mtime = m /\ x.pc = "archive"
  BY DEF Assembly
<1>3. x # None
  BY <1>2, NoneAssumption
<1>4. assembling' = [assembling EXCEPT ![p][a] = x]
  BY DEF AddAssemble
<1>5. overlapped' = IF InProgress(p) \/ Assembling(p) THEN overlapped \cup {p} ELSE overlapped
  BY DEF AddAssemble
<1>6. overlapped \subseteq overlapped' /\ overlapped' \subseteq Path
  BY <1>5 DEF IInv, TypeOK
<1>7. p \notin overlapped' => Quiet(p) /\ \A b \in Assembler : assembling[p][b] = None
  BY <1>5, QuietFacts DEF Assembling
<1> HIDE DEF a, x
<1> QED BY <1>1, <1>2, <1>3, <1>4, <1>6, <1>7

LEMMA PutKeeps ==
    ASSUME IInv, NEW p \in Path, NEW c \in {0, versions + 1}, NEW m \in Times, PutMeta(p, c, m),
           received' \in {received, received \cup {versions + 1}}
    PROVE  IInv'
<1> DEFINE i == [content |-> c, mtime |-> m, assembled |-> FALSE]
           v == versions + 1
<1>1. v \in 1 .. MaxVersions /\ versions' = v /\ versions <= versions' /\ versions \in 0 .. MaxVersions
  BY BoundsAssumption DEF PutMeta, IInv, TypeOK
<1>2. c \in Contents /\ v \in Contents
  BY <1>1, BoundFacts, BoundsAssumption DEF Contents, Mixed
<1>3. i \in Metas /\ i # None /\ i.content = c /\ i.mtime = m
  <2>1. i \in Metas
    BY <1>2 DEF Metas
  <2> QED BY <2>1, NoneAssumption
<1>4. index' = [index EXCEPT ![p] = i]
  BY DEF PutMeta
<1> HIDE DEF i
<1>5. /\ index' \in [Path -> Metas \cup {None}] /\ index'[p] = i
      /\ \A q \in Path : q # p => index'[q] = index[q]
  BY <1>3, <1>4 DEF IInv, TypeOK
<1>6. /\ now' = now /\ file' = file /\ events' = events /\ prepared' = prepared
      /\ retries' = retries /\ removed' = removed /\ misled' = misled /\ UNCHANGED queueVars
      /\ worker' = worker /\ tasks' = tasks /\ is_indexing' = is_indexing
  BY DEF PutMeta, queueVars
<1>7. PICK a \in Assembler, x \in Assembly :
        /\ assembling[p][a] = None
        /\ assembling' = [assembling EXCEPT ![p][a] = x]
        /\ x # None /\ x.content = c /\ x.mtime = m /\ x.pc = "archive"
        /\ overlapped \subseteq overlapped' /\ overlapped' \subseteq Path
        /\ p \notin overlapped' => Quiet(p) /\ \A b \in Assembler : assembling[p][b] = None
  BY <1>2, AddAssembleFacts DEF PutMeta
<1>8. /\ assembling' \in [Path -> [Assembler -> Assembly \cup {None}]]
      /\ assembling'[p][a] = x
      /\ \A b \in Assembler : b # a => assembling'[p][b] = assembling[p][b]
      /\ \A q \in Path : q # p => assembling'[q] = assembling[q]
  BY <1>7, JobFacts DEF IInv
<1>9. TypeOK'
  <2>1. versions' \in 0 .. MaxVersions
    BY <1>1, BoundsAssumption
  <2>2. received' \subseteq Contents
    BY <1>2 DEF IInv, TypeOK
  <2> QED BY <1>5, <1>6, <1>7, <1>8, <2>1, <2>2 DEF IInv, TypeOK
<1>10. received' \subseteq 1 .. versions'
  <2>1. received \subseteq 1 .. versions
    BY DEF IInv, Fresh
  <2> QED BY <1>1, <2>1
<1>11. v \in Seen' /\ 0 \in Seen' /\ Seen \subseteq Seen'
  BY <1>1 DEF Seen
<1>12. v \notin Seen
  BY <1>1, BoundFacts, BoundsAssumption DEF Seen
<1>13. file'[p].content \in Seen' /\ c \in Seen'
  BY <1>6, <1>11 DEF IInv, Fresh
<1>14. \A d \in Seen : d \in received' => d \in received
  BY <1>12
<1> HIDE DEF v
<1> QED BY <1>1, <1>3, <1>5, <1>6, <1>7, <1>8, <1>9, <1>10, <1>13, <1>14, AssemblerKeeps

LEMMA PeriodicKeeps ==
    ASSUME IInv, NEW p \in Path, PeriodicAssemble(p)
    PROVE  IInv'
<1>1. index[p] # None /\ index[p] \in Metas
  BY DEF PeriodicAssemble, Incomplete, IInv, TypeOK
<1>2. index[p].content \in Contents /\ index[p].mtime \in Times
  BY <1>1 DEF Metas
<1>3. /\ now' = now /\ versions' = versions /\ file' = file /\ events' = events
      /\ index' = index /\ prepared' = prepared /\ received' = received
      /\ removed' = removed /\ misled' = misled /\ UNCHANGED queueVars
      /\ worker' = worker /\ tasks' = tasks /\ is_indexing' = is_indexing
      /\ retries' \in {retries, retries + 1} /\ retries' <= MaxRetries
  BY DEF PeriodicAssemble, queueVars, diskVars
<1>4. PICK a \in Assembler, x \in Assembly :
        /\ assembling[p][a] = None
        /\ assembling' = [assembling EXCEPT ![p][a] = x]
        /\ x # None /\ x.content = index[p].content /\ x.mtime = index[p].mtime
        /\ x.pc = "archive"
        /\ overlapped \subseteq overlapped' /\ overlapped' \subseteq Path
        /\ p \notin overlapped' => Quiet(p) /\ \A b \in Assembler : assembling[p][b] = None
  BY <1>2, AddAssembleFacts DEF PeriodicAssemble
<1>5. /\ assembling' \in [Path -> [Assembler -> Assembly \cup {None}]]
      /\ assembling'[p][a] = x
      /\ \A b \in Assembler : b # a => assembling'[p][b] = assembling[p][b]
      /\ \A q \in Path : q # p => assembling'[q] = assembling[q]
  BY <1>4, JobFacts DEF IInv
<1>6. TypeOK'
  <2>1. retries' \in 0 .. MaxRetries
    BY <1>3, BoundsAssumption DEF IInv, TypeOK
  <2> QED BY <1>3, <1>4, <1>5, <2>1 DEF IInv, TypeOK
<1>7. Seen' = Seen /\ versions <= versions' /\ received' \subseteq 1 .. versions'
  BY <1>3 DEF Seen, IInv, TypeOK, Fresh
<1>8. file[p].content \in Seen /\ index[p].content \in Seen
  BY <1>1 DEF IInv, Fresh
<1> QED BY <1>1, <1>3, <1>4, <1>5, <1>6, <1>7, <1>8, AssemblerKeeps

\* The old file makes room.
LEMMA ArchiveKeeps ==
    ASSUME IInv, NEW p \in Path, NEW a \in Assembler, ArchiveOld(p, a)
    PROVE  IInv'
<1> DEFINE old == assembling[p][a]
           x == [old EXCEPT !.pc = IF old.content = 0 THEN "mark" ELSE "move"]
<1>1. old # None
  BY DEF ArchiveOld, Assembles
<1>2. /\ old \in Assembly /\ old.content \in Seen
      /\ index[p] # None /\ index[p] \in Metas /\ index[p].content \in Seen
      /\ p \notin overlapped =>
            Quiet(p) /\ Kept(p) /\ \A b \in Assembler : b # a => assembling[p][b] = None
  BY <1>1, JobAlone
<1>3. /\ x \in Assembly /\ x.content = old.content /\ x.mtime = old.mtime
      /\ x.pc = "mark" => x.content = 0
  BY <1>2 DEF Assembly
<1>4. x # None
  BY <1>3, NoneAssumption
<1>5. assembling' = [assembling EXCEPT ![p][a] = x]
  BY <1>2 DEF ArchiveOld, IInv, TypeOK, Assembly
<1> HIDE DEF x
<1>6. /\ assembling' \in [Path -> [Assembler -> Assembly \cup {None}]]
      /\ assembling'[p][a] = x
      /\ \A b \in Assembler : b # a => assembling'[p][b] = assembling[p][b]
      /\ \A q \in Path : q # p => assembling'[q] = assembling[q]
  BY <1>3, <1>5, JobFacts DEF IInv
<1>7. NoFile.content = 0 /\ NoFile \in [content : Contents, mtime : Times]
  BY BoundFacts DEF NoFile
<1>8. /\ file' \in [Path -> [content : Contents, mtime : Times]] /\ file'[p] = NoFile
      /\ \A q \in Path : q # p => file'[q] = file[q]
  BY <1>7 DEF ArchiveOld, IInv, TypeOK
<1>9. /\ now' = now /\ versions' = versions /\ index' = index /\ received' = received
      /\ removed' = removed /\ misled' = misled /\ UNCHANGED queueVars
      /\ worker' = worker /\ tasks' = tasks /\ is_indexing' = is_indexing
      /\ overlapped' = overlapped /\ retries' = retries
  BY DEF ArchiveOld, queueVars, historyVars
<1>10. TypeOK'
  <2>1. prepared' \in [Path -> Nat]
    BY DEF ArchiveOld, PrepareAssemble, IInv, TypeOK
  <2>2. events' \in [Path -> Nat]
    BY DEF ArchiveOld, IInv, TypeOK
  <2> QED BY <1>6, <1>8, <1>9, <2>1, <2>2 DEF IInv, TypeOK
<1>11. /\ Seen' = Seen /\ versions <= versions' /\ received' \subseteq 1 .. versions'
       /\ 0 \in Seen /\ 0 \notin received
  BY <1>9 DEF Seen, IInv, TypeOK, Fresh
<1>12. ASSUME p \notin overlapped'
       PROVE  /\ index'[p].content = x.content /\ index'[p].mtime = x.mtime
              /\ file'[p].content \notin received'
              /\ x.pc = "mark" => Agrees(p)'
  <2>1. index[p].content = old.content /\ index[p].mtime = old.mtime
    BY <1>1, <1>2, <1>9, <1>12 DEF Kept
  <2>2. file'[p].content \notin received'
    BY <1>7, <1>8, <1>9, <1>11
  <2>3. x.pc = "mark" => Agrees(p)'
    BY <1>3, <1>9, <2>1, <2>2 DEF Agrees
  <2> QED BY <1>3, <1>9, <2>1, <2>2, <2>3
<1> QED BY <1>2, <1>3, <1>4, <1>6, <1>7, <1>8, <1>9, <1>10, <1>11, <1>12, AssemblerKeeps

\* The new file is moved into place.
LEMMA MoveNewKeeps ==
    ASSUME IInv, NEW p \in Path, NEW a \in Assembler, MoveNew(p, a)
    PROVE  IInv'
<1> DEFINE old == assembling[p][a]
           x == [old EXCEPT !.pc = "mark"]
           f == [content |-> old.content, mtime |-> old.mtime]
<1>1. old # None
  BY DEF MoveNew, Assembles
<1>2. /\ old \in Assembly /\ old.content \in Seen
      /\ index[p] # None /\ index[p] \in Metas /\ index[p].content \in Seen
      /\ p \notin overlapped =>
            Quiet(p) /\ Kept(p) /\ \A b \in Assembler : b # a => assembling[p][b] = None
  BY <1>1, JobAlone
<1>3. x \in Assembly /\ x.content = old.content /\ x.mtime = old.mtime /\ x.pc = "mark"
  BY <1>2 DEF Assembly
<1>4. x # None
  BY <1>3, NoneAssumption
<1>5. assembling' = [assembling EXCEPT ![p][a] = x]
  BY DEF MoveNew, IInv, TypeOK
<1>6. f \in [content : Contents, mtime : Times] /\ f.content = old.content /\ f.mtime = old.mtime
  BY <1>2 DEF Assembly
<1>7. file' = [file EXCEPT ![p] = f]
  BY DEF MoveNew, AssembledMtime
<1> HIDE DEF x, f
<1>8. /\ assembling' \in [Path -> [Assembler -> Assembly \cup {None}]]
      /\ assembling'[p][a] = x
      /\ \A b \in Assembler : b # a => assembling'[p][b] = assembling[p][b]
      /\ \A q \in Path : q # p => assembling'[q] = assembling[q]
  BY <1>3, <1>5, JobFacts DEF IInv
<1>9. /\ file' \in [Path -> [content : Contents, mtime : Times]] /\ file'[p] = f
      /\ \A q \in Path : q # p => file'[q] = file[q]
  BY <1>6, <1>7 DEF IInv, TypeOK
<1>10. /\ now' = now /\ versions' = versions /\ index' = index /\ received' = received
       /\ prepared' = prepared /\ removed' = removed /\ UNCHANGED queueVars
       /\ worker' = worker /\ tasks' = tasks /\ is_indexing' = is_indexing
       /\ overlapped' = overlapped /\ retries' = retries
  BY DEF MoveNew, queueVars
<1>11. TypeOK'
  <2>1. events' \in [Path -> Nat]
    BY BoundsAssumption DEF MoveNew, IInv, TypeOK
  <2>2. misled' \subseteq Path
    BY DEF MoveNew, IInv, TypeOK
  <2> QED BY <1>8, <1>9, <1>10, <2>1, <2>2 DEF IInv, TypeOK
<1>12. Seen' = Seen /\ versions <= versions' /\ received' \subseteq 1 .. versions'
  BY <1>10 DEF Seen, IInv, TypeOK, Fresh
<1>13. ASSUME p \notin overlapped'
       PROVE  index'[p].content = x.content /\ index'[p].mtime = x.mtime /\ Agrees(p)'
  <2>1. index[p].content = old.content /\ index[p].mtime = old.mtime
    BY <1>1, <1>2, <1>10, <1>13 DEF Kept
  <2> QED BY <1>2, <1>3, <1>6, <1>9, <1>10, <2>1 DEF Agrees
<1> QED BY <1>2, <1>3, <1>4, <1>6, <1>8, <1>9, <1>10, <1>11, <1>12, <1>13, AssemblerKeeps

\* A worker ends, having found the place taken, or marking the Meta of the path as
\* assembled.
LEMMA EndKeeps ==
    ASSUME IInv, NEW p \in Path, NEW a \in Assembler, MoveFails(p, a) \/ MarkAssembled(p, a)
    PROVE  IInv'
<1>1. /\ assembling[p][a] # None
      /\ \/ assembling[p][a].pc = "move" /\ file[p].content # 0
         \/ assembling[p][a].pc = "mark"
  BY DEF MoveFails, MarkAssembled, Assembles
<1>2. /\ index[p] # None /\ index[p] \in Metas /\ index[p].content \in Seen
      /\ p \notin overlapped =>
            Quiet(p) /\ Kept(p) /\ \A b \in Assembler : b # a => assembling[p][b] = None
  BY <1>1, JobAlone
<1>3. /\ now' = now /\ versions' = versions /\ received' = received /\ file' = file
      /\ events' = events /\ prepared' = prepared /\ removed' = removed /\ UNCHANGED queueVars
      /\ worker' = worker /\ tasks' = tasks /\ is_indexing' = is_indexing
      /\ overlapped' = overlapped /\ retries' = retries /\ misled' = misled
      /\ assembling' = [assembling EXCEPT ![p][a] = None]
  BY DEF MoveFails, MarkAssembled, queueVars, diskVars, historyVars
<1>4. /\ assembling' \in [Path -> [Assembler -> Assembly \cup {None}]]
      /\ assembling'[p][a] = None
      /\ \A b \in Assembler : b # a => assembling'[p][b] = assembling[p][b]
      /\ \A q \in Path : q # p => assembling'[q] = assembling[q]
  BY <1>3, JobFacts DEF IInv
<1>5. /\ index' \in [Path -> Metas \cup {None}]
      /\ \A q \in Path : q # p => index'[q] = index[q]
      /\ index'[p] # None /\ index'[p].content = index[p].content
      /\ index'[p].mtime = index[p].mtime
  <2>1. CASE MoveFails(p, a)
    BY <1>2, <2>1 DEF MoveFails, IInv, TypeOK
  <2>2. CASE MarkAssembled(p, a)
    <3> DEFINE i == [index[p] EXCEPT !.assembled = TRUE]
    <3>1. i \in Metas /\ i.content = index[p].content /\ i.mtime = index[p].mtime
      BY <1>2 DEF Metas
    <3>2. i # None
      BY <3>1, NoneAssumption
    <3>3. index' = [index EXCEPT ![p] = i]
      BY <2>2 DEF MarkAssembled, IInv, TypeOK
    <3> HIDE DEF i
    <3> QED BY <3>1, <3>2, <3>3 DEF IInv, TypeOK
  <2> QED BY <2>1, <2>2
<1>6. TypeOK'
  BY <1>3, <1>4, <1>5 DEF IInv, TypeOK
<1>7. /\ Seen' = Seen /\ versions <= versions' /\ received' \subseteq 1 .. versions'
      /\ file[p].content \in Seen
  BY <1>3 DEF Seen, IInv, TypeOK, Fresh
<1>8. ASSUME p \notin overlapped' PROVE Agrees(p)'
  <2>1. Kept(p) /\ Settled(p) /\ \A b \in Assembler : b # a => assembling[p][b] = None
    BY <1>2, <1>3, <1>8 DEF IInv
  <2>2. Agrees(p)
    <3>1. CASE assembling[p][a].pc = "move" /\ file[p].content # 0
      BY <1>1, <2>1, <3>1 DEF Kept, Agrees
    <3>2. CASE assembling[p][a].pc = "mark"
      BY <2>1, <3>2 DEF Settled, Placed
    <3> QED BY <1>1, <3>1, <3>2
  <2> QED BY <1>2, <1>3, <1>5, <2>2 DEF Agrees
<1> QED BY <1>2, <1>3, <1>4, <1>5, <1>6, <1>7, <1>8, AssemblerKeeps
-----------------------------------------------------------------------------
LEMMA QueueKeeps ==
    ASSUME IInv, Poll \/ \E p \in Path : HandleDirEvent(p)
    PROVE  IInv'
<1>1. CASE Poll
  <2>1. ReindexList \in SUBSET Path
    BY DEF ReindexList
  <2> QED BY <1>1, <2>1, AddKeeps DEF Poll, diskVars, IInv, TypeOK
<1>2. ASSUME NEW p \in Path, HandleDirEvent(p) PROVE IInv'
  <2>1. events' \in [Path -> Nat]
    BY <1>2 DEF HandleDirEvent, IInv, TypeOK
  <2>2. UNCHANGED <<now, versions, file, index, assembling, retries, historyVars>>
    BY <1>2 DEF HandleDirEvent
  <2>3. CASE AddIndexing({p}) /\ prepared' = prepared
    BY <2>1, <2>2, <2>3, AddKeeps DEF IInv, TypeOK
  <2>4. CASE /\ prepared[p] > 0 /\ prepared' = [prepared EXCEPT ![p] = @ - 1]
             /\ UNCHANGED queueVars
    <3>1. prepared' \in [Path -> Nat]
      BY <2>4 DEF IInv, TypeOK
    <3>2. TypeOK'
      BY <2>1, <2>2, <2>4, <3>1 DEF IInv, TypeOK, queueVars, historyVars
    <3> QED BY <2>2, <2>4, <3>2 DEF IInv, queueVars, historyVars, Known, TasksAlive, Fresh,
               Alone, Kept, Settled, Placed, Agrees, Assembling, Sound, Seen, Workers,
               InProgress, At
  <2> QED BY <1>2, <2>3, <2>4 DEF HandleDirEvent
<1> QED BY <1>1, <1>2

LEMMA IInvNext ==
    ASSUME IInv, [Next]_vars
    PROVE  IInv'
<1>1. ASSUME UNCHANGED <<versions, file, index, queueVars, assembling, historyVars>>, TypeOK'
      PROVE  IInv'
  BY <1>1 DEF IInv, queueVars, historyVars, Known, TasksAlive, Fresh,
              Alone, Kept, Settled, Placed, Agrees, Assembling, Sound, Seen, Workers,
              InProgress, At
<1>2. CASE UNCHANGED vars
  <2>1. TypeOK'
    BY <1>2 DEF vars, diskVars, queueVars, historyVars, IInv, TypeOK
  <2> QED BY <1>1, <1>2, <2>1 DEF vars, diskVars
<1>3. CASE Tick
  <2>1. now' \in Times
    BY <1>3, BoundsAssumption DEF Tick, IInv, TypeOK, Times
  <2>2. TypeOK'
    BY <1>3, <2>1 DEF Tick, queueVars, historyVars, IInv, TypeOK
  <2> QED BY <1>1, <1>3, <2>2 DEF Tick
<1>4. ASSUME NEW p \in Path, NEW m \in SentMtimes, PutFile(p, m) PROVE IInv'
  BY <1>4, BoundFacts, PutKeeps DEF PutFile
<1>5. ASSUME NEW p \in Path, PutDeleted(p) PROVE IInv'
  BY <1>5, BoundFacts, PutKeeps DEF PutDeleted
<1>6. ASSUME NEW p \in Path, NEW a \in Assembler, AssemblerStep(p, a) PROVE IInv'
  BY <1>6, ArchiveKeeps, MoveNewKeeps, EndKeeps DEF AssemblerStep
<1> QED BY <1>2, <1>3, <1>4, <1>5, <1>6, QueueKeeps, WriteKeeps, RemoveKeeps, PeriodicKeeps,
           StartKeeps, WorkerKeeps DEF Next

LEMMA IInvInit == Init => IInv
<1> SUFFICES ASSUME Init PROVE IInv
  OBVIOUS
<1>1. NoFile \in [content : Contents, mtime : Times] /\ NoFile.content = 0
  BY BoundFacts DEF NoFile
<1>2. Free.pc = "free"
  BY DEF Free
<1>3. TypeOK
  <2>1. now \in Times /\ versions \in 0 .. MaxVersions
    BY BoundsAssumption DEF Init, Times
  <2>2. file \in [Path -> [content : Contents, mtime : Times]]
    BY <1>1 DEF Init
  <2>3. retries \in 0 .. MaxRetries
    BY BoundsAssumption DEF Init
  <2> QED BY <2>1, <2>2, <2>3 DEF Init, TypeOK
<1>4. \A w \in Worker : At(w, "free")
  BY <1>2 DEF Init, At
<1>5. Known /\ TasksAlive
  BY DEF Init, Known, TasksAlive, Assembling
<1>6. Fresh
  BY <1>1, <1>4 DEF Init, Fresh, Seen
<1>7. \A p \in Path : Alone(p) /\ Settled(p)
  <2>1. \A p \in Path : ~Assembling(p) /\ Kept(p)
    BY DEF Init, Assembling, Kept
  <2>2. \A p \in Path : Agrees(p)
    BY <1>1 DEF Init, Agrees
  <2> QED BY <2>1, <2>2 DEF Alone, Settled
<1> QED BY <1>3, <1>4, <1>5, <1>6, <1>7 DEF IInv

LEMMA Invariance == Spec => []IInv
<1>1. IInv /\ [Next]_vars => IInv'
  BY IInvNext
<1> QED BY IInvInit, <1>1, PTL DEF Spec

\* Every variable keeps its type, whatever users, workers and the assembler do.
THEOREM IndexerTypes == Spec => []TypeOK
<1>1. IInv => TypeOK
  BY DEF IInv
<1> QED BY Invariance, <1>1, PTL

\* IndexerQueue::metaCreated and metaFailed take off the task of the path, be it
\* their worker's or a newer one's; still no deleted worker stays among tasks_,
\* for any number of paths and workers, and the StateCollector is told right.
THEOREM NoDeadTask == Spec => []TasksAlive
<1>1. IInv => TasksAlive
  BY DEF IInv
<1> QED BY Invariance, <1>1, PTL

\* AssemblerWorker sets the mtime of what it puts in place and IndexerWorker
\* compares mtimes first: for any number of events, skipped or not, and Metas that are
\* received while older ones are assembled, what the assembler does is not taken for a
\* user's edit unless workers met at the path.
THEOREM NoEchoOfAssembler == Spec => []NoEcho
<1>1. IInv => NoEcho
  BY DEF IInv, NoEcho, Sound, At
<1> QED BY Invariance, <1>1, PTL
=============================================================================
