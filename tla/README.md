# ChinamaX, specified

TLA+ modules, TLC runs and TLAPS proofs about the ChinamaX runtime
(`src/src/chinamax`): the Python program that dispatches coding *Jobs* to
detached worker processes, keeps their state on disk, and lets a Bridge agent
poll, steer, cancel and resume them.

## 1. The system

There is no server. Every actor is an operating-system process that reads and
writes one directory per workspace, and the only synchronisation is an
exclusive `flock` on `state.lock`, held for single critical sections. Whatever
happens between two critical sections, processes of all kinds interleave, and
any of them may be killed.

| part | code | state it keeps | operations | correct when |
|---|---|---|---|---|
| Job store | `state.py` `JobStore`, `new_record` | one JSON record per Job, a derived index, sidecars (log, transcript, result, steer queue) | `reserve_id`, `create`, `update` (compare-and-swap on the status), `claim`, `create_resume`, `prune`, lock-free `read` | a verdict is final; readers never see a half record; pruning takes only finished Jobs |
| Job lifecycle | `__main__.py` `run_task`, `_spawn_worker`, `run_task_worker`, `run_cancel`, `run_resume` | the steps of CLI and worker processes | dispatch, spawn, claim, heartbeat, terminal write, cancel, resume, relaunch | one executor per Job, one active Job per Thread lineage, no stranded Job, `interrupted` means dead |
| Thread | `transcript.py` | a JSONL transcript per Job | append turn, append steer, replay with repair, merge a follow-up, copy | a replay is the history the model saw, and one an endpoint accepts |
| Loop and steer queue | `loop.py`, `run_steer` | in-memory history, the dedupe set, the queue directory and `consumed/` | seed, drain, request, record, answer or nudge, sweep | an accepted steer reaches the model exactly once, in order |
| Liveness | `liveness.py` | attempt counter, watchdog deadline | attempt, beat, classify, back off | a silent stream is cut, a working one never; retries end |
| Supervision | `state.py` `stamp_supervision`, `reap_stale_supervision`, `status --wait` | two fields of the record | stamp per poll, stale sweep from hooks | a Job whose Bridge polls is not killed, one whose Bridge vanished is |
| Sessions | `state.py` registry and reaps, `hooks/` | a registration file per host session | SessionStart, SessionEnd, `reap`, garbage collection | Jobs of an ended session end with it, Jobs of a live one do not |
| Tree termination | `state.py` `terminate_tree` | the process table | snapshot, SIGTERM, rescan, SIGKILL | no descendant survives, nobody else is hit |
| Store files | `state.py` `_sync_index`, `_drop_job`, `job_ids`, `load_records` | record files, `state.json`, five sidecars per Job | reserve, publish, rebuild, prune, list, `logs`, late steers | the index follows the records; a reader sees whole Jobs; leftovers have a cause |
| Policy | `policy.py` | hook configuration, injected Memory | Pre/PostToolUse, Stop, first-turn and lazy Memory | a denied tool never runs, a blocked report never ends a Job, Memory is shown once |
| Worker MCP, child processes | `policy.py` `WorkerMCP`, `_run_hook`; `tools/bash.py` | sessions, tasks, routes; a shell with its group and pipes | start, dispatch, close; spawn, wait, kill, join | no wait outlasts its timeout unnoticed; what was killed is gone; every server is told to stop |
| Tools, confinement | `tools/`, `confinement.py` | workspace files | read, write, patch, bash, search | a patch applies wholly or not at all; paths stay inside |
| Configuration | `spec.py`, `profiles.py`, `host.py`, `doctor.py` | settings files | parse, resolve, set up | pure look-ups; installation |

They interact through the record (everyone), through signals (cancel and reaps
kill the worker's process tree), and through files dropped for the worker
(steers) or left by it (transcript, result).

The behaviours that make it hard, each at its line, are the `hazards` of
`PROJECT.json`.

## 2. Modules

| module | models | checked by |
|---|---|---|
| `JobRecords` | a record, its grading, claim and resume guards, prune, as operators | through `JobLifecycle` |
| `JobLifecycle` | all processes that write records of one workspace | `jobs_*` |
| `JobContract` | what the store promises a dispatcher, without processes | refined in `jobs_claims` |
| `Thread` | the transcript file, torn writes, replay, repair, merge, as operators | through `SteeredThread` |
| `SteeredThread` | a Job's loop with its Thread, its steer queue and the `steer` processes, over crashes, relaunches and resumes | `thread_*` |
| `SteerMailbox` | what steering promises | refined in `thread_history` |
| `Supervision` | polls that stamp a record, the sweep that kills a Job whose Bridge went silent | `supervision_sweep` |
| `Sessions` | Claude processes, their SessionStart and SessionEnd hooks, registry and reaps | `sessions_*` |
| `CodexReapers` | detached reapers of Codex sessions and the lifecycle token | `codex_reapers` |
| `Ladder` | one assistant turn: attempts, the watchdog thread, classification, backoff | `ladder_turn` |
| `TreeKill` | `terminate_tree` over a process table that changes under it | `tree_sweep` |
| `StoreFiles` | the verbs and workers of one workspace, file by file | `store_files` |
| `Patch` | `apply_patch`: hunks, dry run, staging, commit | through `ToolTurn` |
| `ToolTurn` | the tool uses of assistant turns between their hooks, with patches and Memory | `tool_turn` |
| `Calls` | the loop thread's waits on MCP servers, hooks and bash commands | `calls_waits` |
| `X_proofs` for `X` one of `JobLifecycle`, `StoreFiles`, `Sessions`, `CodexReapers`, `SteeredThread`, `Calls` | theorems about `X` and their proofs | `tlapm` |
| `Turn_proofs` | those about `Ladder`, `Patch` and `ToolTurn`, which an assistant turn goes through | `tlapm` |
| `Sweep_proofs` | those about `Supervision` and `TreeKill`, the sweep of a stale Job and of its processes | `tlapm` |

`JobLifecycle` takes a kill as one step and leaves open whose Jobs a reap
picks; `TreeKill`, `Sessions`, `CodexReapers` and `Supervision` open these up,
each with as little of the record as it needs. It also takes a critical section
as one step; `StoreFiles` cuts it into file operations, with the readers that
take no lock in between. `SteeredThread` takes a model call as one step, which
`Ladder` opens up, and the answer to a turn as one step, which `ToolTurn` opens
up; `ToolTurn` EXTENDS `Patch`, and takes a hook, a command or an MCP call as
one step, which `Calls` opens up.

`MC*.tla` extend a module for TLC, `MC*.cfg` are the instances. `Ladder` and
`TreeKill`, which share a proof module with another component, carry their name
in that of their specification (`LadderSpec`, `TreeSpec`).

### JobLifecycle

One action is one critical section of `state.lock`, or one effect outside it
that somebody else can see: the O_EXCL reservation, the spawn, a kill, a
lock-free read. The prune that follows a verb is an action of the same process
because the code takes the lock anew for it.

- `rec[j]` is the record. `pid` stands for pid and start time together, so a
  worker process is used once. `stale` is the comparison of `updatedAt` with
  the grace. `completedAt` is the rank of the terminal write, which is what a
  prune orders by.
- `worker[w]` and `client[c]` are program counters with the locals that
  outlive a step. `client[c].seen` is the pid a cancel or reap read *before*
  it kills and writes: that gap is in the code and in the model.
- `ClientStarts` are new verbs; `ClientContinues` their remaining steps, in
  code order. `task` is `TaskReserve`, `TaskCreate`, `SpawnWorker` (or
  `SpawnFails`), `RecordPid`, `ClientPrune`; `resume` starts with
  `ResumeCreate`, one critical section with guard, copy and record.
- The host check before a claim leaves the record alone and ends the process,
  which is `WorkerCrash` before `Claim`. An exception out of the worker's own
  failure handler is `WorkerCrash` too.
- What is bounded: Jobs, processes, and `Keep` (50 in the code, 1 here, so that
  prunes happen with two Jobs). A process table that never forgets makes every
  behaviour finite, hence `CHECK_DEADLOCK FALSE`.

### Thread and SteeredThread

A content block is a kind and an id; text is never spelled out. A line is one
appended record; a file knows whether its last line has its newline. `Torn` is
what a kill inside a write leaves. `Repair`, `Coalesce`, `Replay`,
`MergeFollowUp` translate the functions of `transcript.py`; their loops over the
messages are recursive functions on the number of messages read (`Selected`
picks blocks likewise), so that they can be reasoned about.

The loop is cut where another process can look or a crash matters: each append,
each rename, the request, the sweep, the terminal write. `seen` is the last
request, a history variable. The drain's listing is a set of names of which it
takes the eldest (`Eldest`, `Passed`), as a sorted list gives them.
`sender[n].after` remembers which steers were in
place when the n-th was named. `status` is the grade the verbs compute;
claims, pids and prunes are `JobLifecycle`'s business. A cancel is a `Crash`
whose record is then terminal, and adds nothing to the Thread.

Policy hooks, Memory blocks and Worker-MCP calls change the content of a
results turn, not its place, and are left to `ToolTurn`. Retry records are skipped by
every reader and left out.

### Supervision

`job` holds the record's status, the stored bound and the ages of its stamp and
of its heartbeat; ages stop growing at `Horizon`, past every threshold. A
poller is one caller of `status --wait`: `PollRead` computes the bound to store
from what it read, `Stamp` is the compare-and-swap that follows without the
record being read again, `PollReturn` ends the wait. The code cannot tell the
Bridge from an operator and neither can `PollRead` or `Stamp`: operators poll
when they like, also before the Bridge's first stamp, and every stamp writes a
bound computed from a read that may be old by then. `StampFails` is the
exception `stamp_supervision` swallows: the poll waits as if it had stamped. A
sweeper is one hook: `SweepList`, `SweepReread`, `SweepKill`, `SweepMark`.

Two history variables say why a Job may read as stale beside a Bridge that
polls. `missed` counts the Bridge's stamps that failed in a row, and
`OutOfTouch` is more than `Lost` of them. `basis` is the bound that was read by
the poll whose stamp stands; `Undercut` is a stamp that stores less than the
Bridge's bound and was made from a read of less than it. The property is that a
hook passes its second look for no third reason.

Assumed of the Bridge: it polls again within `Delay`, and the first time within
`FirstDelay`. The instance sets `Delay` to the largest value at which one failed
stamp is within the threshold; one tick more and TLC refutes the property, as it
does for a larger `FirstDelay` beside an operator that polls with the Bridge's
own bound.

### Sessions and CodexReapers

In `Sessions` a hook is a small program run by its Claude process, one step per
file or record it touches: `Register`, `ListPredecessors`, then per session
`ListActive`, `SpareOne` or `KillOne` (or `WorkerSurvives`), `MarkOne`,
`RemoveRegistration`; with no target the same steps are the orphan reap, then
`ListRegistrations` and `Unlink` collect garbage. `todo` keeps the pid that was
listed: the kill goes by it, the mark does not look again, as in the code. A
hook dies with its process and may be killed at its time limit, though not
before its first write; `ReapVerb` is `reap --orphans` from a shell. A dispatch
is `Task` (which fixes the session), `Create`, `Spawn`, `PidLands`, so that a
record may land after the reap of its session. A session that has ended may be
resumed, by the same process or another (`StartSession`), while hooks of a third
are still at it. `stale` of a hook is history: the sessions it was reaping, had
in hand to mark a Job of, or had read the registration of, when another process
registered them. `Hosts` bounds which process hosts what, and `Budget` the hooks
that are killed and the verbs that are run.

`CodexReapers` has what differs on Codex: the SessionEnd hook does not reap but
starts a reaper that outlives everything, a session may start again under the
same id, also beside a lifecycle that still runs, and the token tells its
lifecycles apart. SessionStart comes again in a lifecycle that is compacted,
cleared or resumed and mints a new token each time (`Start`). The hook takes the
token of the registration, whoever's that is, else the one of its environment,
which may have none; a dispatch likewise reads its token first (`Task`) and lands
its record later (`Create`). `seen` and `before` are history: the lifecycles that
had begun when the hook chose, and the records that were there when the reaper
listed. A hook whose `Popen` fails is `Abort`. The prompt and stop hooks only
print or sweep supervision and change no session state.

### Ladder

`reader` is the loop thread, `watch` the watchdog thread of the attempt; what
they share is `done`, `fired`, the age of the last beat. The endpoint is
unconstrained: it answers, pings, sends content, breaks off, errs, or stays
silent for ever. `silence` counts ticks since content, `quiet` since any
traffic, which is what httpx counts. The watchdog polls often enough to fire in
the tick in which it may (`Tick` waits for it). That closing a response ends
its reading is the SDK's behaviour and enters as fairness only: an event that
arrives behind the close may still be read.

### TreeKill

A process has a state, a parent, a group, whether it ignores SIGTERM
(`stubborn`), and whether it is one of the worker's or a stranger with a used
pid (`kin` is what the start time tells). `Exit` makes a zombie and hands the
children to `Adopter`; `Reap` frees the pid; `Reuse` gives it away. `Snapshot`,
`LookUpGroups`, `SignalGroup` (one `killpg`), `LookAgain`, `Confirm` are the
sweep. One read of the whole table is one step. Left out: the caller's own
group, which a worker never is in, the start time a platform cannot tell, and
`_terminate_tree_windows`.

### StoreFiles

Every file operation is a step of the process that makes it: the `O_EXCL`
reservation (`Reserve`), the rename of a record (`Publish`), the index
(`Sync`), each sidecar, each unlink of a prune (`Remove`, in `DropOrder`). The
lock is a variable, freed when its holder dies, and a step between two critical
sections is anybody's. A process has one record `now[p]` with its verb, its
program counter and what it has read. `rec` tells the three states of a record
file that readers tell apart: empty (reserved), active, finished; claims, pids
and lineage are `JobLifecycle`'s. `Dropped` picks any finished Jobs beyond
`Keep`: which of them are the oldest is data. A write to a sidecar looks at no
record, and one that comes after the record went is `late`; `cut` and `torn`
remember crashes inside a removal and before an index rewrite. Ids are used
once, as `new_job_id` gives them. The dispatcher makes the spawn log (`Spawn`)
and then the child (`Launch`); where either fails (`SpawnFails`) it writes the
verdict itself, by the compare-and-swap of any terminal write (`Terminal`).

### Patch and ToolTurn

A file is its lines and whether the last is terminated. A diff between two files
follows a script: lines both have, lines dropped and lines added (`Aligned`).
Its hunks show stretches of the script, as many as one likes, with context
before, between and after the changes or without, next to each other or apart;
what they leave out has not changed (`Cut`). `EditOf` is the parser's result for
such a diff, and remembers the file it was made from, the one it means and the
script. `Accepted` is `_plan` with `_apply_hunks`, `Commit` the operations
`execute` goes through; `StageFile`, `RenameFile`, `UnlinkFile` carry one out
each and may fail. What is still to be done is a set of operations (`todo`), and
`Precedes` their order: all writes are staged before the first rename, all
renames done before the first deletion. A diff meets the workspace it was made from or one of
`Disks`. Confinement enters as the set `Confined`.

`ToolTurn` runs the uses of a turn in order. A hook has eight outcomes
(`Outcomes`), an event is what a chain of hooks comes to (`PreEvents`,
`StopEvents`, `PostEvents`): the operators translate how the loops over the
hooks end, with an exception in one hook ending its event. `PreTool`/`PrePatch`,
`Dispatch`/`StartPatch` .. `PatchReturns`, `Post`, `LazyMemory` are the steps of
one use; `Report` and `RefuseReport` the branches of `report_result`; `EndTurn`
records the turn. What a use is gets chosen when the loop reaches it, since
nothing looks at it earlier. `shown` counts Memory in the Thread, `injected` is
what the worker believes, `lost` what it marked and dropped. Directories are
a set with their `Depth`; those of one depth come in any order, as the order of
the files that named them decides. A crash loses all
but the Thread; `Seed` derives `injected` from it.

### Calls

The loop thread waits for one thing at a time: `phase`, with `waited` ticks of
the timed wait it is in and `spent` ticks since a timer should have run. The
servers connect, fail, die and end on their own (`ServerStep`), a call's effect
lands when it likes (`Land`), and so do the exits of a command's processes.
Descendants of a shell are four kinds, by what a kill can see: in its group or
not, in its tree or not. `Killed` is `_kill_group` for bash and the end of
`terminate_tree` for a hook, with the sweep itself taken as one step (`TreeKill`
has the rest). A close waits twice: for the servers (`CloseOver`), then for the
thread of the event loop (`StopOver`). Windows branches are left out, and so are
processes forked between the signals.

## 3. Runs

| run | instance | shows |
|---|---|---|
| `jobs_claims` | 1 Job, 3 workers, 2 clients that may die, relaunches, fairness | `SingleExecutor`, `InterruptedIsDead`, `NoStrandedJob`, refinement of `JobContract` |
| `jobs_lineage` | 3 Jobs, 2 workers, 2 clients | `LineageExclusive`, `VerdictIsFinal` |
| `thread_history` | 2 steers, 1 turn, 3 runs, unreadable files and failing renames | `SteersAsSent` (once each, in order), `RequestIsWellFormed`, `HistoryOnlyGrows`, refinement of `SteerMailbox` |
| `thread_torn` | 1 steer, torn appends | violated: `ThreadStaysReadable` |
| `supervision_sweep` | a Bridge, an operator, a sweeper, failing stamps of which the Bridge can afford one, fairness | `SupervisedIsNotKilled`, `CrashIsSeen`, `OrphanedJobEnds` |
| `sessions_ends` | 2 processes that host 2 sessions, one of them in turn, and a shell; 1 Job; 1 killed hook or reap verb; fairness | `LiveSessionStaysRegistered`, `LiveSessionKeepsJobs`, `EndedSessionLeavesNoJob` |
| `codex_reapers` | 3 lifecycles, two of them of one session with up to 2 SessionStarts each, 1 Job | `RunningLifeIsSpared` (its Jobs and its registration), `LeftoversHaveACause` |
| `ladder_turn` | 3 attempts, 2 ticks of inactivity, Retry-After past the cap, fairness | `WatchdogIsHarmless` (to a complete turn and to the next attempt), `RetryAfterIsClampedFloor`, `SilenceEndsTheTurn` |
| `tree_sweep` | a tree of 3 and a fourth pid, forks, reuse | `TargetsAreGone`, `NoStrangerHit` |
| `store_files` | 2 Jobs, 2 processes of any verb, failing spawns, prunes that keep none, 1 crash | `IndexCatchesUp`, `OrphansHaveACause`, `ReadersSeeWhole` (`logs` and the listings), `OnlyFinishedAreDropped` |
| `tool_turn` | 2 turns of 2 uses, 2 + 1 + 2 hooks, patches of 1 or 2 files in the first turn, 1 crash | `AnsweredInOrder`, `ObjectionsHold`, `MemoryShownOnce` (what is marked is shown, once), `WholeOrNothing`, `OkIsTheDiff` |
| `calls_waits` | up to 2 servers, 2 MCP calls, commands and hooks with up to 2 descendants | `OverrunHasACause`, `TimedOutIsGone`, `ServersAreKnown` (in time: advertised; at the end: told) |

A run checks a conjunction where two promises answer one question; the parts keep
names of their own in the module. `TypeOK` is checked for `JobLifecycle`,
`SteeredThread`, `StoreFiles`, `ToolTurn` and `Calls`. That of the other modules
holds in the same instances and is kept for proofs; it is no part of a run.

The bounds are the smallest at which every conflict has its actors.

- Jobs: a claim race needs a worker that runs, one that crashed and one that is
  relaunched, and a reader of the record beside a writer; that is one Job,
  three workers, two clients. Lineage needs three Jobs (two resumes of one
  source), and a prune that has something to keep and something to drop.
- Thread: three runs are a crash, a second crash in the relaunch, and a run
  that sees what both left; two steers have an order. One model turn takes
  every form a turn may have; later ones add length, and `Repair` only looks
  at the end.
- Supervision: bounds of 2 and 1 ticks tell the thresholds of Bridge and
  operator apart, 3 is that of a record never stamped; one operator is enough to
  read before the Bridge and write after it; one sweeper may look, be passed by a
  stamp, and look again.
- Sessions: the first process hosts two sessions, which is `/clear`, and the
  second resumes one of them while a hook of the first, or the shell's reap, may
  still be at it.
- Codex: two lifecycles of one session overlap, restart and end in every order,
  with two tokens each; the third belongs to another session and competes for
  the lock.
- Ladder: three attempts have a first, a middle and a last one; `Cap` lies
  between the first and the last backoff and below the longest Retry-After.
- Tree: worker, a command in its own session, a child of that, and one pid to
  fork into, which may be reused as well.
- Store files: with `Keep` 0 (50 in the code) a prune takes a finished Job while
  the other is reserved, active or finished, which two Jobs would hardly meet
  with a larger one; the theorems are for every `Keep`. Two processes, so that one stands between any two file operations of the other;
  one log line (`MaxLog`) tells an empty log from one with text; one crash.
- Tool turn: two uses have an order, two turns a replay between them; two Pre
  and Stop hooks, so that one may stand behind another that objects or raises;
  one crash with its relaunch. Patches come as the first use of the first turn
  (`PatchTurns`): every script of up to two lines over two contents, and three of
  five or six lines, each cut into hunks in every way (962 diffs of one file,
  388 of them of three or more hunks); `Disks` has one workspace that no
  diff was made for. Directories are `a`, `a/b`
  and `c`, so that one lies below another and two side by side.
- Calls: a slow server before a prompt one; a call that timed out before
  another; two descendants, one to hold the pipes and one to be killed. The
  more servers, the fewer descendants (`MCDescendants`): they share no state but
  the loop thread. `ConnectTimeout` is two ticks so that there is a prompt
  connect and a late one; `Limit` lies past every sum of timeouts.

Symmetry is used where only safety is checked; nothing orders ids. Processes
that are used once, or that all have ended, stop the system: hence
`CHECK_DEADLOCK FALSE`.

## 4. Fairness

- `JobLifecycle`: a process that was started takes its next step, and time
  passes. Nothing says that a worker's loop ends (there is no turn bound, ADR
  0002) or that anybody runs a verb.
- `Supervision`: time passes, a poll stamps or fails to and moves on, a Bridge
  polls again or leaves, hooks go on. The sweep is asked for strongly: a session's prompts keep firing
  the hook, each of which sweeps anew, and a kill that fails is tried again by
  the next.
- `Sessions`: of every process that hosts sessions: hooks take their steps,
  SessionStart keeps coming in a session that lives (start, resume, compaction),
  and a process without a session starts one or exits; a kill does not fail for
  ever. The shell owes nothing. `EndedSessionLeavesNoJob`
  asks for a live session in its premise: with no Claude process left nothing
  of ChinamaX runs, and the code promises no more.
- `Ladder`: both threads run, time passes, a closed stream ends its reading. Of
  the endpoint nothing is asked.

The other modules state safety only and assume no fairness.

## 5. What is proved

Theorems hold for every value of the constants that the assumptions of the
module admit: any sets of Jobs, processes, sessions, pids or servers, any
timeouts and bounds. They are in the eight `*_proofs` modules; each rests on one
inductive invariant, called `IInv` unless said otherwise, which TLC has checked
on the module's instance too.

| theorem | states | provided that |
|---|---|---|
| `JobLifecycle`: `TypeCorrect`, `MutualExclusion`, `InterruptedSound` | `[]TypeOK`, `[]SingleExecutor`, `[]InterruptedIsDead` | |
| `VerdictFinality` | `VerdictIsFinal` | |
| `Refinement` | `ImplementsContract` | |
| `LineageExclusion` | `[]LineageExclusive` | `~AllowRelaunch` |
| `StoreFiles`: `TypeCorrect` | `[]TypeOK` | |
| `IndexIsBehindByReservations`, `OrphansExplained` | `[]IndexCatchesUp`, `[]OrphansHaveACause` | |
| `LockFreeReadersSeeWhole` | `[]ReadersSeeWhole` | |
| `PruneSparesTheUnfinished` | `OnlyFinishedAreDropped` | |
| `Supervision`: `SupervisedSpared` | `SupervisedIsNotKilled` | `Punctual` |
| `Sessions`: `LiveSessionRegistered`, `LiveSessionJobsKept` | `LiveSessionStaysRegistered`, `LiveSessionKeepsJobs` | |
| `CodexReapers`: `TypeCorrect`, `RunningLifeSpared`, `LeftoversExplained` | `[]TypeOK`, `RunningLifeIsSpared`, `[]LeftoversHaveACause` | |
| `Ladder`: `LadderTypeCorrect`, `HarmlessWatchdog`, `ClampedRetryAfter` | `[]LadderTypeOK`, `[]WatchdogIsHarmless`, `[]RetryAfterIsClampedFloor` | |
| `TreeKill`: `EmptyMeansGone` | `[]TargetsAreGone` | |
| `StrangersSpared` | `[]NoStrangerHit` | `~LateReuse` |
| `SteeredThread`: `TypeCorrect` | `[]TypeOK` | |
| `RequestsWellFormed` | `[]RequestIsWellFormed` | |
| `SteeringFaithful`, `MailboxImplemented`, `HistoryGrows` | `[]SteersAsSent`, `ImplementsMailbox`, `HistoryOnlyGrows` | `~MayTear` |
| `ToolTurn`: `TypeCorrect`, `EveryUseAnswered` | `[]TypeOK`, `[]AnsweredInOrder` | |
| `ObjectionsRespected`, `MemoryOnceShown` | `[]ObjectionsHold`, `[]MemoryShownOnce` | |
| `Patch`: `PatchIsWhole`, `PatchMeansItsDiff` | `[]WholeOrNothing`, `[]OkIsTheDiff` | |
| `Calls`: `TypeCorrect`, `OverrunsExplained`, `TimedOutGone`, `ServersKnown` | `[]TypeOK`, `[]OverrunHasACause`, `[]TimedOutIsGone`, `[]ServersAreKnown` | |

Every invariant, action property and refinement the passing runs check is in this
table.

The hypotheses on the right are switches of the modules, or, for `Punctual`, how
late a Bridge may be: the time for one poll more than it may lose stamps, the
wait included, is within the threshold of its own bound, and so are the first
delay and the polls that may be lost after it. It says nothing of operators.
None is for the prover's sake: without each of them TLC finds the property
violated, and section 6 says how. `~AllowRelaunch` is the setting of a run as
well, the others those of every run.

### The arguments

*JobLifecycle.* Mutual exclusion is not inductive: nothing in it says that a
claimed record names its claimant. `IInv` adds `PidIsExecutor` (a worker that
executes a Job is the pid of its record unless a verdict has settled the
record), from which exclusion and the soundness of the interrupted grade follow
at once, and three facts that make it inductive: a worker or client past its
first step has a Job (`WorkerHasJob`, `ClientHasJob`), and a reservation is
touched by its reserver only (`ReservationHeld`). The pid write is harmless
because its compare-and-swap expects `queued`; that is the step where the proof
needs the guard. The refinement maps a record to its phase and the claimants to
executors, and goes step by step from the same invariant. For the lineage a
second invariant (`LInv`) says that an open Job is in one pair of hands at a
time, its dispatcher's and then its worker's (`OneDispatcher`, `OneWorker`,
`HandsOfDispatchers`, `HandsOfWorkers`), so that nothing makes an active Job
again of one that reads as crashed; and that a lineage is named after a Job
created before its other members (`RootsAreOpen`). A relaunch is a second hand
on an open Job, hence the hypothesis. Assumptions used: `NoneAssumption` (an absent pid is no worker) and
`FiniteAssumption` for the prune's counts.

*StoreFiles.* A record only advances (empty, active, finished, gone), whoever
steps, and an id is used once: so what a process has read stays true of the past
and half true of the present. `Sound` says, for each verb and step, which half
it may rely on; the holder of a critical section relies on all of it, because
the others are `Gentle` to whoever has the lock. A lock-free reader relies only
on what no step undoes (`LogIsKnown`, `ListIsKnown`). The index is off exactly
while somebody stands between a record and `sync`, who then holds the lock.

*Supervision.* The heart is an account (`BridgeIsInTime`): the age of the stamp,
the ticks the Bridge may still take and the polls whose stamps it may still lose
never add up to more than the threshold of its own bound - whoever stamped last,
since every stamp sets the age to nought, whatever bound it stores. So a Job that
reads as stale within that time has a shorter bound in its record, and a stamp
never stores less than its poll has read (`NeverLessThanRead`): that is
`Undercut`.

*Sessions.* A session has one host, which is alive (`HostsAreSingle`), and once it
is registered nobody else is in its registration (`HostsAreRegistered`). `Left`
is what a hook may rely on for the sessions it reaps, found, or is about to mark
a Job of: no living process is registered for it, or the reaping process itself
is and has left it, or the session is in the hook's `stale`. It is stable, since
only `Register` puts a living process into a registration, and that is what
fills `stale`. `HooksFit` is this for every step of a hook. `LiveSessionKeepsJobs`
follows because a reap without target looks at the registration when it decides,
and one with a target was aimed at a session its process had left.

*CodexReapers.* What is registered is a token of a lifecycle of that session
which has begun (`RegistryOfTheBegun`), and the token in a record is of the
lifecycle that dispatched it (`RecordsOfTheirLife`). So a token a hook finds is
of a lifecycle it has `seen`, and every Job the reaper holds carries that token
(`HoldsItsOwn`): a lifecycle that is not of the token is not touched.
`NoneForgotten` is the other half: a record that was there at the listing, is the
reaper's and still active, is yet to be taken, in hand, or reported.

*Ladder.* A turn read to `message_stop` is on its way out, whatever the watchdog
does afterwards (`StoppedIsLeaving`), since the flags of an attempt are looked at
only after its thread was joined.

*ToolTurn.* `AnsweredSoFar` says, for each step inside a use, which uses of the
turn have their answer: all before it, and it too from the PostToolUse hooks on.
`ReportsSeen` ties the report that was accepted, and the objections that were
raised, to the use the loop stands at; `BetweenTurns` that nothing of a turn
outlives it. A crash takes everything but the Thread, and `Seed` reads off it
exactly what it shows, so that the worker believes of a directory what the
Thread says, before the crash and after (`MemoryShownOnce` is inductive with
these). `TurnAssumption`: finitely many directories, each with a depth.

*Patch.* `Pending`: as long as some write is to be staged, every write that was
not yet staged, every rename and every deletion is still to be done, so that no
file has changed; then `Progress`, path by path (`EditAt`): a path with one edit
is staged when its rename is next, new when it was renamed, untouched before.
An interruption anywhere finds one of the two. `PatchAssumption` types the
constants.

`OkIsTheDiff` adds what `_apply_hunks` computes, for files of any length and any
number of hunks. `Counting` and `ScriptCounts` relate a place in the script to
the lines of both files before it. `GapIsKept`: between two hunks the script
keeps, so what is copied from the old file is what the new one has there.
`LineApplied` gives the loop's state after each line of a hunk: the line it has
come to in the old file, and how much of the new one is out; so after each hunk
the output is the new file up to the end of the hunk's stretch (`HunkApplied`),
and after the last, with the rest copied, all of it (`MeantLines`). `MeantIsMade`
adds the newline at the end. `after`, the loops of `ApplyHunk` and
`ApplyHunks` as recursive functions, are the functions so described, since two
that start alike and take like steps are equal (`Agree`). `DiffAssumption`: an
edit is a diff from a file to a file (`Meant`: any script, any hunks that show
all its changes), or names two different paths, which the dry run refuses. The
one thing asked of the hunks beyond that: where the new file has no newline at
its end, the mark says so, unless the old one had none either. Of a diff that was written for another file only
`WholeOrNothing` speaks.

*SteeredThread.* `Typed` is the type of files, worker and senders; that a
replay has it too rests on what the functions of `Thread` compute (below).
`Sent` compares three accounts of the steers: what the Thread's file records
(`Recorded`), what the worker remembers (its history, and the dedupe set), and
where the files lie. The memory agrees with the file whenever the loop runs
(`InStep`), since a replay keeps the steers of a file in their order; every
acknowledged steer, and every queued one that is recorded, is in the dedupe set
(`Tracked`); the recorded ones are in order (`InOrder`), and stay so because no
steer that is still to be injected is an elder of a recorded one
(`NoneOvertaken`). That holds through an injection because the eldest of a
listing is injected, and the listing contains the elders of what it contains
(`Listing`); a file that was skipped has lost that claim, as in the code. A
resume carries the steers of the old Thread over as text, without their ids:
its queue is empty then, and they cannot come again. The mailbox's `delivered`
is what the last request held; `Grew` says that the file never has less.
`~MayTear`: a steer that is glued to a line without newline is acknowledged and
cannot be read again.

That every request is well formed needs no such hypothesis. What is inductive is
`Clean`: whatever a relaunch could read of the file, and what the worker holds in
memory, each replays to a history an endpoint accepts, whose ids are below those
of the next turn (`Sound`). Memory and file need not agree: after a torn append
they differ. The file is `Sober`: sound if it parses, and sound in the lines that
the next append leaves alone, so that an append, a torn one, or one that is glued
to a line without newline finds something sound to join. What joins it is one of
three: a turn that answers nothing rides on the last user turn (`SoundRide`); a
turn of the model gets synthetic results for its uses (`SoundTurn`); an answer
follows the turn it answers, and the synthetic results complete it (`SoundAnswer`,
from `AnswersFit` for every turn the model may give). In each case the repair
leaves the turns before it alone, since the ids of a turn are newer than those
before it (`Below`, `FreshUses`). `HistoryTurn`, `HistoryRide` and
`HistoryAnswer` are the equations behind this: the replay of one line more, as a
function of the replay of the lines before. A resume copies a history that
replays to itself (`HistoryWhole`).

The history only grows where no append is torn. Then `Kept` holds beside `Clean`:
the worker's memory is exactly what a relaunch would read, and that extends the
last request (`Extends` is transitive, and an append or a ride extends).

*Induction.* What a recursive function computes is proved by induction over
0..n, which the installed provers do not have as a principle. `LeastOf` derives
the least element of a set of naturals from the well-foundedness of strict
inclusion on finite sets, `Induction` the principle for a set from that,
`FoldExists` and `Agree` that a recursion over 0..n defines the function it
describes, `SeqInduction` the same for sequences. `SelectedIs`, `SteersOfIs`,
`CoalesceIs` and `RepairIs` are then the recursion equations of the operators,
and `RepairFacts`, `CoalesceFacts`, `ReplayFacts` what they preserve.

*TreeKill.* Two invariants. `GoneInv`: at every look the targets contain what
lives of the first look, and no fork gets a pid that was seen (`SeenOnce`), so
the living targets only get fewer (`FewerTargets`). `StrangerInv`: a stranger
leads a group of its own in which nobody of the tree is listed, because the
kernel gives no pid away while a group has it; so a group looked up through a
listed process of the tree has no stranger in it until a pid is reused.

*Calls.* `WaitedWithin` and `SpentWithin` bound each wait and the sum of those
before it; an overrun is then one of the causes `Held` names. `Signalled` and
`Swept` follow the group and the tree through SIGTERM, grace and SIGKILL.
`Collected` accounts for every server by what it did and whether the loop has
passed it.

### What is not proved

Liveness (`NoStrandedJob`, `CrashIsSeen`, `OrphanedJobEnds`,
`EndedSessionLeavesNoJob`, `SilenceEndsTheTurn`): fairness and
ENABLED are out of the prover's reach, TLC checks them.

An action that sets several fields of one entry of a function writes one nested
EXCEPT, `[f EXCEPT ![k] = [f[k] EXCEPT !.a = .., !.b = ..]]`, rather than
several clauses for the same entry: the two say the same, but the prover's
translation of the second is unreliable.

## 6. Where the code and its comments part

Checked as a `violation` run, with quotes in `PROJECT.json`:

- `thread_torn`: a relaunch appends to a torn line and ruins the Thread.

Others, stated in the modules and refuted by TLC when the named
switch or property is put into the configuration of the module's run:

| where | change | what happens |
|---|---|---|
| `JobLifecycle` | `NoStrandedJob` without `Abandoned` | a dispatcher killed between the record and the pid write, its child dead before the claim: a queued record without a pid stays active for ever (`state.py:646` calls stranding what the immediate pid write avoids) |
| `JobLifecycle` | `CancelledIsStopped`, under `MCJobs_lineage.cfg` | a cancel that read a queued Job without a pid writes `cancelled` over the worker that claimed it in between, which goes on (`__main__.py:428`: "Never write `cancelled` over a Job that was not actually stopped.") |
| `JobLifecycle` | `AllowRelaunch = TRUE`, under `MCJobs_lineage.cfg` | a worker relaunched beside the first claims its Job after that one has crashed and a resume was created: the reclaim asks nothing of the lineage, and two of its Jobs are active |
| `SteeredThread` | `MayTear = TRUE`, under `MCThread_history.cfg` | a steer is appended to a line that a crash left without its newline, acknowledged, and unreadable at the next relaunch (`transcript.py:73`): `SteersAsSent` fails, and so does `HistoryOnlyGrows`, since the next relaunch sends less |
| `SteeredThread` | `RequestEndsInUserTurn`, under `MCThread_history.cfg` | a crash between a tool-less turn and its nudge: the relaunch sends a history that ends in an assistant turn (`loop.py:144`: "A seeded history always ENDS in an unsent user turn") |
| `SteeredThread` | `NoSilentLoss` | a steer that lands between the sweep and the terminal write is reported as queued, neither injected nor logged (`loop.py:207`) |
| `Supervision` | `NeverBelowTheBridge` | an operator's stamp, computed before the Bridge's first and written after it, lowers the bound; a sweep between two polls then kills a supervised Job, which `SupervisedIsNotKilled` excuses as `Undercut` (`state.py:1486`: "any regression is bounded below by the Bridge's own steady-state stamp") |
| `Sessions` | `ReapedIsStopped` | a Job listed before it had a pid is marked without a kill although its worker has claimed it since (`state.py:1338`) |
| `CodexReapers` | `DeliveredEndStopsJobs`, under `FairSpec` | each cause that `LeftoversHaveACause` names leaves a Job of the lifecycle active for ever: the lock is another reaper's, the token was superseded by a compaction, the record landed after the listing, the worker survived (`CONTEXT.md:46`) |
| `Ladder` | `PermanentFailsFast` | a permanent error read after the watchdog fired is retried as inactivity (`liveness.py:9`) |
| `Ladder` | `WatchdogFiresFirst` | without response headers there is no watchdog; the read timeout ends the attempt (`provider.py:28`) |
| `Patch` | `OnlyACrashSplits`, under `MCTool_turn.cfg` | a diff that names a path twice: the first rename takes the common temporary file, the second raises, and files before it stay changed (`tools/patch.py:8`: "Only a crash in the middle of the rename sequence can split a commit") |
| `Calls` | `StartIsMaxNotSum`, under `MCCalls_waits.cfg` | connects run side by side but are awaited in turn, each for its own timeout: two hung servers delay the first turn by the sum (`policy.py:1048`: "turn-1 delay = max, not sum") |
| `TreeKill` | `NoDescendantSurvives` | a child forked after the first look whose parent dies before the second is missed, and no survivor reported (`state.py:760`) |
| `TreeKill` | `LateReuse = TRUE` | a group that died out between look and signal may be a stranger's (`state.py:769`) |

Properties that hold only with an exception the code really makes:

- `LiveSessionStaysRegistered`: garbage collection unlinks a registration that was
  renewed since it was read (`state.py:1469`), and a reap of a session removes the
  registration its resumption has just written; both hooks have the session in
  `stale`. The next orphan reap takes the Jobs of the session that lives.
- `LiveSessionKeepsJobs`: a hook that was reaping a session when it was resumed
  goes on and takes the Jobs of the resumed one as well.
- `RunningLifeIsSpared`: the old hook may find the token of the next lifecycle in
  the file and hand it to its reaper (`session_start.py:90`); and a hook that finds
  neither registration nor token starts a reaper that goes by the visible session
  alone. `MayTouch` is these two.
- `WholeOrNothing` excuses a rename or deletion that fails (the files before it
  stay changed) and diffs that name a path twice.
- `OkIsTheDiff`: a file without a final newline never gets one, even when the
  diff adds it (`tools/patch.py:133` only ever turns the newline off).
- `InjectedIsShown`: when a deeper directory cannot be read, the blocks of
  shallower ones are dropped after being marked (`policy.py:1663`), so that
  their Memory is not shown in this run of the worker.
- `OverrunHasACause`: `run_bash` says it is "bounded by its timeout", but a
  background process that holds the pipes keeps the readers, and with them the
  loop thread (`tools/bash.py:195`); a hook that does not read its payload
  blocks before its timer starts (`policy.py:664`).
- `OrphansHaveACause`: a crash in a removal, or a write by somebody who had the
  paths in hand, leaves sidecars that no later prune looks for.
- `IndexCatchesUp`: a reserved id is in the directory before it is in the index,
  and stays as an empty record if its dispatcher dies.

## 7. Not modelled

Confinement and the text classifier of bash (string handling without state);
the doctor and the set-up of a host (the operator's machine, one command at a
time); Job specs, Profiles and host resolution (look-ups); discovery and
matching of hooks, Memory files and MCP servers (parsing); the read, search and
write tools (single operations); rendering. The wake-up comparison of
`status --wait`; the Windows variants of kills and pipes. A session is hosted by
one process at a time: what two hosts of one session do to each other is not in
`Sessions`. A detached reaper that is killed midway is not in `CodexReapers`.

## 8. Plan

Done: `JobRecords`, `JobLifecycle`, `JobContract` and the proofs of
`JobLifecycle`; `Thread`, `SteeredThread`, `SteerMailbox`; `Supervision`;
`Sessions`, `CodexReapers`; `Ladder`; `TreeKill`; `StoreFiles`; `Patch`,
`ToolTurn`; `Calls`. No module declares a RECURSIVE operator, so that all can be
proved about. The proofs of every one of them.

What is left: the wake-up comparison of `status --wait` in `Supervision`, and a
reaper that dies while it holds the lock in `CodexReapers`.
