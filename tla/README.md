# Verification of wddctl

TLA+ models of `wddctl` (`src/wave_delivery`), the control plane that admits tasks
of a scope to parallel work, gates their merges on evidence, and carries the epic
branch to a human's final merge. TLC checks the models on small instances; TLAPS
proves the main safety properties for every value of the constants.
`PROJECT.json` lists components, runs, mutants, the map from definitions to source
lines, findings, hazards and theorems.

## The system

`wddctl` is a command-line program. Each command is a short process; everything it
knows between commands is in `.wdd/state.json`, the directories `.wdd/epics/<slug>`
and `.wdd/archive/<slug>`, configuration files, and Git. Several controllers,
on several machines sharing a file system, may run commands at once, and any of
them may be killed. Workers and reviewers are agents outside the program; people
ratify, resolve blocked tasks and perform the final merge.

| Component | Source | State | Operations | Modelled in |
|---|---|---|---|---|
| Task engine | `engine.py`, `schema.py` | tasks (status, evidence, merge), scope, reconcile counter, notes | the events of `transition` | `TaskEngine` |
| Plan application | `plan.py` | the same, the plan's approval | `_apply_plan_to_state`, `apply_plan` | `TaskEngine`, `Intake` |
| Next queue | `engine.py` | none (reads) | `next_actions`, `bounded_next_actions` | `NextQueue` |
| Controller loop | `skills/wdd-run` and the commands it calls | the last answer of `next` | the loop's rules | `Controller` |
| State lock | `store.py` | the lock file, each process | `locked` | `StateLock` |
| Mutation envelope | `engine.py`, `store.py` | event log, keys, revision | `apply_mutation` | `Commits` |
| Epic lifecycle, archive | `setup.py`, `finalize.py`, `config.py` | active epic, parked epics, journal, directories | `epic new/park/resume`, `scope archive`, recovery | `Epics` |
| Finalize ladder | `finalize.py`, `github.py` | review, verification, handoff, delivered | the four `finalize` verbs, the rung of `next` | `Finalize` |
| Git delivery | `leases.py`, `merge.py`, `review.py`, `freshness.py`, `git.py`, park in `setup.py` | worktrees, branches, leases; the commits of the repository and its remote | `start`, `submit`, `review`, `verify`, `freshness`, `merge`, `refresh`, `release`, `epic park` | `GitDelivery` |
| Intake, governance and gates | `intake.py`, `plan.py`, `config.py`, `setup.py`, `cli.py` | approvals and the digests they are bound to; files people edit | `constitution ratify/amend`, `epic new`, `intake configure/spec/research/design`, `plan apply`, the gate of governed verbs, the setup answers of `next` | `Intake` |
| Handover | `handover.py` | attempts, snapshots, digests of inputs | `start`, `rebind`, the comparison of inputs | `Intake`, `Dispatch` |
| Dispatch | `runner.py`, `review.py` | probes; the prompts, logs and results of `.wdd/dispatch` | `dispatch`, `review collect` | `Dispatch` |
| Domains | `domains.py` | none | `matches_domain`, `domains_overlap` | `ConflictDomains`, with the engine in `Writers`; any relation in `TaskEngine` |
| Project sync | `wdd_github_project_sync.py` | `plan.json`, briefs, its manifest; the issues and columns of a GitHub Project | `pull`, `sync`, `push`, `record-link` | `ProjectSync` |
| Monitor, constitution, migration, lint, doctor, scripts | | | | not modelled, see below |

How they interact: every governed command takes the lock, recovers an interrupted
archive, checks its key and its revision, applies one mutator and replaces
`state.json` atomically (`Commits`, with the recovery in `Epics`). The mutator is an
event of the engine (`TaskEngine`, with what it does to Git before in `GitDelivery`), a change of the active epic (`Epics`) or a
record of the finalize ladder (`Finalize`). `next` reads the result (`NextQueue`)
and the controller acts on it (`Controller`). The adapter to GitHub Projects runs beside
all that: it rewrites the plan file and the briefs and reads the stored statuses.

What is hard: commands of several processes interleave at every file operation;
answers of `next` are old by the time they are acted on; evidence names commits
that move; plans change under running tasks; kills fall between two writes of one
transaction; pushes and pull requests happen outside the lock; and something must
always remain to be done until the scope is delivered. The hazards are listed line by
line in `PROJECT.json`.

What makes each component correct, and where it is stated:

- admission: exclusive domains, finished dependencies, the limit (`TaskEngine`);
- domains: no file falls inside the domains of two tasks at work (`Writers`);
- gating: evidence binds to heads, nothing unverified or unreviewed is merged;
- Git: what is done has landed and stays so, evidence describes real work, what wddctl
  lands was checked, heads move forward only, no verb destroys work, and branches left
  ahead of the state and worktrees of finished tasks are caught up with (`GitDelivery`);
- sync: one issue per task, no invented status, nobody's text is written over
  (`ProjectSync`);
- next: its proposals are acceptable together, complete and honestly cut;
- the loop: the scope is delivered, reconciliations happen;
- the lock: exclusive, never stolen, not frozen by a kill; commits: no lost update,
  keys at most once, revisions are versions;
- intake: an open gate means that everything was approved as it is, only what was
  approved is merged, and `next` leads back whatever was changed (`Intake`);
- dispatch: a worker is sent to a whole attempt, a review on record was given for its
  head, only probed commands run (`Dispatch`);
- epics: unique slugs, archiving is one step however often it is interrupted;
- finalize: what is handed off was checked, what is delivered was merged, records of
  a delivered scope are final, and the ladder ends.

## Modules

- `TaskEngine`: one action per event of `transition` plus `ApplyPlan`. Tasks,
  domains, heads and base commits are constants; a domain is a name and `Overlap` any
  symmetric relation; `Plans` is the set of plans people may apply. Times, titles and
  finding texts are left out; a review is its base, head and outcome. The four
  freshness classes are `fresh` (current, nonmaterially stale) and `stale`.
- `Admission`: what the engine promises about starting work, without evidence or
  plans: jobs start and restart only with finished prerequisites, apart from the
  claims of others and within the limit. `TaskEngine` implements it, with active tasks
  as the working jobs and `done` ones as finished.
- `ConflictDomains`: `matches_domain`, `literal_prefix` and `domains_overlap` on
  sequences of segments, with the `*` of `fnmatch`, which also matches `/`.
- `NextQueue` extends `TaskEngine` with `next_actions` as one pass over the sorted
  tasks, the projected table included. `Queue` is that pass as a recursive function of
  how many tasks were visited.
- `Writers` extends both: `Overlap` is what `domains_overlap` says of the domains, and
  files fall inside domains as `matches_domain` says, which is how freshness sees them.
- `Controller` extends `NextQueue` with the loop: it holds the last answer of `next`,
  performs any action in it, and results, failures, blocks and notes arrive. `behind`
  is the set of tasks whose head Git would classify as stale; any merge may
  extend it.
- `GitDelivery` extends `TaskEngine` with Git. A commit is the branch it was made on and
  a number; `store` keeps its ancestors and the path it changes, so ancestry, merge
  bases and ranges are computed as Git defines them (any best common ancestor, when there are
  several). A verb that changes Git and then the state holds the lock
  in between: it is two actions, `XGit` and `XState`, around the variable `held`, and
  `Kill` may take the place of the second. What a verb reads before its lock is kept in
  `call`; anything may happen before it is used. Workers edit and commit at any moment,
  people commit to the base, merge branches here or on the remote, and pull. Each
  transition of the state is the action of `TaskEngine` of that name.
- `ProjectSync`: planning as operators over a snapshot (`Conflict`, `Importable`,
  `PushOps`); a pull writes plan, briefs and manifest in separate steps around which it
  may be killed, with the snapshot it planned from, which is old by then. A push is a
  set of operations that people carry out in part, late and in any order, and record
  with `record-link`. A text is who wrote it and when; everything a fingerprint covers
  is text, column and link. Items are in the order of their issues.
- `StateLock`: `locked` with one action per file operation. `Commits` extends it with
  `apply_mutation`; the state is its log of applied commands.
- `Epics`: one action per write of the three transactions and per row of the recovery
  matrix. The record and its digest are the record's contents; the scope-carrying
  sections are one number. `EpicLedger` is what a user sees: a name is new, active,
  parked or archived, with a content that archiving preserves. `Epics` implements it;
  an archive happens at the reset of the state, and its kills and recoveries are
  stuttering.
- `Finalize`: the four verbs, with the two halves of a handoff around its push and its
  pull request, the ladder, and the world: commits, plans applied late, people who
  merge what they were given or more. The epic branch only grows, so a commit is its
  distance from the fork point and ancestry is `<=`. The target branch is three refs:
  `target` here, `upstream` on GitHub and `origin` as last fetched. `prepare_handoff`
  asks the first and never fetches (`finalize.py:166`), `record_delivered` fetches and
  asks the first and the last, and people merge on either side, pull, push, and close
  the pull request.
- `Intake`: what approvals are bound to. A file is a version number people may change at
  any moment, a digest is what it digests, a revision is whether anything was
  committed since a verb was begun (`fresh`). Verbs that look at state or files, and
  commit under the lock what they saw, have two steps (`plan apply`, `rebind`, the merge)
  or five (`start`: gate, `task.started`, copy, digest, record); ratifying, configuring and
  recording a rung are one step, because signing bytes and then editing them is the
  same as editing before signing the bytes read. `Gate` is the check of `main`, `Actions` and
  `Blocked` are the answer of `next`; where several of their conditions hold the first
  counts, as in the code. There is one task, whose submit, review,
  verification and merge are one verb; `TaskEngine` has the rest.
- `Dispatch`: attempts, dispatches and review results file by file. `start` and `dispatch
  --task` are processes that hold no lock between reading the state and their end, so
  each read, `mkdir` and write of a file is an action, and `Kill` may end any of them. A
  brief is a version, a range under review its head, a review that head and whether it is
  clean; JSON that is no valid result is `Malformed`, which still replaces the result file
  before it is refused; a failed exit, a timeout and text that is no JSON are `Token`. The gates
  and the status of the task are in `Intake` and `TaskEngine`, so here a `start` may
  come at any time. The configuration and the state of a dispatch are read as one.
- `MC*` modules give names to the instances; `*_proofs` modules hold the proofs.

## Runs

| Run | Question | Instance |
|---|---|---|
| `next_queue` | do domains and the limit, dependencies and required reviews survive plan edits, blocks and restarts? does the engine implement `Admission`? do overlapping globs keep writers of one file apart? is every answer of `next` right in every reachable state? | three tasks, a subtree, a glob that overlaps it and a bare directory, four plans (one lowers the limit and requires reviews, one drops a task, one is refused), one note, every limit of a cut answer; globs and paths of up to three segments |
| `git` | is what is done landed and what lands checked? is work kept? do heads and worktrees catch up? | one task that needs a review, one file in its domain and one outside, two events of workers and people, one of them of people, one kill |
| `controller` | does following `next` deliver the scope? | three tasks, one action shown at a time, two setbacks, one note |
| `commits` | lock and commits under kills | three processes on two machines, two kills, two stored events |
| `epics` | recovery, uniqueness, refinement | two slugs, two keys, twelve revisions, two accidents |
| `intake` | approvals, gates and advice under edits and overlapping verbs | two plans, two versions of every file, two verbs under way, two surprises: edits of five of the seven files, or verbs begun during another |
| `sync` | is a push idempotent, a pull careful and convergent? | two tasks, two issues, two edits of people, one kill, one task with a recorded status |
| `finalize` | handoff, delivery and the end of the ladder | two controllers, two configurations, two tasks, two setbacks, both surfaces |

The bounds are enough for the cases that matter: a rival and a dependent beside a
task (three tasks, as domains and dependencies are relations of two); a second head
and base for evidence to be stale against; a holder, a reclaimer and a third process
for the lock; a kill of the holder and of its reclaimer; two epics for one to be
parked while the other is archived; a second controller and a second task for a
handoff and a delivery to be overtaken; an approval under way while a rung is agreed
again, or an edit and its undoing, for `Intake`; a commit of the worker racing one of
people, a commit after the submission, and a kill between Git and the state for `git`
(tasks meet in Git only through the base, where the hand of people stands for the other task);
an issue per task, made by push or opened by people, and two edits, on one side or both,
for `sync`, with a task whose status the controller recorded beside one without. Twelve revisions let a slug be archived while
the other is parked and resumed, through a blocked archive. Every action fires in some
passing run (`Dispatch` has only the run of its disagreement; its properties are proved),
and for every property `PROJECT.json` names a plausible error in one definition that
violates it. `CHECK_DEADLOCK FALSE` is set but for `git`, because the
system may stop: all work is merged, or a bound is used up.

Four runs show a disagreement between the code and what its documents say:

- `commits_one_host`: the lock file of a dead holder is checked and then unlinked by
  path, so of two reclaimers on one machine the slower removes the live lock of the
  faster (`store.py:171`; `docs/wddctl.md:99` says a live holder is never stolen from);
- `dispatch_logs`: a dispatch numbers its files by the logs there are, and writes its log
  after the run (`runner.py:544`, `runner.py:595`), so two dispatches of a role at one time
  take one number, and prompt, log and result of the first are written over, its
  findings with them (`docs/wddctl.md:2537`: "never overwritten"). The instance is two
  processes, one submission, two commands and two briefs;
- `finalize_handoff`: the pull request is open before the handoff is recorded, so it
  can be merged first (`finalize.py:667`, docstring at `finalize.py:164`). Once the
  merge is pulled into the local target branch, `next` offers a handoff that is refused
  and `delivered` is refused for want of one; the way out is a new commit on the epic
  branch. If nobody pulls, the second check, which never fetches, passes: the handoff is
  recorded after its merge, and delivery succeeds through `origin/<target>`;
- `sync_link`: `record-link` takes a fresh local fingerprint and leaves the remote one
  unset, so the next pull finds the remote side changed and writes over a hand-written
  task whose issue nobody touched (`wdd_github_project_sync.py:553`;
  `references/github-projects.md:246` promises the opposite).

Disagreements met without a run of their own, by part.

Plan and finalize: a plan that omits `baseRef` is refused once a task has started
(`plan.py:493`), where the comment at `plan.py:412` says it keeps the configured one; a plan
applied after delivery makes a scope "delivered" with commits the target lacks
(`schema.py:172`, docstring at `finalize.py:900`); `delivered` records the head of the
epic branch as it is then, which may be later than the one handed off
(`finalize.py:779`); a keyed retry of a completed `archive` or `epic new` answers with an
error instead of a no-op (`finalize.py:1371`, `setup.py:380`; `docs/wddctl.md:86`); `gh`
refuses a second pull request of one branch (`github.py:37`).

Intake: `start` copies the brief and digests the live file afterwards, so an edit after
the gate that is undone between the two reaches the worker and no gate sees it
(`handover.py:209`, docstring at `handover.py:7`); `next` offers `epic new` although
governance has drifted and the verb is refused for it (`setup.py:748`), and offers
`rebind`, which is governed, beside a rung to be agreed again (`cli.py:1040`), both
against the docstring of `_apply_execution_drift`, and both left out of
`AdviceIsAccepted`; after a kill of `start` before its attempt is recorded `next` does not
ask for the retry that repairs it (`cli.py:1330`).

Epics: a kill of `epic new` between mkdir and the overlay leaves a directory the same
command refuses (`setup.py:392`, docstring at `setup.py:322`).

Lock: one killed before its token is written is never reclaimed (`store.py:184`;
`docs/wddctl.md:97`).

Git: a `start` killed after it made branch and worktree leaves them without a lease, and
its retry is refused (`leases.py:203`; `docs/wddctl.md:83`: "Retries are safe by
construction"); `start` branches from the local base, so a dependency that only landed
on the remote is not in the branch of its dependent (`skills/wdd-plan/SKILL.md:68`);
`submit` counts every commit since the lease as the worker's, those of a base taken in
included (`docs/wddctl.md:1769`); an observed merge is accepted from either ref, where
`docs/wddctl.md:2379` speaks of a preference; `merge` names `verify record` as the remedy
for stale evidence, which is not legal in `merge_ready` (`merge.py:302`,
`engine.py:367`); under a plan without base branch `next` offers `start` commands that
are refused (`leases.py:188`).

Domains: a bare directory protects its subtree at admission but is not matched by
freshness; a wildcard before a final `/**` is a literal for `matches_domain`
(`domains.py:22`).

Sync: one conflict blocks every task, where `references/github-projects.md:242` says to
write neither side for that task; a pull between carrying out a creation and
`record-link` imports the new issue as a second task; after a pull killed between plan
and manifest the ids collide until `record-link`, and a push makes an issue for a task
that came from one; a local edit is never taken as the new baseline; a task deleted here
returns with the next edit of its issue; two items that share a task never converge: those
of one WDD ID, those with the number and the item id of one entry, or an item whose id was
generated and a later one that claims that id, since `assign_task_ids` avoids only the ids
before it. The plan and the manifest then take the last item and the brief comes from the
last that is new; the other loses its link, and the next pull gives it a new id (docstring
at `wdd_github_project_sync.py:327`: "repeated pulls keep stable ids").

## Fairness

- `Controller`: weak fairness of the loop's own steps, because the loop "only runs if you
  keep running it"; of each task's work, because dispatched workers report back; and of
  resolving a blocked task once admission lets it return. Failures, blocks and notes
  have no fairness and a bound, without which nothing is ever delivered.
- `GitDelivery`: a command that is not killed ends; a worker commits what it edited; and
  the controller runs `start`, `refresh` and `release` again when they did not complete
  (`skills/wdd-run` asks `next` again). Those three are strongly fair, because edits of the
  worker and other commands under the lock disable them again and again. People, submissions,
  reviews and merges have no fairness.
- `ProjectSync` has none: it is run by hand, and `PullConverges` is about the end of a pull.
- `Commits`: weak fairness of a process that is not killed. Giving up is strongly fair:
  the deadline of `locked` passes however often the loop looks at the file.
- `Epics`: a process goes on unless killed, and recovery happens, because
  every command, reading ones included, recovers first.
- `Intake`: from some moment on (`calm`) people make no more edits, and do what `next`
  offers, or what its blocker or a refusal names, when they can; a file that is asked for
  is written. Nothing is assumed of anyone before.
- `Finalize`: the controller follows `next`, a begun handoff goes on, tasks end, and
  people merge what was handed to them on the local surface, here or on GitHub; a fetch
  of GitHub's target succeeds in the end (`record_delivered` goes on without it, and is
  tried again while `next` offers it). Nobody has to pull or push. `FinalizeEnds` excludes
  two outcomes the code really has: the local target branch got more than was handed off
  (`MergedAhead`), and a scope in which nothing was ever committed.

## Proofs

- `TaskEngine_proofs`. Typing together with `PlanClosed` is inductive (`TypeCorrect`):
  a removed task leaves no dangling dependency because a plan is checked against the
  set it defines. On it rest domain exclusion, dependencies, the frozen fields, the
  limit, and the evidence invariant, the conjunction of `EvidenceIsCurrent`,
  `MergeReadyIsVerified` and `MergedHeadWasChecked`, none of which is needed by
  another but which share their case analysis. `MergeNeedsReview` uses the gate as the
  merge event evaluates it. The refinement of `Admission` maps every event to a start,
  a stop, a finish, a change of terms or a stutter. Assumptions: `Overlap` is symmetric, plans are well-typed, `None` is no
  value of another kind, `Tasks` is finite.
- `TaskEngine_proofs`, the queue. `Queue` is recursive, so its defining equation is proved
  first (`QueueRecursion`), and what holds of every visit is carried over the pass by
  `SetInduction`, an induction over sets of numbers, which the prover can instantiate where
  it cannot instantiate one over predicates: a least counterexample exists because the
  intervals below the numbers are finite sets. After any number of visits (`Sound`)
  the projected table differs from the stored one in tasks that were todo, may start and fit
  together, and every item comes from a task that calls for it. From that `StartsAreCompatible`,
  and with `SubmittedFirst` (what is in review, or was, has been submitted)
  `ProposalsAreAccepted`. That every visited task
  leaves an item (`QueueAccounted`) gives `UncutAnswersAreComplete`. `EmptyMeansStuck`
  needs two more facts: the stored dependencies have no cycle, since no valid plan has
  (`DepsAcyclic`), whence among waiting tasks one waits for no other; and that one, with room and
  no rival, is proposed. Added assumption: `Order` lists the tasks.
- `TaskEngine_proofs`, domains. If a file matches two domains, their literal
  prefixes are prefixes of the file, so the shorter one covers the longer and the domains
  overlap (`SharedFileOverlaps`); with `DomainExclusion` that is `FilesAreExclusive`, for
  every set of globs and files.
- `Commits_proofs`. The lock is exclusive assuming `TwoPerHost`: at most two processes
  of one machine use it, so a dead holder has at most one reclaimer. The run
  `commits_one_host` shows the assumption is needed. The invariant says where the lock
  file points for each place a process can be at. From exclusion follow that what is
  loaded under the lock is what is stored until the write, hence no lost update,
  at-most-once keys (`KeysOnce`), expected revisions, and that the log only grows.
- `Epics_proofs`. `EpicsInv` is the conjunction of `TypeOK`, `Apart` (which directories
  an epic that is new, active, parked or archived can have), `Journal` (a journaled
  record is what the live state yields, and its directory is in one place), `Blocker`
  and `Underway` (what a half-finished command has done). `RecoveryNeverRefuses` alone
  is not inductive: a rename preserves it only because no other command can run between.
  From the invariant follow uniqueness and the refinement of `EpicLedger`. `None`,
  `Damaged` and `Foreign` are assumed to be no records.
- `Finalize_proofs`. A handoff names a commit beyond the fork point and the branch only
  grows (`HandoffIsReal`), hence delivery is never vacuous. No ref of the target and no
  remote branch has more than the epic branch (`RefsFollow`), and whoever opened a pull
  request finds it open, closed, or merged with that head (`Remote`). Hence, when a
  handoff is recorded on the pr surface, the remote branch is exactly at the reviewed
  head, and only people can have closed its pull request or merged it already.
- `GitDelivery_proofs`. First typing: the store is closed under ancestry and every ref, lease
  and head names a commit in it (`GitTypeOK`), with what a verb between Git and the state
  (`HeldOK`) or before its lock (`CallOK`) may rely on. Without `HeldOK` nothing is
  inductive: that a refresh moves the head forward rests on nobody but a worker touching
  the branch while the lock is held. On it rest that no step moves a ref back
  (`GitForward`), that every step is one of the engine or none (`GitImplementsEngine`, which
  carries the theorems of `TaskEngine` over), `WorkKept` and `HeadsForward`. A second
  invariant, `Ranged`, says that evidence starts at a proper ancestor of its head that is in
  the base; `EvidenceIsOfWork` is half of it, and `LandedAsChecked` needs the other half: what a
  merge brings in is not in the base, so it is not below the start of the range either.
  Assumptions: `Base` is no task, and heads and bases are the commits.
- `ProjectSync_proofs`. An issue made for a task is linked or its link is owed
  (`Accounted`), creations are planned only for tasks without an issue and once
  (`MadeOnce`), and no sync is writing while a link is owed: hence `OneIssuePerTask`. An
  operation names a column only of a recorded status (`NoGuess`). For `EditsSurvive`, the
  fingerprint of a pulled task is of rendered text (`PulledPrints`). `PullSettles` keeps,
  while a pull writes, the matching of items with tasks that it planned from (`Matching`): what
  it does not import was in step when it planned, and still is. When the manifest is written any
  new matching of the snapshot agrees with the old one. The proof showed that this needs `OneToOne`:
  the pull matched every item with a task of its own, and no item is claimed by two tasks when
  the manifest is written. The ids and links after it do not tell, because a pull that
  imports one task from two items drops the link of one.
- `Dispatch_proofs`. `DInv` says who may fill a directory (`Owned`: of the processes about
  to copy into it there is one, the winner of the `mkdir`), that a process past its copy
  has a whole attempt (`Whole`), and that result files hold what reviewers answered or are
  malformed (`Answered`), whichever dispatch wrote them. Hence attempts, which race for their names
  like the logs, are never written again (`AttemptsStay`), and a review on record was
  given for its head (`ReviewsAreGiven`). It needs no assumptions on the constants.
- `Intake_proofs`. `IntakeInv` is typing, the order of the ladder, what an approval
  stands on (`Approved`) and what a verb under way has seen and may still rely on while its
  revision is current (`Seen`). The gate compares only rungs on record, so
  `OpenGateFollowsLadder` is not inductive: that an approval stands on a complete
  ladder has to come from `plan apply`, which looks at the ladder before the lock. It
  is proved for a `plan apply` that is given `--expected-revision` (`"apply" \in Pinned`);
  without it the approval can be stamped on a ladder that was cleared meanwhile, and the
  gate opens: this is the mutant of the property. Likewise the merge for `MergedAsApproved`. The
  order of the ladder needs neither. `AdviceAccepted` adds `Rooted`: a
  configuration stands on an epic, and a plan, or a `plan apply` under way, on a
  configuration. So the first condition that asks for something asks for a verb whose own
  conditions hold.

Type invariants are proved and not run, and so are the properties of `Dispatch`. Every
invariant and every action property that a passing run checks is proved. Only model-checked is
all liveness (`ScopeDelivered`,
`ReconcileHappens`, `HeadsCatchUp`, `ReleaseConverges`, `StaleIsReclaimed`,
`CommandsEnd`, `PendingResolves`, `FinalizeEnds`, `AdviceLeadsHome`), which is beyond the
proof system.

## Not modelled

Monitor stores one observation per call through the same envelope. Constitution,
migration, release and install scripts run once and interleave with nothing. Plan lint,
doctor, paths and version keep no state. Argument parsing, rendering, prompts and the
wording of actions are text.

Within the models: the text of prompts, the choice of a runner by model and risk, and the
check that a worktree exists are left out of `Dispatch`, and a probe is its outcome; the
mutator of `Commits` is any event; the merge surface of a scope
under finalize does not change; branches are not rewritten; worktrees are not switched to
another branch (every verb refuses them); wildcards inside a segment of a domain; draft
items, malformed ids and plans of another scope, each of which blocks a sync as a whole,
and its inference of risk and dependencies.

## Plan

What is left, in the order of its worth:

1. The crash model of migration (`migration.py`): a move of directories and a rewrite of
   the state that a kill may separate.
2. Risk rules re-derived by a plan applied again, and evidence bound to digests of the
   configuration, in `TaskEngine`.
3. `GitDelivery` with a second task in the run, composed with `Controller`.
4. Proofs: the lock without `TwoPerHost` for a corrected reclaim as a comparison; what a
   kill leaves for the next `start` or `refresh` to catch up with, the safety half of
   `HeadsCatchUp` and `ReleaseConverges`.
