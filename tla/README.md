# mathtutor in TLA+

`mt` (mathtutor) is a command line tool and MCP server with which an LLM agent
teaches mathematics: a shipped curriculum graph, per-path progress in SQLite,
spaced repetition by FSRS, and a scheduler (`mt path next`) that tells the agent
what to do next. This directory holds TLA+ models of that program, the TLC runs
that check them on small instances, and proofs about them checked by TLAPS.

Paths below are relative to the repository root, which is mounted as `src/`: the
Rust code is `src/src/`, the design document `src/docs/design.md`, the agent's
playbook `src/src/instruct.md`.

* [The system](#the-system)
* [The modules](#the-modules)
* [What the runs check](#what-the-runs-check)
* [Disagreements between code and documents](#disagreements-between-code-and-documents)
* [Fairness](#fairness)
* [What is proved](#what-is-proved)
* [Bounds and abstractions](#bounds-and-abstractions)
* [Plan](#plan)

## The system

| component | source | state | operations |
| --- | --- | --- | --- |
| curriculum graph | `graph.rs` | none: files plus the overlay, merged on every load | load, merge overlay, lookup, `expand_to_atoms`, `reachable_atoms` |
| graph check | `graph.rs` | none: a report on the files | headers, ids, nesting, prerequisites, cycles, orphans |
| paths | `path.rs` | `paths`, `path_targets` | new, strategy, targets resolution, list, default path |
| subpaths | `subpath.rs` | `subpath_atoms` | set, clear, show, load resolved |
| scheduler | `scheduler.rs` | reads everything; writes one event, deletes a subpath | `next` in three modes |
| syllabus | `syllabus.rs` | read-only | upcoming lessons |
| event log | `event_log.rs` | `events` | append (and fold into the card), load |
| cards | `cards.rs` | `cards` | `apply_answer`, `fold_answer`, `due_quizzes`, `correct_quiz_ids`, `recompute` |
| answers and progress | `answer.rs`, `progress.rs` | through log and cards | `quiz answer` |
| store and overlay | `store.rs`, `overlay.rs` | `overlay_lessons`, `overlay_quizzes`, `overlay_removed_quizzes` | lesson upsert; quiz create, update, delete |
| reports | `state.rs`, `tree.rs` | read-only | `path state`, `path tree` |
| migration | `migrate.rs` | writes all tables | import of the files of earlier versions |
| database, replica | `db.rs`, `migrations/` | the SQLite file or libSQL replica | open, migrate the schema, upgrade to a replica, sync |
| MCP server | `mcp/mod.rs` ... | sessions, background sync tasks | the same commands as tools |
| OAuth | `mcp/oauth.rs` | `oauth_clients`, `oauth_authorization_codes`, `oauth_access_tokens`, `oauth_refresh_tokens`; a CSRF key per process | register, authorize (form, login), token (code, refresh), validate and prune |
| playbook | `instruct.md` | the agent | the teaching loop |

How they interact. There is no in-memory state between commands: every command
opens the database, loads the graph, resolves the path's ids against it, reads
the path's progress, acts in a transaction, and ends. Several agents (terminals,
MCP sessions) may run commands in any order on the same file, on the same or on
different paths. All paths share the overlay: lessons and quizzes authored for one path
are seen by every other. Cards and taught lessons are per path. The installed
binary carries the graph, so an upgrade replaces the curriculum under paths in
progress, while ids stored in the database (targets, subpath, cards, overlay
rows) stay what they were.

What is hard about it, and the properties each part is correct by:

* **Cards are a cache of the log.** They are folded forward one answer at a time
  and never compared with it. Correct: counters, dates and completion read from
  the card are those of the log (`CountsMatchLog`, `CorrectMeansAnswered`,
  `CardTracksLastAnswer`), under a clock that may be set back.
* **Two walks over one graph.** `next` stops at the first actionable atom, the
  syllabus collects all of them by code of its own, `reachable_atoms` counts them
  by a third. Correct: foundations first, no early `done`, the syllabus predicts
  `next` (`FoundationsFirst`, `DoneMeansLearned`, `SyllabusPredictsTeaching`).
* **Two notions of an atom being finished.** An action is computed from "taught"
  and the quizzes, completion from the quizzes only, and quizzes may be answered
  in any order.
* **Ids outlive what they name.** Cards of deleted quizzes, subpaths over dropped
  atoms, tombstones, numbers of quizzes to come (`DueIsServed`,
  `PresentedIsLive`, `FreshIds`).
* **Agents interleave.** Between `next` and the command that carries it out,
  others write to the shared overlay, and amend or remove what is there (`StepsStayPossible`, `DoneIsFinal`,
  `EveryPathFinishes`, `CompletionKept`).
* **`subpath set` is not one transaction** (`SubpathLeadsToTarget`).
* **`migrate` is not one transaction either**, and is meant to be run again
  (`ImportedOnce`, `CardsReplayTheLog`, `OverlayImported`, `ImportKeepsEdits`).
* **Reports count on their own.** Counters, tree and badges are computed by loops that
  share nothing with `next`, and the tree goes by the text of ids where `next` goes
  by nesting (`DoneMeansLearned`, `TreeMarksNext`); a detour is
  cleared by the call that may still serve it (`DetourFirst`).
* **What the check passes must be usable.** `graph check` reads the files with code of
  its own; the program later flattens them, resolves ids and follows clusters
  (`CleanMeansUsable`, `OrphansMirrorExpansion`, `CyclesFound`, `LoopsEnd`).
* **Requests race for one token.** A code or refresh token is read, checked and burnt
  in one transaction among others, and the answer may be lost afterwards
  (`GrantedOnce`, `OneLinePerLogin`, `HeldIsCurrent`, `GrantKeepsClient`).
* **One remote database, several devices, no rollback.** A file is renamed, rebuilt,
  migrated and filled in separate steps, syncs fail halfway and a branch of the
  remote history is refused for ever (`NothingDestroyed`, `ConflictsExplained`,
  `SchemaOnce`, `ServedWritesReachRemote`).

`PROJECT.json` lists every such hazard at its line, with the properties that
would catch it going wrong, or why none does yet.

## The modules

```
 Domain                              Review  (abstract: what answers do to a schedule)
   ^                                ^      ^
 Curriculum <-- GraphCheck          |      | implements
   ^              ^                 |   CardCache <-- Migrate <-- LogProofs
   |      TargetResolution          |
   |              ^                 |   OAuth   <-- OAuthProofs
   |       GraphCheckProofs         |   Replica <-- ReplicaProofs
   |              ^                 |
   |       ResolutionProofs         |
   |                                |
 Scheduler <-- Reports <-- Tutor ---+<-- Playbook
                  ^                        ^
 Recursion <-- CurriculumProofs <--- TutorProofs, GraphCheckProofs
```

| module | models | correspondence |
| --- | --- | --- |
| `Domain` | `types.rs` | ratings, `Rating::is_correct`, strategies, `next` modes |
| `Review` | the promise of log and cards | `due`, `correct`, `now`; `Answer` gives an answered quiz a due date in the future and records a right answer for good; `Clock` lets the clock move either way |
| `CardCache` | `event_log.rs`, `cards.rs` | `events` is the table in append order, `cards` the table keyed by path and quiz; `AppendAnswer` is the insert and the fold of one transaction; `ApplyAnswer` is `apply_answer` around FSRS |
| `Curriculum` | `graph.rs`, parts of `overlay.rs`, `path.rs` | pure operators on graph records; `WithOverlay` merges, `ExpandToAtoms`, `KahnOrder`, `ResolveTargets`, `PostOrder`, `ReachableAtoms` |
| `Scheduler` | `scheduler.rs`, `syllabus.rs` | `AtomAction`, `AtomComplete`, `FirstDue`, `NextActions`; `Upcoming` with `CollectUntaught`, the syllabus's own recursion, which shares nothing with the walk of `next` but the graph |
| `Tutor` | the commands on one database | one action per command, each a transaction; `subpath set` is `SubpathValidate` then `SubpathStore` (or `SubpathAbandon`, when its process dies); `NextReturns` is `next` with what it writes; `Upgrade` installs another release |
| `Playbook` | `instruct.md` | each path has an agent; `reply` is what `next` last told it; `AuthorLesson`, `ReadLesson`, `AuthorQuiz`, `GiveAnswer` carry it out, `BreakOff` forgets it; `AmendLesson`, `AmendQuiz` and `RemoveQuiz` are the section "Fixing broken content", at any time and on what another agent may be presenting, and `AnswerRefused` is what that agent then meets |
| `Reports` | `state.rs`, `tree.rs`, the same questions asked as tools | `Counters` is the summary of `path state`, `path list` and the tools; `Spine` and `TopLevel` cut ids as `build_spine` and `top_level_in_area` do, `Drawn` goes down from there, and `Badge` is what is said of an atom |
| `Migrate` | `migrate.rs`, `recompute`, `fold_history` | `runner` holds the statements still to run for the current directory; `BreakOff` may come after any of them; the user works on meanwhile |
| `GraphCheck` | `run_check` and its helpers, `flatten` | a state holds the files and a run of the check over them: `WalkFiles` reports all that one pass sees, `StartSearch`, `VisitNeighbor` and `LeaveNode` are the calls, loop turns and returns of `cycle_dfs`, `FinishCheck` adds cycles and orphans; `LoadGraph` is `Graph::load` on the same files, whatever the check said of them |
| `TargetResolution` | the loops of `expand_to_atoms`, `topo_sort` and `reachable_atoms` | continues from the loaded graph: one action per iteration, with the in-degree table, the heap and the stack; shown to compute `ResolveTargets` and `ReachableAtoms`, which `Tutor` uses |
| `OAuth` | `mcp/oauth.rs` and its clients | the four tables, the login forms in browsers, and per slot of the server one request to `/oauth/token`: `Check` is its transaction up to the decision, `Commit` the writes, `Fail` the rollback, `Answer` or `LoseAnswer` the response; each commit marks the open transactions, which then can only fail; `Restart` ends a process with all its requests and its CSRF key |
| `Replica` | `db.rs`, the lifecycles in `main.rs` and `mcp/mod.rs` | a database is the sequence of its transactions; per device the file, its sidecar and backup, and one process with a program counter from `open` to the last sync: `Rename`, `BuildUpgraded`, `PrepareSchema` (the table of migrations, committed on its own), `Migrate`, `CopyTable`, `PushUpgrade` are the steps of the upgrade, `PullFirst` and `PullFails` the sync of `open`, `DetachedSync`, `TickDone` and `TickCut` the server's two kinds of task, `Finish` the last sync, `Stop` a crash, an error or a command that only reads |
| `MC*` | | graphs, files and inputs of the runs |
| `Recursion` | | induction and recursion over data, stated with sets and functions |
| `CurriculumProofs` | | lemmas on the operators of `Curriculum`, `Scheduler` and `Reports` |
| `LogProofs` (log, cards, import), `TutorProofs` (commands, playbook), `OAuthProofs`, `GraphCheckProofs` (check and loading), `ResolutionProofs` (the loops), `ReplicaProofs` | | the theorems |

Why `Review` sits in the middle. The log and FSRS matter to the scheduler in two
ways only: which quizzes have been answered correctly, and when a quiz is due.
`Review` says just that, with the interval chosen freely. `CardCache` implements
it (run `card_cache`, theorem `CacheImplementsReview`), and `Tutor` is built on it:
`quiz answer` is its `Answer`, and no other command names `due` or `correct`. So the
commands are checked for every interval FSRS might choose, and without a log that
would multiply the states.

Operators marked *Mutant* in a comment are variants of the definition that
follows them, each with one plausible bug. No specification uses them. Putting a
variant in the place of its definition must make a run fail: `PROJECT.json` pairs each
property of a passing run with the variant it must reject, which shows that the
property can fail on the instance it is checked on.

## What the runs check

Model-check with `tlc -config X.cfg Module` in this directory. Sizes are distinct
states, times for two workers.

| run | module, config | instance | shows |
| --- | --- | --- | --- |
| `card_cache` | `MCCardCache` | two paths, two quizzes, three events, clock 0..1 both ways, a toy FSRS with two memory states; 131k, 20 s | cards agree with the log and implement `Review` |
| `strategies` | `MCTutor`, `MCStrategies` | five concepts in which natural and prerequisite order disagree, one cluster in another, and one concept at the top of its area by nesting but not by its id; two target lists; three subpaths, two of them good for some targets, one over a cluster; set in two steps, cleared, drained; lessons and quizzes authored; strategies switched; due reviews under a clock 0..1; a release that adds an atom others come to need; 40k, 60 s | foundations first, detours first, no early `done`; syllabus, counters and tree agree with `next`; a stored subpath leads to a target |
| `quizzes` | `MCTutor`, `MCQuizzes` | one atom with its lesson still to write, two difficulties, a shipped quiz numbered 8 and room for 9 and 10, every edit, answers in any order, all modes of `next`, clock 0..1 both ways; 51k, 75 s | ids are fresh, the earliest due live card is served, completion is lost only by touching the atom's own quizzes or by a new quiz that goes before an earlier one, as the tenth does |
| `two_agents` | `MCPlaybook` | two paths over two atoms, one with its lesson still to write; two quizzes, the ninth and the tenth, may be written for one slot; a shipped quiz removed, an authored one amended, a lesson rewritten, a strategy switched and sessions broken off at any time; 63k, 140 s | every path finishes, a step told stays possible or `next` leads on, `done` is final but for what fixing content reopens |
| `target_resolution` | `MCTargetResolution` | 1314 sets of files of two areas and up to five concepts (clusters, cycles, self-loops, double listings, names used twice, bad headers, segments and prefixes, unknown prerequisites, an unreadable file), nine target lists; 123k, 55 s | the cycle search is right, what passes the check is usable, the loops end and compute what the scheduler's model takes for granted |
| `migrate` | `MCMigrate` | two directories, two runs broken off anywhere, one answer or edit at any time; 150k, 9 s | nothing imported twice, cards replay the log, edits are kept |
| `oauth` | `MCOAuth` | two registrations, two logins, wrong verifier and redirect URI, one code at a time, three pairs of tokens, two requests at once, one restart, clock 0..1 both ways; 350k, 17 s | single use, one line of refresh tokens per login, no client loses its token but by a lost answer |
| `replica` | `MCReplica` | a server in sync and a laptop that starts without; binaries of one and two migrations, the second of which widens the table; one write each; every crash, every sync that fails before, after or in the middle; 1.6M, 135 s | nothing acknowledged is destroyed, conflicts have a cause, migrations once and in order, the tick makes up for failed syncs |

Four more runs expect a violation; they are the subject of the next section.

Notes on the properties.

* The invariants of `Tutor` quantify over `Actions(p, mode)`, what `next` *would*
  return in the present state, so they speak of a call at any time, not only of
  calls made.
* `DoneMeansLearned` compares two algorithms of the code: `next` says `done` by its
  walk, what was to be learned is counted by `reachable_atoms`. Bottom-up `done` is
  said exactly when the counters say all is taught and learned.
* `TreeMarksNext`: the tree finds ancestors and roots by cutting ids (`Spine`, `TopLevel`),
  while the atoms a path reaches are found by nesting. `graph check` compares the two only
  below a concept that has a parent in its file, so `la` or `la.1.1` at the top of an area passes
  it and is never drawn, nor is what lies below it. The property therefore says which
  of the atoms reached are drawn, those below a concept of two segments (`Placed`), and the
  run has one that is not. The mark NEXT is of a call in the default mode, hence a due
  review or the next new step; bottom-up that one is always reachable, while an atom that
  only a subpath names need not be on the tree.
* `SyllabusPredictsTeaching` compares two recursions. `next` walks to the first atom with
  something to do (`PostOrder`, `NewAction`); the syllabus filters while it walks
  (`CollectUntaught`), and takes what was taught for its only criterion.
* `DetourFirst` asks for completion, not for lessons: `next` clears a subpath whose
  atoms are complete, also one with a lesson never shown, in the call that may still
  present that lesson.
* `FreshIds` and `DueIsServed` are checked under one release; across releases both
  fail (`v_id_recycled`, `v_due_pruned`).
* `DoneIsFinal` and `CompletionKept` turn on one detail: a second quiz of a
  difficulty does not take the slot of the first, because the overlay is read in
  the text order of ids. Text order is order of creation up to `q9`; `q10` comes
  before `q2` (`LexBefore`), so the tenth quiz of an atom may take a slot over, and
  an atom that was complete, or a path that was done, is open again. No document says
  otherwise, but it is hardly meant. `Reopens` names this case and the intended ones
  (a quiz of the atom amended or deleted) and nothing else; both runs number their
  quizzes 8 to 10, so that it happens in them.
* `StepsStayPossible`: an agent may remove the quiz another is presenting, and
  `quiz answer` then refuses (`answer.rs:33`). The property says that this is the only way a
  step is lost, and that the agent is not stuck: `next` succeeds and names a step that
  is possible. `EveryPathFinishes` says that such a path still reaches `done`.
* `LoopsEnd` has a premise for `reachable_atoms`, `~ClusterLoop`. A cluster that leads
  back to itself through clusters only, say one with its own ancestor as a
  prerequisite, passes the check (the search for cycles follows prerequisites, not
  children), and then the loop expands it for ever: only atoms are remembered.
* `CleanMeansUsable` covers ids and how they follow the nesting (`IdsNest`),
  prerequisites, children and cycles among targets.
  The check calls a prerequisite on a whole area unknown, although
  `Graph::load` would resolve it; so nothing that passes has one. It needs areas with
  prefixes of their own, each a single number (`AreasNamed`), which the manifest in
  `src/` has and `graph check` does not look at: a second area of the same prefix, or
  one named like a concept of an earlier area, would replace what the check has seen.
* `HeldIsCurrent` allows one way to lose a refresh token: the rotation is committed and
  its answer lost. The client must then log in again.
* `CardsReplayTheLog` excludes a path while it is being imported, and after an
  import that broke off, since no later run rebuilds those cards.
* `NothingDestroyed` counts the backup: after a failed upgrade the rows are in
  the `.preupgrade` file only. That they are then missing from the database is
  `v_upgrade_loses`.
* `ConflictsExplained` is what the pull in `open` is for. It excuses two cases: another
  device changed the remote database while this one was on, or had frames it had not
  pushed (`raced`); and the upgrade, which builds and fills the replica without pulling
  (`saved`). A conflict is for good: no later sync succeeds on that file.
* `ServedWritesReachRemote` says more than that the server retries: the frames get
  there also when the detached task was killed, or stored half of them.

## Disagreements between code and documents

Four runs with `expect: violation` each check one sentence of the repository
against the model and find a counterexample. `PROJECT.json` quotes the sentences
under "findings".

| run | property | what happens |
| --- | --- | --- |
| `v_due_pruned` | `DueIsServed` | `first_due_card` returns (`?`) at the first due card whose atom is not in the graph, instead of skipping it: one such card hides all live cards due after it. |
| `v_state_panics` | `CompleteMeansAllAnswered` | `most_recent_completed_target` indexes a map by every quiz of a complete atom. Completion asks for one quiz per difficulty only; two agents told to fill one slot both do, and then `path state` panics. |
| `v_upgrade_loses` | `UpgradeKeepsRows` | `db.rs:142` says the upgrade loses no data. The file is renamed before the replica is built, migrated and filled; when that stops, the next `open` finds no file, or an empty replica with its sidecar, and runs without the rows. They stay in the `.preupgrade` file. |
| `v_id_recycled` | `FreshIds` | `store.rs:171` says `n` is one greater than the highest ever assigned; `next_quiz_id` looks at live quizzes and tombstones. After a release withdrew a shipped quiz, the next quiz of the atom gets its id, and with it its card. |

Met while modelling, and in the models, without a run of their own:

* `migrate.rs:163` says safe to re-run. The path row is committed first and marks the
  path as migrated; after a break the rest of its history is never imported
  (`ImportPath`).
* `graph.rs:431`: a cluster named after all its atoms adds no atom and is
  refused as empty, though `design.md:95` allows mixing forms (`ExpandToAtoms`).
* `types.rs:82` says an atom has at most one quiz per difficulty;
  `cmd_quiz_create` does not look (`QuizCreate`).
* `design.md:475` says completed atoms are skipped; `atom_action` presents the lesson of an
  atom whose quizzes were answered first (`AtomAction`). As a
  consequence `next` may clear a subpath in the call that still presents a lesson of it
  (`Drained`), though the comment at `scheduler.rs:104` says it has moved on.
* `design.md:478` says the subpath is cleared once its target completes; it is kept
  while another atom of it is open (`Drained`).
* `design.md:447` says bottom-up ignores any subpath; a stored subpath over a dropped
  atom makes `next` fail under bottom-up too (`Resolves`).
* `design.md:150` says every atom bottom-up returns has prerequisites with a lesson;
  due cards come before the walk (`NextActions`).
* `main.rs` and `maybe_sync` let no failed sync fail a command, but the pull in `open`
  does: with sync configured, every command fails while the remote database does
  not answer (`PullFails`).
* `tree.rs`: the comment on `build_spine` says an area's prefix is not in the graph;
  loading wraps every area in a concept of that name, which the drawing skips (`Drawn`).
* `tree.rs:3` says the tree renders every atom reachable from the targets; a concept at
  the top of an area file whose id has other than two segments passes `graph check` and is
  not drawn, nor is what it holds (`TopLevel`, run `strategies`).
* `design.md:261`, `:271` and `:426` count `good` and `easy` as correct, `design.md:435` counts `hard` too,
  as the code does (`IsCorrect`).
* `instruct.md:111` says amending a quiz preserves its schedule; it does, and with it the right answers
  given before: only a changed difficulty reopens the atom (`QuizUpdate`, `Reopens`).
* `path.rs:289`: `topo_sort` sees only edges between two targets, not those that
  lead through another concept (`KahnOrder`).

## Fairness

`Tutor` and `CardCache` are safety specifications: a user need not do anything.
`TargetResolution` is a sequential program, and is weakly fair as a whole.

`Replica` is weakly fair in `TickDone`, for each server and nothing else. It stands for two
facts: the timer of a server that stays up fires every five minutes for ever
(`spawn_background_sync`), and the remote database answers in time at least once
while nothing else changes. Nobody is obliged to open, write, finish or upgrade.

The code gives no fairness that would make a path finish, the people and agents do;
`Playbook` states it as such (`PlayFairness`):

* weakly fair: an agent that can go on by itself (ask `next`, show a stored
  lesson, or start over when an answer is refused) does not stop for ever;
* strongly fair: of the steps that need the agent's authoring or the learner's
  answer and that come up again and again, not all are broken off or answered
  wrong. This is weaker than it sounds: any finite number of wrong answers and
  broken sessions is allowed.

No fairness of the strategy switch, of fixing content or of `BreakOff` is assumed. A learner whose
quizzes are removed for ever would never be done; in the model only the quizzes of `Removable`
are, each at most once, since ids are not used again. The formulas are written
with state predicates rather than `WF`/`SF`, since evaluating `ENABLED` of
`next` is costly; `CanGoOn` and `CanAdvance` repeat the guards of the actions.

Liveness is claimed for `next --new` only. In the default mode a learner with
always one more card due is never shown new material, and no document says otherwise.

## What is proved

By TLAPS, for every value of the constants, with no proof left out:

| theorem | says | rests on |
| --- | --- | --- |
| `TypeCorrect` | `CacheSpec => []CacheTypeOK` | `ApplyAnswerType`, `DaysInTime` |
| `CountsCorrect` | `CacheSpec => []CountsMatchLog` | `AnswersGrow`, `AnswersKept`, `CountsOfAnswered`, `CountsOfOther` |
| `CorrectDecided` | `CacheSpec => []CorrectMeansAnswered` | `CountsDecideCorrect` |
| `LastAnswerTracked` | `CacheSpec => []CardTracksLastAnswer` | `TracksLastAnswered`, `TracksLastKept` |
| `CacheImplementsReview` | `CacheSpec => ImplementsReview` | `AnswerDecidesCorrect`, `LapsesBounded`, `AnswerImplements` |
| `TutorTypes` | `Spec => []TypeOK` (`Tutor`) | `PathsKeepTypes`, `StoreKeepsTypes`, `ReviewKeepsTypes` |
| `FoundationsBefore` | `Spec => []FoundationsFirst`, if no release has a cycle (`Acyclic`) | `WalkInOrder`, `ReachableIs`, `NewSteps` |
| `DoneAndStateAgree` | `Spec => []DoneMeansLearned` | `WalkReaches`, `ReachableIs`, `CountersFull` |
| `SyllabusKeepsWord` | `Spec => []SyllabusPredictsTeaching` | `WalksAgree`, `UpcomingStarts`, `NewSteps` |
| `DetourSeenThrough` | `Spec => []DetourFirst` | `NewSteps`, `Joined` |
| `PresentsLiveQuizzes` | `Spec => []PresentedIsLive` | `NextSteps`, `LiveIs` |
| `ServesWhatIsDue` | `IdsStay => (Spec => []DueIsServed)` | `KnownStay`, `DueFirst` |
| `AssignsFreshIds` | `IdsStay /\ QuizzesStay => (Spec => []FreshIds)` | `HistoryStays`, `NumberFree` |
| `TreeShowsPath` | `IdsSpelled /\ LessonsStay => (Spec => []TreeMarksNext)` | `AtomsDrawn`, `SpineIs`, `DrawnDown`, `RootedIs`, `LessonsHold` |
| `LearnedStaysLearned` | `Spec => CompletionKept` | `CompletionStays`, `SlotKept` |
| `SubpathsLead` | `TargetsStay => (Spec => []SubpathLeadsToTarget)` | `DetoursStay`, `TargetsAre` |
| `PlaybookIsTutor` | `PlaySpec => Spec` | `PlaySteps` |
| `PlaybookStepsPossible` | `PlaySpec => []StepsStayPossible` | `PlayTypes`, `StandingStays`, `ActionStands`, `Accepts` |
| `PlaybookDoneIsFinal` | `PlaySpec => DoneIsFinal` | `NewActionsAre`, `FinishedStays`, `ReopensPath` |
| `ExchangedOnce` | `Spec => []GrantedOnce` (`OAuth`) | `Invariance` |
| `OneLine` | `Spec => []OneLinePerLogin` | `Invariance` |
| `ClientKept` | `Spec => []GrantKeepsClient` | `Invariance` |
| `SessionKept` | `Spec => []HeldIsCurrent` | `Invariance`, `TrackingStep` |
| `NoDuplicates` | `MigrateSpec => []ImportedOnce` | `Invariance`, `AtMostOne` |
| `OverlayComplete` | `MigrateSpec => []OverlayImported` | `Invariance` |
| `EditsKept` | `MigrateSpec => ImportKeepsEdits` | `Invariance` |
| `CardsReplayed` | `MigrateSpec => []CardsReplayTheLog` | `ReplayGrows`, `RebuildStep` |
| `StackIsPath` | `ResSpec => []GrayIsStack` (`GraphCheck`) | `SearchInvariance` |
| `CheckIsExact` | `ResSpec => []CyclesFound` | `SearchInvariance` |
| `NoOtherCycles` | `ResSpec => []CyclesAreReported` | `ReportInvariance`, `StuckIsKnotted`, `KahnStuck` |
| `CleanIsUsable` | `AreasNamed => (ResSpec => []CleanMeansUsable)` | `ReportInvariance`, `NoOtherCycles`, `EachLoaded` |
| `OrphansAreExact` | `AreasNamed => (ResSpec => []OrphansMirrorExpansion)` | `ReportInvariance`, `LineageIs`, `ExpandsDown`, `LedTo` |
| `AtomsAreListed` | `ResSpec => []AtomsListed` (`ResolutionProofs`) | `ExpandInvariance`, `ExpansionLists` |
| `HeapIsReady` | `ResSpec => []FrontierIsReady` (`TargetResolution`) | `SortInvariance`, `EdgesFacts` |
| `SortIsExact` | `ResSpec => []OrderIsTopological` | `SortInvariance`, `ListFinite` |
| `LoopsResolve` | `ResSpec => []ComputesResolveTargets` | `ExpandInvariance`, `OrderInvariance`, `ExpansionIs` |
| `WalkFindsAll` | `ResSpec => []ComputesReachable` | `ReachInvariance`, `ReachableIs` |
| `ReplicaTypeCorrect` | `Spec => []ReplicaTypeOK` (`Replica`) | `Invariance` |
| `RowsKept` | `Spec => []NothingDestroyed` | `Invariance` |
| `ConflictsHaveCause` | `Spec => []ConflictsExplained` | `Invariance` |
| `SchemaApplied` | `Spec => []SchemaOnce` | `Invariance` |

Assumptions. `CacheAssumption`: the clock and the day are natural numbers,
intervals are positive, `NoCard` is not a card. `FsrsAssumption`: FSRS maps a memory (or none),
a rating and a number of days to a memory and an interval. `ReviewAssumption`
and `TutorAssumption`: the quizzes of the schedule are those of the curriculum, and every
release is a graph as loading yields it (`WellFormed`): lists of ids, nesting that ends,
quizzes in their own atoms. Prerequisites may name what is not there, and may form cycles.
`PlaybookAssumption`: the commands the playbook uses are there. `GraphCheckAssumption`:
a manifest names its areas, and concepts come area by area, each after the cluster it
is in, which is the order in which loading and check walk the files; `SegmentsAssumption`
(`Curriculum`): an id has segments, numbers all, and two ids of the same segments are one. Ids, headers and
prerequisites are otherwise arbitrary. Nothing is assumed
about the size of the curriculum, the number of paths or the order of the clock.

The argument. `CorrectMeansAnswered` (a card with `reps > lapses` has a right
answer in the log) is not inductive: from a card with one lapse too many it could be
left behind by the next answer. The inductive invariant is `CacheTypeOK /\
CountsMatchLog`: both counters are cardinalities of sets of log positions,
lapses among answers, so that `reps > lapses` says that the inclusion is proper. One
more row adds its position to the sets of its own quiz and to no other
(`AnswersGrow`, `AnswersKept`), and `apply_answer` adds one to the same counters.
The refinement needs the same invariant: "correct" can be monotone in
`Review` only because a card never has more lapses than answers. The refinement mapping reads
`due` and `correct` off the cards.

Recursive walks (`Recursion`, `CurriculumProofs`). The invariants of `Tutor` are about what
recursive functions compute: `AtomsUnder`, `Dedup`, `KahnOrder`, `PostOrder`,
`ReachableAtoms`, `Only`. The library's induction theorems take a property as an operator,
which the provers cannot instantiate; `Recursion` states induction with the *set* of what has
the property, and recursion with the step as a function (`RecursionExists`: a recursion that
leaves every set of arguments defines a function). Each walk then needs a reason to
end, a pair of numbers that gets smaller: for `PostOrder` (`WalkEnds`) the concepts not
visited and the length of what is to do, for `AtomsUnder` (`ExpansionEnds`) that nesting ends.
On top: the walk yields exactly the reachable atoms, each once (`WalkYields`, `WalkReaches`),
`reachable_atoms` finds the same set by widening (`ReachableIs`), and in a graph without cycles
each atom comes after all it rests on (`WalkInOrder`, with the invariant `Tidy` of its agenda:
at each entry, what was visited is finished, or leads to the entry). The syllabus has a recursion of its
own: `WalksAgree` shows, along that recursion, that it lists what `PostOrder` lists
without what was taught. `MergedIs`, `AuthoredList` and `SlotKept` say
the same of the merge: which quizzes an atom has under the overlay, in which order, and that
one more row takes a slot over only if its id comes first as text (`Displaced`).

The commands (`TutorProofs`). Most invariants of `Tutor` follow from `TypeOK` and these
lemmas, since they speak of what a command computes from a state. Five are about histories:

* `ServesWhatIsDue` and `AssignsFreshIds` need that cards and rows are of things the
  installed graph has or that were deleted (`AtomsKnown`, `HistoryKnown`). A release may break
  this. `IdsStay` (no release drops a concept) and `QuizzesStay` (none withdraws a quiz) are their
  premises, and `v_due_pruned` and `v_id_recycled` show that they cannot be left out.
* `LearnedStaysLearned`: a slot belongs to the first quiz of its difficulty, in text order of the
  ids for authored ones. A new quiz gets the greatest number, which is last in text order but at
  a step to one more digit, as from 9 to 10: then it may take a slot over. The theorem
  names that case (`Reopens`) and shows there is no other. Numbers have up to two digits
  (`CurriculumAssumption`), so there is one such step; an atom has three slots.
* `SubpathsLead`: the check of `subpath set` is not in the transaction that writes. The invariant
  `Detours` says that what was checked and what is stored are both routes to a target of a path
  whose targets never change again (`AsGiven`, `StoredDetours`, `CheckedDetour`). Overlay rows
  cannot undo it, since links are the shipped graph's (`TargetsAre`); a release can, hence
  `TargetsStay`: it drops no atom, and what the targets of a list were they stay.

* `TreeShowsPath`: that ids follow the nesting wherever a concept has a parent (`IdsNest`) is what
  the check guarantees (`CleanIsUsable`), and it says nothing of the top of an area. Drawing grows a
  set until it no longer grows (`GrowthIs`: to the least one). An atom below a concept of two
  segments is drawn, because each concept between them has an id that begins its
  own (`RootedIs`) and is therefore on the spine; nothing else is, since drawing goes down by
  nesting (`DrawnDown`). The badge is about a history: an atom taught and
  with all its quizzes answered shows nothing missing, so what was taught must still have a
  lesson (`LessonsKnown`). A release that takes a shipped lesson back breaks this: `next` then
  asks for the lesson under a full badge; `LessonsStay` is the premise.

`FoundationsBefore` has the premise `Acyclic`, which is what `graph check` enforces before a
release (`CheckIsExact`). On a cycle no order could put both atoms first.

The playbook. Every step of an agent is a command or leaves the database alone
(`PlaybookIsTutor`), so the theorems on `Tutor` hold under it. `StepsStayPossible` needs
`RepliesStand`: the atom and the lesson an agent was told of are there, and the quiz has a row,
shipped or authored, even if a tombstone too (`Stands`, `Stored`). No step of any agent takes
that away (`StandingStays`), so the only command that may be refused is the answer to a removed quiz;
the path then still resolves (`ResolvesStays`), and what `next` says stands (`ActionStands`).
`DoneIsFinal` is not about lists of targets but about their closure: once `done` was said, all
that the targets reach is complete and taught, and it stays so unless one of those atoms
reopens (`FinishedStays`, from `CompletionStays`), which is what `ReopensPath` names.

The first three theorems on `OAuth` share one inductive invariant (`IInv` of `OAuthProofs`,
`Invariance`). `GrantedOnce` alone is not inductive: nothing in it says that what was
exchanged is gone from the tables, nor that a transaction still able to commit
holds something that is not. `Spent` adds the first (the code of a grant is marked
used, the refresh token of a grant is deleted), `Holding` the second: a checked
request that no commit has overtaken holds an unused code or a stored refresh
token. `OvertakenFits` carries `Holding` over every commit: an overtaken request need
not hold anything. `Belongs` says the same of clients, row by row. Only
`OAuthAssumption` is used (lifetimes are natural numbers, queries name clients);
nothing is assumed about the number of clients, requests, codes or processes, or about
the clock.

`SessionKept` needs more (`Tracking` of `OAuthProofs`), about the pairs still on the
way: the refresh token of such a pair is in the table, is on one way only, and nobody
holds or presents it yet (`Undelivered`), so no commit can have taken it; and a
rotation stays with the client (`Rotation`), so that what an `Answer` replaces is the
token its successor was rotated from.

The import (`IInv` of `LogProofs`). That a path row marks a path as imported is
what keeps a second run from importing its events again, but `ImportedOnce` does not say
so: the invariant does. Legacy events are in the log once and belong to imported paths
(`LoggedOnce`), the events to come are not in the log, each is to come once
(`PendingOnce`), and a row of the overlay is there or to come (`OverlayInStep`), in the
directories before the current one and in it. `MigrateAssumption` says that a log holds
events of its own path, each once, all older than what the user answers: two equal rows
could not be told from one row imported twice.

`CardsReplayed` adds an order to the statements to come: after every event of a path its cards
are rebuilt (`HistoryInOrder`). So a card may differ from the replay only while that
statement is to come, or when it never will (`CardsInStep`); an answer given meanwhile is a
row of the log like others when it does.

The search for cycles (`SearchInv` of `GraphCheckProofs`). That the gray ids are the
open calls, each called for the neighbour its caller is at (`StackOfGray`), is
inductive with the shapes of stack and table alone (`SearchType`), and makes every
cycle read off the stack one of prerequisites. That no cycle is missed says something
about the whole graph once the search has ended, and needs what the search leaves
behind: as long as no cycle was found, black ids lead to black ids only, the
neighbours an open call has done with are black (or the call above it), and no set of
black ids is knotted (`BlackClosed`). When a call returns, its id turns black; a
knotted set with this id in it would have to leave it for a neighbour, which is
black, so the set without the id would have been knotted already. At the end all ids are
black. Nothing is assumed of the files but the shape stated in `GraphCheckAssumption`.

Loading (`LoadedWellFormed`). That the graph is one the recursive functions can take is not
obvious, since a concept replaces an earlier one of its id, and a cluster its area: its
children may then be those of another file. What makes nesting end all the same is a rank: an id
comes from the last place it stands at, as an area or as a concept, and its children from a
later one (`IdFrom`, `ChildLater`).

The report (`ReportInv`). At each stage it holds what the rules say of the files; with `SearchInv`,
a knotted set of ids is in it as a cycle. `NoOtherCycles` turns a failure of the sort into such a
set: what `KahnOrder` leaves out waits for one another (`KahnStuck`), and prerequisites in the
loaded graph are prerequisites in the files (`PrereqsLoaded`). No premise on the files is
needed. For `CleanIsUsable` each concept must be loaded from its own place (`EachLoaded`): no
other concept has its id, and no area can take it, as the id of a concept begins with the prefix of
its area. `OrphansAreExact` compares a walk up with a walk down. The check climbs from an atom
through its clusters (`LineageIs`), the expansion descends from a prerequisite (`AtomsUnder`);
by induction along the descent, an atom is found below a list of concepts just when
one of its lineage is in the list (`ExpandsDown`).

The loops (`ResolutionProofs`), each with an invariant that says what the recursive
function still has to do with what is left:

* `ExpandInv`: the first ids are expanded, what they gave is listed, none of them failed. That the
  loop adds just what `Dedup` of all keeps is `ListedNext`.
* `SortInv`: `FrontierIsReady` does not survive a step by itself, since an atom that a popped one
  releases might have been sorted before. So the invariant adds that every sorted atom
  comes after those of its prerequisites that are to be sorted; one that still lists
  the popped atom cannot be among them. The counters lose just the listings of the popped atom,
  a prerequisite listed twice included (`EdgesFacts`). At the end, as many sorted as listed
  means all of them (`ListFinite`), and otherwise the rest all have counters above zero.
  What is sorted are atoms, each once: `AtomsAreListed`, from `ExpandInv`.
* `OrderInv`: what is sorted, followed by what `KahnOrder` makes of the rest, is
  `KahnOrder` of all. The heap's least is the least ready atom, as `FrontierIsReady` says
  that the heap holds the ready ones.
* `ReachInv`: what is not yet reached lies beyond the stack (`Beyond`), outside of the atoms
  already reached. An atom met twice is passed over, a cluster is expanded again, and
  neither loses anything.

`LoopsResolve` and `WalkFindsAll` say that the loops compute what `Tutor` takes them to; that
they end is the liveness property `LoopsEnd` and stays with TLC.

The replicas (`IInv` of `ReplicaProofs`). `NothingDestroyed` and `SchemaOnce` need that what
an action makes of a file is a database again: migrations in order, finitely many
rows per transaction (`Logs`, and a lemma for each way a database grows or is cut).
`ConflictsExplained` needs `Ahead`: a device that has not been overtaken, has not
upgraded, and is about to write or has something to push, has all of the remote
database in its own. Pulling in `open` establishes it; `OthersAhead` carries it over the
steps of the other devices, which either leave the remote database alone or set
`raced`. The theorems hold for any number of devices, tables and migrations; only
`ReplicaAssumption` is used.

Only model-checked: liveness (`EveryPathFinishes`, `LoopsEnd`, `ServedWritesReachRemote`). Liveness and
`ENABLED` are out of the provers' reach.

## Bounds and abstractions

* `MaxEvents`, `MaxQuiz`, `MaxTime`, `MaxRuns` bound the log, the numbers of quizzes, the
  clock and the runs of `migrate`. Where the tenth quiz matters `MaxQuiz` is 10 and the shipped quiz has
  the number 8. `Commands`, `TargetLists`, `SubpathLists`, and for the agents `Switched`, `Amendable`
  and `Removable`, restrict what an instance explores; each restriction is stated in its `.cfg`.
  Three events are enough for an answer after an answer of the same quiz with a
  row between; five concepts for a cluster in an area with a prerequisite path
  through its own children; two agents for a race over a slot.
* FSRS is a constant operator. The decay of memory, desired retention and
  fuzzing are not modelled.
* Texts (lessons, questions, goals, names) are left out; a difficulty, a rating
  and an id are all that decides anything. Ids are numbered in the order of
  `natural_id_cmp`; a quiz id is a pair of atom and number.
* A command that fails changes nothing and is no action. Foreign keys are on, so
  events, cards and subpaths need an existing path.
* `Tutor` keeps only what decides of the log: `taught` (a set) and, through
  `Review`, the cards. The order of events matters only to what reports show of
  the past, which is left out.
* `FirstDue` returns a set: cards due at the same instant come in whatever order
  SQLite gives them.
* `CHECK_DEADLOCK FALSE` is said where the system really stops: all paths done
  (`MCPlaybook`), the walk ended (`TargetResolution`), runs and
  events used up (`Migrate`), tokens and processes used up (`OAuth`), two refused upgrades in
  a row (`Replica`: the backup of the first stays and refuses the second).

* `OAuth`: tokens are numbered in order of issue, since 256 random bits do not repeat. The
  form's MAC and the PKCE digest are modelled by what they bind. One code, three
  pairs and two slots suffice for a race over a code and over a token, and for a
  rotation of a rotated token; the theorems cover the rest. Lifetimes of zero
  and a clock of two ticks show a token valid, expired, and valid again.
* Only the tree asks for areas: of the curricula in `MCTutor` and `MCPlaybook` just that of `strategies` has one.
* `GraphCheck`: ids have segments below ten, where the order of `BTreeMap` keys is the
  natural one; the stack of `reachable_atoms` is cut at `MaxStack`, which only a
  `ClusterLoop` reaches. `reachable_atoms` starts from resolved targets, as all its
  callers do.
* `Replica`: one process per device at a time, though nothing in the code forbids two.
  A frame is a transaction. libSQL's `build` and `sync` are external, with every outcome
  the comments of `db.rs` mention: a fresh replica with or without its sidecar, a
  sync that stores some of the frames and fails. Between two ticks the server is up to five minutes behind. One
  table that is both numbered and widened stands for the schema, since tables meet only in
  the copy; `v_upgrade_loses` has two. One write each suffices for a race of two
  branches and for keys that collide (the copy then skips the row, which stays in the backup).
* `Playbook` asks for `next --new`; the due reviews that may come in between are
  checked in `Tutor`.

Not modelled, and why:

* parsing of arguments and files, rendering of `discover`, `help`, `path tree` and
  `path state` beyond numbers, badges and the atoms drawn, HTTP, tool schemas: they read and
  print. The parsing of legacy files counts only as a way for `migrate` to break off;
* the default path (`path.rs:120`, the path of the latest event of anyone) and path
  ids of one-second resolution: the tools of the server and the playbook name the path;
* reports that read outside of a transaction while another agent writes (`state.rs:129`), and
  `past_due`, which counts cards of deleted quizzes (`state.rs:181`): nothing is decided
  on them, and no document says what they promise;
* FSRS: a constant operator, see above.

## Plan

Done, in this order: cards and log, since all else reads them; the abstract schedule
and the refinement; curriculum operators and scheduler; the commands; the
playbook on top; the import; the authorization server and its proofs; the replica with
its faults and its proofs; reports; one walk from the files through check, loading,
expansion and sort to the closure; the recursive walks, and with them proofs of the
invariants of the commands and of the playbook, of what the check promises, and of the loops.

Left, in order of weight:

1. **Proofs**: every safety property of a passing run is a theorem. What is left is to
   weaken premises: `Acyclic` to the concepts a path reaches, `IdsStay` to those with cards.
2. **Due reviews in the playbook**: agents in the default mode, with the clock
   running; `path subpath set` among their commands.
3. **The default path**, should the documents come to promise something about it.
