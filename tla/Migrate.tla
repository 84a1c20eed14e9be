------------------------------- MODULE Migrate -------------------------------
(***************************************************************************)
(* `mt migrate`: the import of the AYML files of earlier versions          *)
(* (src/src/migrate.rs) and the rebuild of the cards from the log          *)
(* (`recompute`, src/src/cards.rs).  Every statement of the import commits *)
(* by itself, so a run may break off after any of them: the process dies,  *)
(* a file does not parse, a statement fails.  Between runs, and during     *)
(* one, the user goes on answering quizzes and editing the overlay.        *)
(***************************************************************************)
EXTENDS CardCache, SequencesExt

CONSTANTS
    LegacyDirs,     \* the path directories in order, each a record
                    \*   path, targets (a number), log (a sequence of Event),
                    \*   overlay (a sequence of keys)
    Key,            \* atoms and quiz ids with overlay rows
    NoRow,          \* no overlay row
    MaxRuns,        \* bound: how often `mt migrate` is started
    NotRunning      \* no `mt migrate` is running

(* A log holds the events of its own path, each once.  Legacy events are  *)
(* older than the tick at which the user answers.                          *)
ASSUME MigrateAssumption ==
    /\ LegacyDirs \in Seq([path : Path, targets : Nat, log : Seq(Event), overlay : Seq(Key)])
    /\ LegacyDirs # <<>>
    /\ NoRow \notin {"legacy", "user"}
    /\ NotRunning \notin [dir : Nat,
                          todo : Seq([op : {"path", "target", "event", "recompute", "overlay"},
                                      arg : Nat \cup Event \cup Key])]
    /\ \A d \in DOMAIN LegacyDirs : LET log == LegacyDirs[d].log IN
         \A i \in DOMAIN log : /\ log[i].path = LegacyDirs[d].path
                               /\ log[i].ts # MaxTime
                               /\ \A j \in DOMAIN log : log[i] = log[j] => i = j

VARIABLES
    rows,           \* the paths with a row in `paths`
    targets,        \* targets[p]: how many rows of `path_targets` p has
    overlay,        \* overlay[k]: who wrote the row of k: "legacy" or "user"
    runner,         \* the directory being imported and its statements to come
    runs,           \* how often the command was started
    completed,      \* some run has ended and printed its report
    halfImported    \* history: paths whose import broke off before its end

importVars == <<rows, targets, overlay, runner, runs, completed, halfImported>>
migrateVars == <<importVars, cacheVars>>

Statement(op, arg) == [op |-> op, arg |-> arg]

MigrateInit ==
    /\ CacheInit
    /\ now = MaxTime
    /\ rows = {}
    /\ targets = [p \in Path |-> 0]
    /\ overlay = [k \in Key |-> NoRow]
    /\ runner = NotRunning
    /\ runs = 0
    /\ completed = FALSE
    /\ halfImported = {}

(* The card of q on p as `fold_history` computes it from a log, from the   *)
(* first of its answers to the last.                                       *)
Replay(log, p, q) ==
    LET card[n \in 0 .. Len(log)] ==
          IF n = 0 THEN NoCard
          ELSE IF /\ log[n].kind = "quiz_answered"
                  /\ log[n].path = p
                  /\ log[n].quiz = q
                  /\ log[n].rating # NoRating
               THEN ApplyAnswer(card[n - 1], log[n].rating, log[n].ts)
               ELSE card[n - 1]
    IN  card[Len(log)]

Running == runner # NotRunning
Dir == LegacyDirs[runner.dir]
NextIs(op) == Running /\ runner.todo # <<>> /\ Head(runner.todo).op = op
Proceed == runner' = [runner EXCEPT !.todo = Tail(@)]

StartRun ==
    /\ ~Running
    /\ runs < MaxRuns
    /\ runs' = runs + 1
    /\ runner' = [dir |-> 1, todo |-> <<Statement("path", 0)>>]
    /\ UNCHANGED <<rows, targets, overlay, completed, halfImported, cacheVars>>

(* Mutant: the overlay too is imported only with a new path row. *)
ScriptAllOrNothing(fresh) ==
    IF fresh THEN [i \in 1 .. Dir.targets |-> Statement("target", i)]
                  \o [i \in DOMAIN Dir.log |-> Statement("event", Dir.log[i])]
                  \o <<Statement("recompute", 0)>>
                  \o [i \in DOMAIN Dir.overlay |-> Statement("overlay", Dir.overlay[i])]
    ELSE <<>>

(* What follows the path row; the history only if that row is new. *)
Script(fresh) ==
    LET history == [i \in 1 .. Dir.targets |-> Statement("target", i)]
                   \o [i \in DOMAIN Dir.log |-> Statement("event", Dir.log[i])]
                   \o (IF Dir.log = <<>> THEN <<>> ELSE <<Statement("recompute", 0)>>)
    IN  (IF fresh THEN history ELSE <<>>)
          \o [i \in DOMAIN Dir.overlay |-> Statement("overlay", Dir.overlay[i])]

(* Mutant: a path already present is imported again. *)
ImportPathAgain ==
    /\ NextIs("path")
    /\ rows' = rows \cup {Dir.path}
    /\ runner' = [runner EXCEPT !.todo = Script(TRUE)]
    /\ UNCHANGED <<targets, overlay, runs, completed, halfImported, cacheVars>>

(* INSERT OR IGNORE INTO paths. *)
ImportPath ==
    /\ NextIs("path")
    /\ rows' = rows \cup {Dir.path}
    /\ runner' = [runner EXCEPT !.todo = Script(Dir.path \notin rows)]
    /\ UNCHANGED <<targets, overlay, runs, completed, halfImported, cacheVars>>

ImportTarget ==
    /\ NextIs("target")
    /\ targets' = [targets EXCEPT ![Dir.path] = @ + 1]
    /\ Proceed
    /\ UNCHANGED <<rows, overlay, runs, completed, halfImported, cacheVars>>

(* `insert_event`: the row alone, not the card. *)
ImportEvent ==
    /\ NextIs("event")
    /\ events' = Append(events, Head(runner.todo).arg)
    /\ Proceed
    /\ UNCHANGED <<rows, targets, overlay, runs, completed, halfImported, cards, now>>

(* Mutant: the cards are computed from the file instead of the table. *)
RebuildCardsFromFile ==
    /\ NextIs("recompute")
    /\ cards' = [c \in Path \X Quiz |->
                   IF c[1] = Dir.path THEN Replay(Dir.log, c[1], c[2]) ELSE cards[c]]
    /\ Proceed
    /\ UNCHANGED <<rows, targets, overlay, runs, completed, halfImported, events, now>>

(* `recompute`, in a transaction: the cards of the path from its log. *)
RebuildCards ==
    /\ NextIs("recompute")
    /\ cards' = [c \in Path \X Quiz |->
                   IF c[1] = Dir.path THEN Replay(events, c[1], c[2]) ELSE cards[c]]
    /\ Proceed
    /\ UNCHANGED <<rows, targets, overlay, runs, completed, halfImported, events, now>>

(* Mutant: an upsert, as in `upsert_lesson`. *)
ImportOverlayUpsert ==
    /\ NextIs("overlay")
    /\ overlay' = [overlay EXCEPT ![Head(runner.todo).arg] = "legacy"]
    /\ Proceed
    /\ UNCHANGED <<rows, targets, runs, completed, halfImported, cacheVars>>

(* INSERT OR IGNORE of one overlay row. *)
ImportOverlay ==
    /\ NextIs("overlay")
    /\ overlay' = [overlay EXCEPT ![Head(runner.todo).arg] = IF @ = NoRow THEN "legacy" ELSE @]
    /\ Proceed
    /\ UNCHANGED <<rows, targets, runs, completed, halfImported, cacheVars>>

NextDirectory ==
    /\ Running
    /\ runner.todo = <<>>
    /\ IF runner.dir < Len(LegacyDirs)
       THEN /\ runner' = [dir |-> runner.dir + 1, todo |-> <<Statement("path", 0)>>]
            /\ UNCHANGED completed
       ELSE /\ runner' = NotRunning
            /\ completed' = TRUE
    /\ UNCHANGED <<rows, targets, overlay, runs, halfImported, cacheVars>>

(* Statements that import the history of a path. *)
Importing(p) ==
    /\ Running
    /\ Dir.path = p
    /\ \E i \in DOMAIN runner.todo : runner.todo[i].op \in {"target", "event", "recompute"}

BreakOff ==
    /\ Running
    /\ runner' = NotRunning
    /\ halfImported' = halfImported \cup {p \in Path : Importing(p)}
    /\ UNCHANGED <<rows, targets, overlay, runs, completed, cacheVars>>

(* `quiz answer` on a path that exists. *)
UserAnswers(p, q, rating) ==
    /\ p \in rows
    /\ AppendAnswer(p, q, rating)
    /\ UNCHANGED importVars

(* `lesson upsert` or `quiz update`. *)
UserEdits(k) ==
    /\ rows # {}
    /\ overlay' = [overlay EXCEPT ![k] = "user"]
    /\ UNCHANGED <<rows, targets, runner, runs, completed, halfImported, cacheVars>>

MigrateNext ==
    \/ StartRun
    \/ ImportPath
    \/ ImportTarget
    \/ ImportEvent
    \/ RebuildCards
    \/ ImportOverlay
    \/ NextDirectory
    \/ BreakOff
    \/ \E p \in Path, q \in Quiz, rating \in Rating : UserAnswers(p, q, rating)
    \/ \E k \in Key : UserEdits(k)

MigrateSpec == MigrateInit /\ [][MigrateNext]_migrateVars

-----------------------------------------------------------------------------

(* No event of a legacy log is imported twice, however often the command   *)
(* is run again and wherever an earlier run broke off.                     *)
ImportedOnce ==
    \A d \in ToSet(LegacyDirs) : \A event \in ToSet(d.log) :
        Cardinality({i \in DOMAIN events : events[i] = event}) <= 1

(* Every card is the replay of the log of its path, answers the user gave  *)
(* during the import included, unless that path is being imported or its   *)
(* import broke off.                                                       *)
CardsReplayTheLog ==
    \A p \in Path, q \in Quiz :
        p \notin halfImported /\ ~Importing(p) => cards[<<p, q>>] = Replay(events, p, q)

(* Once a run has ended, the overlay rows of every directory are there,    *)
(* those of directories whose import had broken off included.              *)
OverlayImported ==
    completed => \A d \in ToSet(LegacyDirs) : \A k \in ToSet(d.overlay) : overlay[k] # NoRow

(* No run of the command, first or repeated, overwrites what the user has  *)
(* edited, nor takes back an answer.                                       *)
ImportKeepsEdits ==
    [][/\ \A k \in Key : overlay[k] = "user" => overlay'[k] = "user"
       /\ IsPrefix(events, events')]_migrateVars
=============================================================================
