----------------------------- MODULE TutorProofs -----------------------------
(***************************************************************************)
(* Proofs about Tutor and about Playbook on top of it, for every           *)
(* curriculum, release history and clock.                                  *)
(***************************************************************************)
EXTENDS Playbook, CurriculumProofs

(* Every step of the tutor is an answer, a reading of the clock, or no     *)
(* step at all for the review schedule.                                    *)
LEMMA StepsReview == [Next]_vars => [ReviewNext]_reviewVars
<1> SUFFICES ASSUME [Next]_vars
             PROVE  [ReviewNext]_reviewVars
  OBVIOUS
<1>1. ASSUME NEW p \in Path, NEW q \in QuizId, NEW rating \in Rating,
             QuizAnswer(p, q, rating)
      PROVE  ReviewNext
  <2>1. q \in Quiz /\ Answer(p, q, rating)
    BY <1>1, TutorAssumption DEF QuizAnswer
  <2> QED
    BY <2>1 DEF ReviewNext
<1>2. CASE Tick
  BY <1>2 DEF Tick, ReviewNext
<1>3. ASSUME NEW p \in Path,
             \/ \E targets \in TargetLists, strategy \in Strategy : PathNew(p, targets, strategy)
             \/ \E strategy \in Strategy : PathStrategy(p, strategy)
             \/ \E atoms \in SubpathLists : SubpathValidate(p, atoms)
             \/ SubpathClear(p)
      PROVE  UNCHANGED reviewVars
  BY <1>3 DEF PathNew, PathStrategy, SubpathValidate, SubpathClear
<1>4. ASSUME NEW p \in Path,
             \/ \E a \in Id : LessonUpsert(p, a)
             \/ \E a \in Id, difficulty \in Difficulty : QuizCreate(p, a, difficulty)
             \/ \E q \in QuizId, difficulty \in Difficulty : QuizUpdate(p, q, difficulty)
             \/ \E q \in QuizId : QuizDelete(p, q)
      PROVE  UNCHANGED reviewVars
  BY <1>4 DEF LessonUpsert, QuizCreate, QuizUpdate, QuizDelete
<1>5. ASSUME NEW p \in Path, NEW mode \in Mode, NextStep(p, mode)
      PROVE  UNCHANGED reviewVars
  BY <1>5 DEF NextStep, NextReturns
<1>6. CASE SubpathStore \/ SubpathAbandon \/ Upgrade
  BY <1>6 DEF SubpathStore, SubpathAbandon, Upgrade
<1>7. CASE UNCHANGED vars
  BY <1>7 DEF vars
<1> QED
  BY <1>1, <1>2, <1>3, <1>4, <1>5, <1>6, <1>7 DEF Next

-----------------------------------------------------------------------------
(* What the commands see is of its kind. *)

LEMMA MergedOK ==
    ASSUME TypeOK
    PROVE  /\ WellFormed(Merged)
           /\ Merged.ids = Releases[release].ids
           /\ Merged.areas = Releases[release].areas
           /\ Merged.prereqs = Releases[release].prereqs
           /\ Merged.children = Releases[release].children
           /\ Merged.lesson = Releases[release].lesson \cup (lessons \cap Releases[release].ids)
<1>1. overlay \in Overlays
  BY DEF TypeOK, Overlays
<1>2. PICK g : g = Releases[release]
  OBVIOUS
<1>3. WellFormed(g)
  BY <1>2, TutorAssumption DEF TypeOK
<1>4. PICK m : m = WithOverlay(g, lessons, overlay, removed)
  OBVIOUS
<1>5. /\ m.ids = g.ids /\ m.prereqs = g.prereqs /\ m.children = g.children
      /\ m.lesson = g.lesson \cup (lessons \cap g.ids)
      /\ WellFormed(m)
  BY <1>1, <1>3, <1>4, MergedIs
<1>6. m = Merged
  BY <1>2, <1>4 DEF Merged
<1>7. m.areas = g.areas
  BY <1>3, <1>4, MergedAreas
<1>8. QED BY <1>2, <1>5, <1>6, <1>7

LEMMA LiveMeans ==
    ASSUME TypeOK, NEW q \in QuizId
    PROVE  /\ AtomOf(q) \in Releases[release].ids =>
                (q \in QuizIdsOf(Merged, AtomOf(q))
                   <=> /\ q \notin removed
                       /\ q \in QuizIdsOf(Releases[release], AtomOf(q)) \/ overlay[q] # NoQuiz)
           /\ Live(Merged, q) <=> /\ AtomOf(q) \in Releases[release].ids
                                  /\ q \in QuizIdsOf(Merged, AtomOf(q))
<1>1. overlay \in Overlays
  BY DEF TypeOK, Overlays
<1>2. PICK g : g = Releases[release]
  OBVIOUS
<1>3. WellFormed(g)
  BY <1>2, TutorAssumption DEF TypeOK
<1>4. PICK m : m = WithOverlay(g, lessons, overlay, removed)
  OBVIOUS
<1>5. m = Merged
  BY <1>2, <1>4 DEF Merged
<1>6. m.ids = g.ids /\ \A id \in g.ids : Merges(g, overlay, removed, m, id)
  <2>1. AllMerge(g, overlay, removed, m)
    BY <1>1, <1>3, <1>4, MergedLists
  <2>2. m.ids = g.ids
    BY <1>1, <1>3, <1>4, MergedIs
  <2>3. QED BY <2>1, <2>2 DEF AllMerge
<1>7. PICK id : id = AtomOf(q)
  OBVIOUS
<1>8. id \in g.ids =>
        (q \in QuizIdsOf(m, id)
           <=> q \notin removed /\ (q \in QuizIdsOf(g, id) \/ overlay[q] # NoQuiz))
  BY <1>1, <1>3, <1>6, <1>7, LiveIs
<1>9. QED BY <1>2, <1>5, <1>6, <1>7, <1>8 DEF Live

(* The targets, the subpath and the route are lists of atoms. *)
Routed(p) ==
    /\ Targets(p).atoms \in Seq(AtomsOf(Merged)) /\ Distinct(Targets(p).atoms)
    /\ Subpath(p).atoms \in Seq(AtomsOf(Merged))
    /\ RouteOf(p) \in Seq(AtomsOf(Merged))
    /\ paths[p].strategy = "bottom_up" =>
          /\ RouteOf(p) = PostOrder(Merged, Targets(p).atoms)
          /\ ToSet(RouteOf(p)) = ReachableAtoms(Merged, ToSet(Targets(p).atoms))
    /\ paths[p].strategy = "top_down" => RouteOf(p) = Subpath(p).atoms \o Targets(p).atoms

LEMMA RouteOK ==
    ASSUME TypeOK, NEW p \in Path, Exists(p)
    PROVE  /\ Routed(p)
           /\ paths[p].strategy \in Strategy
<1>1. PICK m : m = Merged /\ WellFormed(m)
  BY MergedOK
<1>2. PICK path \in [targets : Seq(Id), strategy : Strategy] : path = paths[p]
  BY DEF TypeOK, Exists
<1>3. PICK targets : targets = ResolveTargets(m, path.targets).atoms
  OBVIOUS
<1>4. targets \in Seq(AtomsOf(m)) /\ Distinct(targets)
  BY <1>1, <1>3, TargetsListed
<1>5. PICK sub : sub = ExpandToAtoms(m, subpath[p]).atoms
  OBVIOUS
<1>6. sub \in Seq(AtomsOf(m))
  <2>1. PICK ids \in Seq(Id) : ids = subpath[p]
    BY DEF TypeOK
  <2>2. ExpandToAtoms(m, ids).atoms \in Seq(AtomsOf(m))
    BY <1>1, ExpansionLists
  <2>3. QED BY <1>5, <2>1, <2>2
<1>7. targets \in Seq(Id)
  <2>1. AtomsOf(m) \subseteq Id
    BY <1>1 DEF AtomsOf, WellFormed
  <2>2. QED BY <1>4, <2>1
<1>8. PostOrder(m, targets) \in Seq(AtomsOf(m))
      /\ ToSet(PostOrder(m, targets)) = ReachableAtoms(m, ToSet(targets))
  BY <1>1, <1>7, WalkReaches
<1>9. sub \o targets \in Seq(AtomsOf(m))
  BY <1>4, <1>6, Joined
<1>10. PICK route : route = Route(m, path.strategy, targets, sub)
  OBVIOUS
<1>11. /\ path.strategy = "bottom_up" => route = PostOrder(m, targets)
       /\ path.strategy # "bottom_up" => route = sub \o targets
  BY <1>10 DEF Route
<1>12. path.strategy \in {"bottom_up", "top_down"} /\ "bottom_up" # "top_down"
  BY DEF Strategy
<1>13. route \in Seq(AtomsOf(m))
  BY <1>8, <1>9, <1>11
<1>14. Targets(p).atoms = targets /\ Subpath(p).atoms = sub /\ RouteOf(p) = route
  BY <1>1, <1>2, <1>3, <1>5, <1>10 DEF Targets, Subpath, RouteOf
<1>15. Routed(p)
  BY <1>1, <1>2, <1>4, <1>6, <1>8, <1>11, <1>12, <1>13, <1>14 DEF Routed
<1>16. QED BY <1>2, <1>15

(* A new step of a path is on an atom of its route. *)
StepOn(p, x) == StepOf(Merged, Taught(p), Correct(p), RouteOf(p), x)

LEMMA ActionsAre ==
    ASSUME TypeOK, NEW p \in Path, Exists(p), NEW mode, NEW x \in Actions(p, mode)
    PROVE  /\ \/ \E q \in DueCards(p, now) : Live(Merged, q) /\ x = PresentQuiz(q)
              \/ x = Done
              \/ StepOn(p, x)
           /\ mode = "new" => StepOn(p, x)
<1>1. PICK dues : dues = [q \in QuizId |-> due[<<p, q>>]]
  OBVIOUS
<1>2. x \in NextActions(Merged, Taught(p), Correct(p), RouteOf(p), DueCards(p, now), dues, mode)
  BY <1>1 DEF Actions
<1>3. RouteOf(p) \in Seq(AtomsOf(Merged))
  BY RouteOK DEF Routed
<1>4. \A y \in NewAction(Merged, Taught(p), Correct(p), RouteOf(p)) : StepOn(p, y)
  BY <1>3, NewSteps DEF StepOn
<1>5. mode = "new" => x \in NewAction(Merged, Taught(p), Correct(p), RouteOf(p))
  BY <1>2, NewOnly
<1>6. \/ \E q \in DueCards(p, now) : Live(Merged, q) /\ x = PresentQuiz(q)
      \/ x = Done
      \/ x \in NewAction(Merged, Taught(p), Correct(p), RouteOf(p))
  BY <1>2, NextSteps
<1>7. QED BY <1>4, <1>5, <1>6

(* The atom an action is on, and what it says of the atoms before it. *)
Reached(p, x, i) ==
    /\ i \in DOMAIN RouteOf(p)
    /\ x # Done /\ x.kind # "done"
    /\ x.atom = RouteOf(p)[i] /\ x.atom \in AtomsOf(Merged)
    /\ ~(Complete(p, x.atom) /\ x.atom \in Taught(p))
    /\ x.kind = "present_quiz" => Live(Merged, x.quiz)
    /\ x.kind = "present_lesson" => x.atom \in Merged.lesson
    /\ x.kind = "create_quiz" =>
          x.atom \in Merged.lesson /\ x.atom \in Taught(p) /\ x.difficulty \in Difficulty
    /\ \A j \in DOMAIN RouteOf(p) : j < i =>
          Complete(p, RouteOf(p)[j]) /\ RouteOf(p)[j] \in Taught(p)

LEMMA StepReaches ==
    ASSUME TypeOK, NEW p \in Path, Exists(p), NEW x, StepOn(p, x)
    PROVE  \/ x = Done /\ \A a \in ToSet(RouteOf(p)) : Complete(p, a) /\ a \in Taught(p)
           \/ \E i : Reached(p, x, i)
<1>1. PICK m : m = Merged /\ WellFormed(m)
  BY MergedOK
<1>2. PICK route \in Seq(AtomsOf(m)) : route = RouteOf(p)
  BY <1>1, RouteOK DEF Routed
<1>3. PICK taughtOn, correctOn : taughtOn = Taught(p) /\ correctOn = Correct(p)
  OBVIOUS
<1>4. \A a : Complete(p, a) <=> AtomComplete(m, correctOn, a)
  BY <1>1, <1>3 DEF Complete
<1>5. \A a : Steps(m, taughtOn, correctOn, a, AtomAction(m, taughtOn, correctOn, a))
  BY <1>1, StepsAre
<1>6. \A i \in DOMAIN route : route[i] \in AtomsOf(m) /\ route[i] \in m.ids
  BY DEF AtomsOf
<1>7. \A i \in DOMAIN route : AtomAction(m, taughtOn, correctOn, route[i]) = {}
         <=> AtomComplete(m, correctOn, route[i]) /\ route[i] \in taughtOn
  BY <1>5, <1>6 DEF Steps
<1>8. StepOf(m, taughtOn, correctOn, route, x)
  BY <1>1, <1>2, <1>3 DEF StepOn
<1>9. CASE x = Done /\ \A i \in DOMAIN route : AtomAction(m, taughtOn, correctOn, route[i]) = {}
  <2>1. ASSUME NEW a \in ToSet(route) PROVE AtomComplete(m, correctOn, a) /\ a \in taughtOn
    <3>1. PICK i \in DOMAIN route : a = route[i]
      BY DEF ToSet
    <3>2. QED BY <3>1, <1>7, <1>9
  <2>2. QED BY <2>1, <1>2, <1>3, <1>4, <1>9
<1>10. ASSUME NEW i \in DOMAIN route, x \in AtomAction(m, taughtOn, correctOn, route[i]),
              \A j \in DOMAIN route : j < i => AtomAction(m, taughtOn, correctOn, route[j]) = {}
       PROVE  Reached(p, x, i)
  <2>1. PICK a : a = route[i]
    OBVIOUS
  <2>2. PICK steps : steps = AtomAction(m, taughtOn, correctOn, a)
    OBVIOUS
  <2>3. x \in steps /\ Steps(m, taughtOn, correctOn, a, steps)
    BY <1>5, <1>10, <2>1, <2>2
  <2>4. /\ x # Done /\ x.atom = a /\ x.kind # "done"
        /\ x.kind = "present_quiz" => Live(m, x.quiz)
        /\ x.kind = "present_lesson" => a \in m.lesson
        /\ x.kind = "create_quiz" =>
              a \in m.lesson /\ a \in taughtOn /\ x.difficulty \in Difficulty
        /\ ~(AtomComplete(m, correctOn, a) /\ a \in taughtOn)
    BY <2>3 DEF Steps
  <2>5. \A j \in DOMAIN route : j < i => AtomComplete(m, correctOn, route[j]) /\ route[j] \in taughtOn
    BY <1>7, <1>10
  <2>6. a \in AtomsOf(m)
    BY <2>1, <1>6
  <2>7. QED BY <2>1, <2>4, <2>5, <2>6, <1>1, <1>2, <1>3, <1>4 DEF Reached
<1>11. QED BY <1>2, <1>8, <1>9, <1>10 DEF StepOf

(* Nothing is left on the route of a path. *)
Finished(p) == Exists(p) /\ \A a \in ToSet(RouteOf(p)) : Complete(p, a) /\ a \in Taught(p)

LEMMA NothingOpen ==
    ASSUME TypeOK, NEW p \in Path, Finished(p)
    PROVE  Actions(p, "new") = {Done}
<1>1. PICK m : m = Merged /\ WellFormed(m)
  BY MergedOK
<1>2. PICK route \in Seq(AtomsOf(m)) : route = RouteOf(p)
  BY <1>1, RouteOK DEF Routed, Finished
<1>3. PICK taughtOn, correctOn : taughtOn = Taught(p) /\ correctOn = Correct(p)
  OBVIOUS
<1>4. \A a \in ToSet(route) : a \in taughtOn /\ AtomComplete(m, correctOn, a)
  BY <1>1, <1>2, <1>3 DEF Finished, Complete
<1>5. ASSUME NEW i \in DOMAIN route PROVE AtomAction(m, taughtOn, correctOn, route[i]) = {}
  <2>1. PICK a, steps : a = route[i] /\ steps = AtomAction(m, taughtOn, correctOn, a)
    OBVIOUS
  <2>2. a \in ToSet(route)
    BY <2>1 DEF ToSet
  <2>3. Steps(m, taughtOn, correctOn, a, steps)
    BY <1>1, <2>1, StepsAre
  <2>4. steps = {}
    BY <1>4, <2>2, <2>3 DEF Steps
  <2>5. QED BY <2>1, <2>4
<1>6. NewAction(m, taughtOn, correctOn, route) = {Done}
  BY <1>5, NewSteps
<1>7. Actions(p, "new") = NewAction(m, taughtOn, correctOn, route)
  BY <1>1, <1>2, <1>3, NewOnly DEF Actions
<1>8. QED BY <1>6, <1>7

-----------------------------------------------------------------------------
(* Type correctness. *)

LEMMA ReviewKeepsTypes ==
    ASSUME ReviewTypeOK, [ReviewNext]_reviewVars
    PROVE  ReviewTypeOK'
<1>1. ASSUME NEW p \in Path, NEW q \in Quiz, NEW rating \in Rating, Answer(p, q, rating)
      PROVE  ReviewTypeOK'
  <2>1. PICK interval \in Interval : due' = [due EXCEPT ![<<p, q>>] = now + interval]
    BY <1>1 DEF Answer
  <2>2. now + interval \in Nat
    BY ReviewAssumption DEF ReviewTypeOK
  <2>3. due' \in [Path \X Quiz -> Nat \cup {NoDue}]
    BY <2>1, <2>2 DEF ReviewTypeOK
  <2>4. correct' \subseteq Path \X Quiz
    BY <1>1 DEF Answer, ReviewTypeOK
  <2>5. QED BY <1>1, <2>3, <2>4 DEF Answer, ReviewTypeOK
<1>2. CASE Clock
  BY <1>2 DEF Clock, ReviewTypeOK
<1>3. CASE UNCHANGED reviewVars
  BY <1>3 DEF reviewVars, ReviewTypeOK
<1>4. QED BY <1>1, <1>2, <1>3 DEF ReviewNext

(* What is stored of the paths, the overlay and the release. *)
PathsOK ==
    /\ paths \in [Path -> {NoPath} \cup [targets : Seq(Id), strategy : Strategy]]
    /\ subpath \in [Path -> Seq(Id)]
    /\ setting \in {NoRequest} \cup [path : Path, atoms : Seq(Id)]
StoredOK ==
    /\ taught \subseteq Path \X Id
    /\ lessons \subseteq Id
    /\ overlay \in [QuizId -> Difficulty \cup {NoQuiz}]
    /\ removed \subseteq QuizId
    /\ release \in DOMAIN Releases

LEMMA TypesSplit == TypeOK <=> ReviewTypeOK /\ PathsOK /\ StoredOK
BY DEF TypeOK, PathsOK, StoredOK

LEMMA PathsKeepTypes ==
    ASSUME TypeOK, [Next]_vars
    PROVE  PathsOK'
<1>1. PathsOK
  BY TypesSplit
<1>2. ASSUME NEW p \in Path, NEW targets \in TargetLists, NEW strategy \in Strategy,
             PathNew(p, targets, strategy)
      PROVE  PathsOK'
  <2>1. targets \in Seq(Id)
    BY TutorAssumption
  <2>2. PICK path : path = [targets |-> Dedup(targets), strategy |-> strategy]
    OBVIOUS
  <2>3. path \in [targets : Seq(Id), strategy : Strategy]
    BY <2>1, <2>2, DedupKeeps
  <2>4. paths' = [paths EXCEPT ![p] = path]
    BY <1>2, <2>2 DEF PathNew
  <2>5. QED BY <1>1, <1>2, <2>3, <2>4 DEF PathNew, PathsOK
<1>3. ASSUME NEW p \in Path, NEW strategy \in Strategy, PathStrategy(p, strategy)
      PROVE  PathsOK'
  <2>1. paths[p] \in [targets : Seq(Id), strategy : Strategy]
    BY <1>1, <1>3 DEF PathStrategy, Exists, PathsOK
  <2>2. [paths[p] EXCEPT !.strategy = strategy] \in [targets : Seq(Id), strategy : Strategy]
    BY <2>1
  <2>3. paths' = [paths EXCEPT ![p] = [paths[p] EXCEPT !.strategy = strategy]]
    BY <1>3 DEF PathStrategy
  <2>4. QED BY <1>1, <1>3, <2>2, <2>3 DEF PathStrategy, PathsOK
<1>4. ASSUME NEW p \in Path, NEW atoms \in SubpathLists, SubpathValidate(p, atoms)
      PROVE  PathsOK'
  <2>1. atoms \in Seq(Id)
    BY TutorAssumption
  <2>2. QED BY <1>1, <1>4, <2>1 DEF SubpathValidate, PathsOK
<1>5. CASE SubpathStore
  BY <1>1, <1>5 DEF SubpathStore, PathsOK
<1>6. CASE SubpathAbandon
  BY <1>1, <1>6 DEF SubpathAbandon, PathsOK
<1>7. ASSUME NEW p \in Path, SubpathClear(p)
      PROVE  PathsOK'
  <2>1. <<>> \in Seq(Id)
    OBVIOUS
  <2>2. QED BY <1>1, <1>7, <2>1 DEF SubpathClear, PathsOK
<1>8. ASSUME NEW p \in Path, NEW mode, NEW action, NextReturns(p, mode, action)
      PROVE  PathsOK'
  <2>1. <<>> \in Seq(Id)
    OBVIOUS
  <2>2. QED BY <1>1, <1>8, <2>1 DEF NextReturns, PathsOK
<1>9. CASE \E p \in Path : \/ \E a \in Id : LessonUpsert(p, a)
                           \/ \E a \in Id, difficulty \in Difficulty : QuizCreate(p, a, difficulty)
                           \/ \E q \in QuizId, difficulty \in Difficulty : QuizUpdate(p, q, difficulty)
                           \/ \E q \in QuizId : QuizDelete(p, q)
                           \/ \E q \in QuizId, rating \in Rating : QuizAnswer(p, q, rating)
  BY <1>1, <1>9 DEF LessonUpsert, QuizCreate, QuizUpdate, QuizDelete, QuizAnswer, storeVars, PathsOK
<1>10. CASE Upgrade \/ Tick \/ UNCHANGED vars
  BY <1>1, <1>10 DEF Upgrade, Tick, vars, storeVars, PathsOK
<1>11. QED
  BY <1>2, <1>3, <1>4, <1>5, <1>6, <1>7, <1>8, <1>9, <1>10 DEF Next, NextStep

LEMMA StoreKeepsTypes ==
    ASSUME TypeOK, [Next]_vars
    PROVE  StoredOK'
<1>1. StoredOK
  BY TypesSplit
<1>2. ASSUME NEW p \in Path, NEW mode \in Mode, NextStep(p, mode)
      PROVE  StoredOK'
  <2>1. PICK action \in Actions(p, mode) : NextReturns(p, mode, action)
    BY <1>2 DEF NextStep
  <2>2. action.kind = "present_lesson" => action.atom \in Id
    <3>1. Exists(p)
      BY <2>1 DEF NextReturns, Resolves
    <3>2. \/ \E q : action = PresentQuiz(q)
          \/ action = Done
          \/ StepOn(p, action)
      BY <3>1, ActionsAre
    <3>3. action.kind = "present_lesson" => StepOn(p, action)
      BY <3>2 DEF PresentQuiz, Done
    <3>4. action.kind = "present_lesson" => \E i : Reached(p, action, i)
      BY <3>1, <3>3, StepReaches DEF Done
    <3>5. AtomsOf(Merged) \subseteq Id
      BY MergedOK DEF AtomsOf, WellFormed
    <3>6. QED BY <3>4, <3>5 DEF Reached
  <2>3. taught' \subseteq Path \X Id
    BY <1>1, <2>1, <2>2 DEF NextReturns, StoredOK
  <2>4. QED BY <1>1, <2>1, <2>3 DEF NextReturns, StoredOK
<1>3. ASSUME NEW p \in Path, NEW a \in Id, LessonUpsert(p, a)
      PROVE  StoredOK'
  BY <1>1, <1>3 DEF LessonUpsert, StoredOK
<1>4. ASSUME NEW p \in Path, NEW a \in Id, NEW difficulty \in Difficulty,
             QuizCreate(p, a, difficulty)
      PROVE  StoredOK'
  BY <1>1, <1>4 DEF QuizCreate, StoredOK
<1>5. ASSUME NEW p \in Path, NEW q \in QuizId, NEW difficulty \in Difficulty,
             QuizUpdate(p, q, difficulty)
      PROVE  StoredOK'
  BY <1>1, <1>5 DEF QuizUpdate, StoredOK
<1>6. ASSUME NEW p \in Path, NEW q \in QuizId, QuizDelete(p, q)
      PROVE  StoredOK'
  BY <1>1, <1>6 DEF QuizDelete, StoredOK
<1>7. CASE Upgrade
  <2>1. release \in Nat /\ DOMAIN Releases = 1 .. Len(Releases) /\ Len(Releases) \in Nat
    BY <1>1, TutorAssumption DEF StoredOK
  <2>2. release + 1 \in DOMAIN Releases
    BY <1>1, <1>7, <2>1 DEF Upgrade, StoredOK
  <2>3. QED BY <1>1, <1>7, <2>2 DEF Upgrade, StoredOK
<1>8. CASE \E p \in Path :
              \/ \E targets \in TargetLists, strategy \in Strategy : PathNew(p, targets, strategy)
              \/ \E strategy \in Strategy : PathStrategy(p, strategy)
              \/ \E atoms \in SubpathLists : SubpathValidate(p, atoms)
              \/ SubpathClear(p)
              \/ \E q \in QuizId, rating \in Rating : QuizAnswer(p, q, rating)
  BY <1>1, <1>8 DEF PathNew, PathStrategy, SubpathValidate, SubpathClear, QuizAnswer, storeVars, StoredOK
<1>9. CASE SubpathStore \/ SubpathAbandon \/ Tick \/ UNCHANGED vars
  BY <1>1, <1>9 DEF SubpathStore, SubpathAbandon, Tick, vars, storeVars, StoredOK
<1>10. QED
  BY <1>2, <1>3, <1>4, <1>5, <1>6, <1>7, <1>8, <1>9 DEF Next

LEMMA InitTypes == Init => TypeOK
<1>1. SUFFICES ASSUME Init PROVE TypeOK
  OBVIOUS
<1>2. ReviewTypeOK
  BY <1>1 DEF Init, ReviewInit, ReviewTypeOK
<1>3. PathsOK
  <2>1. <<>> \in Seq(Id)
    OBVIOUS
  <2>2. QED BY <1>1, <2>1 DEF Init, PathsOK
<1>4. StoredOK
  <2>1. 1 \in DOMAIN Releases
    <3>1. Len(Releases) \in Nat \ {0} /\ DOMAIN Releases = 1 .. Len(Releases)
      BY TutorAssumption
    <3>2. QED BY <3>1
  <2>2. QED BY <1>1, <2>1 DEF Init, StoredOK
<1>5. QED BY <1>2, <1>3, <1>4, TypesSplit

LEMMA StepTypes == TypeOK /\ [Next]_vars => TypeOK'
<1>1. SUFFICES ASSUME TypeOK, [Next]_vars PROVE TypeOK'
  OBVIOUS
<1>2. ReviewTypeOK'
  BY <1>1, StepsReview, ReviewKeepsTypes, TypesSplit
<1>3. PathsOK' /\ StoredOK'
  BY <1>1, PathsKeepTypes, StoreKeepsTypes
<1>4. QED BY <1>2, <1>3 DEF TypeOK, PathsOK, StoredOK

(* The database of the learner is of its kind: the atoms logged as taught  *)
(* are concepts whatever route `next` took to them, and what the overlay,  *)
(* the subpaths and the targets name are ids.                              *)
THEOREM TutorTypes == Spec => []TypeOK
BY InitTypes, StepTypes, PTL DEF Spec

-----------------------------------------------------------------------------
(* What `next` says, in every state. *)

(* `next` never presents a quiz that `quiz answer` would refuse.  A due    *)
(* card may be of a quiz deleted or withdrawn since, and a new quiz is     *)
(* found by slot: both are looked up in the graph of now.                  *)
THEOREM PresentsLiveQuizzes == Spec => []PresentedIsLive
<1>1. ASSUME TypeOK PROVE PresentedIsLive
  <2>1. SUFFICES ASSUME NEW p \in Path, NEW mode \in Mode, Resolves(p),
                        NEW x \in Actions(p, mode), x.kind = "present_quiz"
                 PROVE  Live(Merged, x.quiz)
    BY DEF PresentedIsLive
  <2>2. Exists(p)
    BY <2>1 DEF Resolves
  <2>3. \/ \E q \in DueCards(p, now) : Live(Merged, q) /\ x = PresentQuiz(q)
        \/ x = Done
        \/ StepOn(p, x)
    BY <1>1, <2>1, <2>2, ActionsAre
  <2>4. CASE \E q \in DueCards(p, now) : Live(Merged, q) /\ x = PresentQuiz(q)
    BY <2>4 DEF PresentQuiz
  <2>5. CASE x = Done
    BY <2>1, <2>5 DEF Done
  <2>6. CASE StepOn(p, x)
    <3>1. x = Done \/ \E i : Reached(p, x, i)
      BY <1>1, <2>2, <2>6, StepReaches
    <3>2. QED BY <2>1, <3>1 DEF Reached, Done
  <2>7. QED BY <2>3, <2>4, <2>5, <2>6
<1>2. QED BY <1>1, TutorTypes, PTL

(* The syllabus keeps its word: whatever was taught, authored and answered *)
(* meanwhile, the next lesson is the one it lists first.                   *)
THEOREM SyllabusKeepsWord == Spec => []SyllabusPredictsTeaching
<1>1. ASSUME TypeOK PROVE SyllabusPredictsTeaching
  <2>1. SUFFICES ASSUME NEW p \in Path, Resolves(p), NEW x \in Actions(p, "new")
                 PROVE  IF x = Done THEN Roadmap(p) = <<>>
                        ELSE x.atom \notin Taught(p)
                               => Roadmap(p) # <<>> /\ Head(Roadmap(p)) = x.atom
    BY DEF SyllabusPredictsTeaching
  <2>2. Exists(p)
    BY <2>1 DEF Resolves
  <2>3. PICK route \in Seq(AtomsOf(Merged)) : route = RouteOf(p)
    BY <1>1, <2>2, RouteOK DEF Routed
  <2>4. PICK taughtOn : taughtOn = Taught(p)
    OBVIOUS
  <2>5. PICK roadmap : roadmap = Roadmap(p)
    OBVIOUS
  <2>6. /\ ToSet(route) \subseteq taughtOn => roadmap = <<>>
        /\ \A i : FirstIn(route, AtomsOf(Merged) \ taughtOn, i) =>
              roadmap # <<>> /\ Head(roadmap) = route[i]
    <3>1. PICK m : m = Merged /\ WellFormed(m)
      BY <1>1, MergedOK
    <3>2. PICK strategy : strategy = paths[p].strategy
      OBVIOUS
    <3>3. PICK targets, sub \in Seq(AtomsOf(m)) : targets = Targets(p).atoms /\ sub = Subpath(p).atoms
      BY <1>1, <2>2, <3>1, RouteOK DEF Routed
    <3>4. route \in Seq(AtomsOf(m)) /\ route = Route(m, strategy, targets, sub)
      BY <2>3, <3>1, <3>2, <3>3 DEF RouteOf
    <3>5. roadmap = Upcoming(m, taughtOn, strategy, targets, sub)
      BY <2>4, <2>5, <3>1, <3>2, <3>3 DEF Roadmap
    <3>6. Heralds(m, taughtOn, route, roadmap)
      BY <3>1, <3>3, <3>4, <3>5, UpcomingStarts
    <3>7. QED BY <3>1, <3>6 DEF Heralds
  <2>7. \/ x = Done /\ \A a \in ToSet(RouteOf(p)) : Complete(p, a) /\ a \in Taught(p)
        \/ \E i : Reached(p, x, i)
    <3>1. StepOn(p, x)
      BY <1>1, <2>1, <2>2, ActionsAre
    <3>2. QED BY <1>1, <2>2, <3>1, StepReaches
  <2>8. CASE x = Done
    <3>1. ToSet(route) \subseteq taughtOn
      BY <2>3, <2>4, <2>7, <2>8 DEF Reached
    <3>2. QED BY <2>5, <2>6, <2>8, <3>1
  <2>9. CASE x # Done
    <3>1. SUFFICES ASSUME x.atom \notin Taught(p)
                   PROVE  roadmap # <<>> /\ Head(roadmap) = x.atom
      BY <2>5, <2>9
    <3>2. PICK i : Reached(p, x, i)
      BY <2>7, <2>9
    <3>3. /\ i \in DOMAIN route /\ x.atom = route[i] /\ x.atom \in AtomsOf(Merged)
          /\ \A j \in DOMAIN route : j < i => route[j] \in taughtOn
      BY <2>3, <2>4, <3>2 DEF Reached
    <3>4. FirstIn(route, AtomsOf(Merged) \ taughtOn, i)
      BY <2>4, <3>1, <3>3 DEF FirstIn
    <3>5. QED BY <2>5, <2>6, <3>3, <3>4
  <2>10. QED BY <2>8, <2>9
<1>2. QED BY <1>1, TutorTypes, PTL

(* A detour is seen through: `next` leaves the stored subpath neither for  *)
(* its targets nor for `done` while one of its atoms is not complete, and  *)
(* does not clear it.                                                      *)
THEOREM DetourSeenThrough == Spec => []DetourFirst
<1>1. ASSUME TypeOK PROVE DetourFirst
  <2>1. SUFFICES ASSUME NEW p \in Path, Resolves(p), paths[p].strategy = "top_down",
                        {a \in ToSet(Subpath(p).atoms) : ~Complete(p, a)} # {}
                 PROVE  /\ ~Drained(p)
                        /\ \A x \in Actions(p, "new") :
                              x # Done /\ x.atom \in ToSet(Subpath(p).atoms)
    BY DEF DetourFirst
  <2>2. Exists(p)
    BY <2>1 DEF Resolves
  <2>3. PICK sub \in Seq(AtomsOf(Merged)) : sub = Subpath(p).atoms
    BY <1>1, <2>2, RouteOK DEF Routed
  <2>4. PICK targets \in Seq(AtomsOf(Merged)) : targets = Targets(p).atoms
    BY <1>1, <2>2, RouteOK DEF Routed
  <2>5. PICK route : route = RouteOf(p) /\ route = sub \o targets
    BY <1>1, <2>1, <2>2, <2>3, <2>4, RouteOK DEF Routed
  <2>6. /\ Len(route) = Len(sub) + Len(targets) /\ Len(sub) \in Nat /\ Len(targets) \in Nat
        /\ route \in Seq(AtomsOf(Merged))
        /\ ToSet(route) = ToSet(sub) \cup ToSet(targets)
        /\ \A i \in DOMAIN sub : route[i] = sub[i]
        /\ DOMAIN sub = 1 .. Len(sub) /\ DOMAIN route = 1 .. Len(route)
    BY <2>5, Joined
  <2>7. PICK k \in DOMAIN sub : ~Complete(p, sub[k])
    BY <2>1, <2>3 DEF ToSet
  <2>8. ~Drained(p)
    BY <2>1, <2>3, <2>7 DEF Drained
  <2>9. ASSUME NEW x \in Actions(p, "new")
        PROVE  x # Done /\ x.atom \in ToSet(sub)
    <3>1. \/ x = Done /\ \A a \in ToSet(RouteOf(p)) : Complete(p, a) /\ a \in Taught(p)
          \/ \E i : Reached(p, x, i)
      <4>1. StepOn(p, x)
        BY <1>1, <2>2, <2>9, ActionsAre
      <4>2. QED BY <1>1, <2>2, <4>1, StepReaches
    <3>2. sub[k] \in ToSet(route)
      BY <2>6, <2>7 DEF ToSet
    <3>3. PICK i : Reached(p, x, i)
      BY <2>5, <2>7, <3>1, <3>2
    <3>4. /\ i \in DOMAIN route /\ x # Done /\ x.atom = route[i]
          /\ \A j \in DOMAIN route : j < i => Complete(p, route[j])
      BY <2>5, <3>3 DEF Reached
    <3>5. ~(k < i)
      <4>1. k \in DOMAIN route /\ route[k] = sub[k]
        BY <2>6, <2>7
      <4>2. QED BY <2>7, <3>4, <4>1
    <3>6. i \in DOMAIN sub
      BY <2>6, <2>7, <3>4, <3>5
    <3>7. x.atom = sub[i]
      BY <2>6, <3>4, <3>6
    <3>8. QED BY <3>4, <3>6, <3>7 DEF ToSet
  <2>10. QED BY <2>3, <2>8, <2>9
<1>2. QED BY <1>1, TutorTypes, PTL

(* `done` and `path state` agree, although `next` walks the graph in       *)
(* post-order and the report goes by `reachable_atoms`.                    *)
THEOREM DoneAndStateAgree == Spec => []DoneMeansLearned
<1>1. ASSUME TypeOK PROVE DoneMeansLearned
  <2>1. SUFFICES ASSUME NEW p \in Path, Resolves(p), NEW s, s = Summary(p)
                 PROVE  /\ paths[p].strategy = "bottom_up" =>
                             (Done \in Actions(p, "new") <=>
                                 s.taught = s.reachable /\ s.finished = s.reachable)
                        /\ Done \in Actions(p, "new") =>
                             /\ s.total > 0 => s.percent = 100
                             /\ ToSet(Targets(p).atoms) \subseteq Taught(p)
    BY DEF DoneMeansLearned
  <2>2. Exists(p)
    BY <2>1 DEF Resolves
  <2>3. PICK m : m = Merged /\ WellFormed(m)
    BY <1>1, MergedOK
  <2>4. Routed(p) /\ paths[p].strategy \in Strategy
    BY <1>1, <2>2, RouteOK
  <2>5. PICK targets \in Seq(AtomsOf(m)) : targets = Targets(p).atoms /\ Distinct(targets)
    BY <2>3, <2>4 DEF Routed
  <2>6. PICK route \in Seq(AtomsOf(m)) : route = RouteOf(p)
    BY <2>3, <2>4 DEF Routed
  <2>7. PICK taughtOn, correctOn : taughtOn = Taught(p) /\ correctOn = Correct(p)
    OBVIOUS
  <2>8. \A a : Complete(p, a) <=> AtomComplete(m, correctOn, a)
    BY <2>3, <2>7 DEF Complete
  <2>9. PICK all : all = ReachableAtoms(m, ToSet(targets))
    OBVIOUS
  <2>10. /\ (s.taught = s.reachable /\ s.finished = s.reachable)
              <=> \A a \in all : a \in taughtOn /\ AtomComplete(m, correctOn, a)
         /\ (\A a \in ToSet(targets) : AtomComplete(m, correctOn, a)) /\ s.total > 0
              => s.percent = 100
         /\ ToSet(targets) \subseteq all
    <3>1. s = Counters(m, taughtOn, correctOn, targets)
      BY <2>1, <2>3, <2>5, <2>7 DEF Summary
    <3>2. QED BY <2>3, <2>5, <2>9, <3>1, CountersFull
  <2>11. Done \in Actions(p, "new")
           <=> \A a \in ToSet(route) : a \in taughtOn /\ AtomComplete(m, correctOn, a)
    <3>1. ASSUME Done \in Actions(p, "new")
          PROVE  \A a \in ToSet(route) : a \in taughtOn /\ AtomComplete(m, correctOn, a)
      <4>1. StepOn(p, Done)
        BY <1>1, <2>2, <3>1, ActionsAre
      <4>2. \/ \A a \in ToSet(RouteOf(p)) : Complete(p, a) /\ a \in Taught(p)
            \/ \E i : Reached(p, Done, i)
        BY <1>1, <2>2, <4>1, StepReaches
      <4>3. QED BY <2>6, <2>7, <2>8, <4>2 DEF Reached
    <3>2. ASSUME \A a \in ToSet(route) : a \in taughtOn /\ AtomComplete(m, correctOn, a)
          PROVE  Done \in Actions(p, "new")
      <4>1. Finished(p)
        BY <2>2, <2>6, <2>7, <2>8, <3>2 DEF Finished
      <4>2. QED BY <1>1, <4>1, NothingOpen
    <3>3. QED BY <3>1, <3>2
  <2>12. paths[p].strategy = "bottom_up" => ToSet(route) = all
    BY <2>3, <2>4, <2>5, <2>6, <2>9 DEF Routed
  <2>13. ToSet(targets) \subseteq ToSet(route)
    <3>1. CASE paths[p].strategy = "bottom_up"
      BY <2>10, <2>12, <3>1
    <3>2. CASE paths[p].strategy = "top_down"
      <4>1. PICK sub \in Seq(AtomsOf(m)) : sub = Subpath(p).atoms
        BY <2>3, <2>4 DEF Routed
      <4>2. route = sub \o targets
        BY <2>4, <2>5, <2>6, <3>2, <4>1 DEF Routed
      <4>3. ToSet(sub \o targets) = ToSet(sub) \cup ToSet(targets)
        BY Joined
      <4>4. QED BY <4>2, <4>3
    <3>3. QED BY <2>4, <3>1, <3>2 DEF Strategy
  <2>14. QED BY <2>5, <2>7, <2>10, <2>11, <2>12, <2>13
<1>2. QED BY <1>1, TutorTypes, PTL

(* Bottom-up, everything an atom rests on is taught and complete before    *)
(* the atom is touched, if no release links a concept back to itself.      *)
THEOREM FoundationsBefore ==
    ASSUME \A r \in DOMAIN Releases : Acyclic(Releases[r])
    PROVE  Spec => []FoundationsFirst
<1>1. ASSUME TypeOK PROVE FoundationsFirst
  <2>1. SUFFICES ASSUME NEW p \in Path, Resolves(p), paths[p].strategy = "bottom_up",
                        NEW x \in Actions(p, "new") \ {Done},
                        NEW a \in ReachableAtoms(Merged, ToSet(Merged.prereqs[x.atom])),
                        a # x.atom
                 PROVE  Complete(p, a) /\ a \in Taught(p)
    BY DEF FoundationsFirst
  <2>2. Exists(p)
    BY <2>1 DEF Resolves
  <2>3. PICK m : m = Merged /\ WellFormed(m) /\ Acyclic(m)
    <3>1. PICK g : g = Releases[release] /\ Acyclic(g)
      BY <1>1 DEF TypeOK
    <3>2. PICK m : m = Merged
      OBVIOUS
    <3>3. WellFormed(m) /\ m.ids = g.ids /\ m.prereqs = g.prereqs /\ m.children = g.children
      BY <1>1, <3>1, <3>2, MergedOK
    <3>4. Acyclic(m)
      BY <3>1, <3>3, SameReach
    <3>5. QED BY <3>2, <3>3, <3>4
  <2>4. PICK targets \in Seq(AtomsOf(m)) : targets = Targets(p).atoms
    BY <1>1, <2>2, <2>3, RouteOK DEF Routed
  <2>5. PICK route \in Seq(AtomsOf(m)) : route = RouteOf(p) /\ route = PostOrder(m, targets)
    BY <1>1, <2>1, <2>2, <2>3, <2>4, RouteOK DEF Routed
  <2>6. PICK i : Reached(p, x, i)
    <3>1. StepOn(p, x)
      BY <1>1, <2>1, <2>2, ActionsAre
    <3>2. QED BY <1>1, <2>1, <2>2, <3>1, StepReaches
  <2>7. PICK atom : atom = x.atom
    OBVIOUS
  <2>8. /\ i \in DOMAIN route /\ atom = route[i] /\ atom \in AtomsOf(m)
        /\ \A j \in DOMAIN route : j < i => Complete(p, route[j]) /\ route[j] \in Taught(p)
    BY <2>3, <2>5, <2>6, <2>7 DEF Reached
  <2>9. PICK roots \in SUBSET Id : roots = ToSet(m.prereqs[atom]) /\ roots \subseteq Below(m, atom)
    <3>1. atom \in m.ids /\ m.prereqs[atom] \in Seq(Id) /\ m.children[atom] \in Seq(Id)
      BY <2>3, <2>8 DEF AtomsOf, WellFormed
    <3>2. PICK s \in Seq(Id), t \in Seq(Id) : s = m.prereqs[atom] /\ t = m.children[atom]
      BY <3>1
    <3>3. ToSet(s) \subseteq ToSet(s \o t) /\ ToSet(s) \in SUBSET Id
      BY Joined, InList
    <3>4. QED BY <3>1, <3>2, <3>3 DEF Below
  <2>10. a \in Reach(m, roots) \cap AtomsOf(m)
    BY <2>1, <2>3, <2>7, <2>9, ReachableIs
  <2>11. a \in Reach(m, Below(m, atom)) \cap AtomsOf(m)
    BY <2>9, <2>10, ReachMore
  <2>12. InOrder(m, route, {})
    <3>1. targets \in Seq(Id)
      <4>1. AtomsOf(m) \subseteq Id
        BY <2>3 DEF AtomsOf, WellFormed
      <4>2. QED BY <4>1
    <3>2. QED BY <2>3, <2>5, <3>1, WalkInOrder
  <2>13. PICK j \in 1 .. i - 1 : route[j] = a
    BY <2>8, <2>11, <2>12 DEF InOrder
  <2>14. j \in DOMAIN route /\ j < i
    BY <2>8, <2>13
  <2>15. QED BY <2>8, <2>13, <2>14
<1>2. QED BY <1>1, TutorTypes, PTL

-----------------------------------------------------------------------------
(* The tree. *)

(* In every release ids follow the nesting below a concept with a parent,  *)
(* which `graph check` sees to (CleanIsUsable); none drops a lesson.       *)
IdsSpelled == \A r \in DOMAIN Releases : IdsNest(Releases[r])
LessonsStay == \A r, s \in DOMAIN Releases : r < s => Releases[r].lesson \subseteq Releases[s].lesson

(* What was taught on a path has a lesson, shipped or of the user.         *)
LessonsKnown ==
    \A p \in Path, a \in Id : <<p, a>> \in taught => a \in Releases[release].lesson \cup lessons

LEMMA LessonsHold == LessonsStay => (Spec => []LessonsKnown)
<1> SUFFICES ASSUME LessonsStay PROVE Spec => []LessonsKnown
  OBVIOUS
<1>1. Init => LessonsKnown
  BY DEF Init, LessonsKnown
<1>2. ASSUME TypeOK, LessonsKnown, [Next]_vars PROVE LessonsKnown'
  <2>1. ASSUME UNCHANGED <<taught, lessons, release>> PROVE LessonsKnown'
    BY <1>2, <2>1 DEF LessonsKnown
  <2>2. ASSUME NEW p \in Path, NEW a \in Id, LessonUpsert(p, a) PROVE LessonsKnown'
    BY <1>2, <2>2 DEF LessonUpsert, LessonsKnown
  <2>3. ASSUME NEW p \in Path, NEW mode \in Mode, NextStep(p, mode) PROVE LessonsKnown'
    <3>1. PICK x \in Actions(p, mode) : NextReturns(p, mode, x)
      BY <2>3 DEF NextStep
    <3>2. Exists(p)
      BY <2>3 DEF NextStep, Resolves
    <3>3. x.kind = "present_lesson" => x.atom \in Releases[release].lesson \cup lessons
      <4>1. SUFFICES ASSUME x.kind = "present_lesson"
                     PROVE  x.atom \in Releases[release].lesson \cup lessons
        OBVIOUS
      <4>2. x # Done /\ \A q : x # PresentQuiz(q)
        BY <4>1 DEF Done, PresentQuiz
      <4>3. StepOn(p, x)
        BY <1>2, <3>1, <3>2, <4>2, ActionsAre
      <4>4. PICK i : Reached(p, x, i)
        BY <1>2, <3>2, <4>2, <4>3, StepReaches
      <4>5. x.atom \in Merged.lesson
        BY <4>1, <4>4 DEF Reached
      <4>6. Merged.lesson = Releases[release].lesson \cup (lessons \cap Releases[release].ids)
        BY <1>2, MergedOK
      <4>7. QED BY <4>5, <4>6
    <3>4. taught' \subseteq taught \cup
             (IF x.kind = "present_lesson" THEN {<<p, x.atom>>} ELSE {})
          /\ lessons' = lessons /\ release' = release
      BY <3>1 DEF NextReturns
    <3>5. ASSUME NEW o \in Path, NEW a \in Id, <<o, a>> \in taught'
          PROVE  a \in Releases[release].lesson \cup lessons
      <4>1. CASE <<o, a>> \in taught
        BY <1>2, <4>1 DEF LessonsKnown
      <4>2. CASE <<o, a>> \notin taught
        <5>1. x.kind = "present_lesson" /\ <<o, a>> = <<p, x.atom>>
          BY <3>4, <3>5, <4>2
        <5>2. QED BY <3>3, <5>1
      <4>3. QED BY <4>1, <4>2
    <3>6. QED BY <3>4, <3>5 DEF LessonsKnown
  <2>4. CASE Upgrade
    <3>1. release \in Nat /\ DOMAIN Releases = 1 .. Len(Releases) /\ Len(Releases) \in Nat
      BY <1>2, TutorAssumption DEF TypeOK
    <3>2. release' \in DOMAIN Releases /\ release \in DOMAIN Releases /\ release < release'
      BY <1>2, <2>4, <3>1 DEF Upgrade, TypeOK
    <3>3. Releases[release].lesson \subseteq Releases[release'].lesson
      BY <3>2 DEF LessonsStay
    <3>4. QED BY <1>2, <2>4, <3>3 DEF Upgrade, LessonsKnown
  <2>5. CASE \E p \in Path :
                \/ \E targets \in TargetLists, strategy \in Strategy : PathNew(p, targets, strategy)
                \/ \E strategy \in Strategy : PathStrategy(p, strategy)
                \/ \E atoms \in SubpathLists : SubpathValidate(p, atoms)
                \/ SubpathClear(p)
    BY <2>1, <2>5 DEF PathNew, PathStrategy, SubpathValidate, SubpathClear
  <2>6. CASE \E p \in Path :
                \/ \E a \in Id, difficulty \in Difficulty : QuizCreate(p, a, difficulty)
                \/ \E q \in QuizId, difficulty \in Difficulty : QuizUpdate(p, q, difficulty)
                \/ \E q \in QuizId : QuizDelete(p, q)
                \/ \E q \in QuizId, rating \in Rating : QuizAnswer(p, q, rating)
    BY <2>1, <2>6 DEF QuizCreate, QuizUpdate, QuizDelete, QuizAnswer, storeVars
  <2>7. CASE SubpathStore \/ SubpathAbandon \/ Tick \/ UNCHANGED vars
    BY <2>1, <2>7 DEF SubpathStore, SubpathAbandon, Tick, vars, storeVars
  <2>8. QED BY <1>2, <2>2, <2>3, <2>4, <2>5, <2>6, <2>7 DEF Next
<1>3. QED BY <1>1, <1>2, TutorTypes, PTL DEF Spec

(* The tree is drawn by cutting ids and the path is walked by nesting, and *)
(* yet the atoms drawn are those of the path, but for those not below a    *)
(* concept of two segments; the step in the default mode is a due review   *)
(* or on an atom of the path with something missing on its badge.  Were a  *)
(* lesson taken back by a release, `next` would ask for it again while the *)
(* badge says it was taught.                                               *)
THEOREM TreeShowsPath == IdsSpelled /\ LessonsStay => (Spec => []TreeMarksNext)
<1> SUFFICES ASSUME IdsSpelled, LessonsStay PROVE Spec => []TreeMarksNext
  OBVIOUS
<1>1. ASSUME TypeOK, LessonsKnown PROVE TreeMarksNext
  <2>1. SUFFICES ASSUME NEW p \in Path, Resolves(p),
                        NEW reach, reach = ReachableAtoms(Merged, ToSet(Targets(p).atoms)),
                        NEW drawn,
                        drawn = {id \in Drawn(Merged, Targets(p).atoms) : IsAtom(Merged, id)}
                 PROVE  /\ \A a \in reach : a \in drawn <=> Placed(a)
                        /\ (\A a \in reach : Placed(a)) => drawn = reach
                        /\ paths[p].strategy = "bottom_up" =>
                              \A x \in Actions(p, "default") \ {Done} :
                                 \/ x.kind = "present_quiz" /\ x.quiz \in DueCards(p, now)
                                 \/ /\ x.atom \in reach
                                    /\ LET badge == Badge(Merged, Taught(p), Correct(p), x.atom)
                                       IN  ~badge.lesson
                                           \/ \E i \in DOMAIN badge.slots : badge.slots[i] # "correct"
    BY ZenonT(40) DEF TreeMarksNext
  <2>2. Exists(p)
    BY <2>1 DEF Resolves
  <2>3. PICK m : /\ m = Merged /\ WellFormed(m) /\ IdsNest(m)
                 /\ m.lesson = Releases[release].lesson \cup (lessons \cap m.ids)
    <3>1. PICK g : g = Releases[release] /\ IdsNest(g)
      BY <1>1 DEF TypeOK, IdsSpelled
    <3>2. PICK m : m = Merged
      OBVIOUS
    <3>3. /\ WellFormed(m) /\ m.ids = g.ids /\ m.areas = g.areas /\ m.children = g.children
          /\ m.lesson = g.lesson \cup (lessons \cap g.ids)
      BY <1>1, <3>1, <3>2, MergedOK
    <3>4. IdsNest(m)
      BY <3>1, <3>3 DEF IdsNest
    <3>5. QED BY <3>1, <3>2, <3>3, <3>4
  <2>4. PICK targets \in Seq(AtomsOf(m)) : targets = Targets(p).atoms
    BY <1>1, <2>2, <2>3, RouteOK DEF Routed
  <2>5. /\ \A a \in reach : a \in drawn <=> Placed(a)
        /\ (\A a \in reach : Placed(a)) => drawn = reach
    <3>1. targets \in Seq(Id)
      <4>1. AtomsOf(m) \subseteq Id
        BY <2>3 DEF AtomsOf, WellFormed
      <4>2. QED BY <4>1
    <3>2. /\ reach = ReachableAtoms(m, ToSet(targets))
          /\ drawn = {id \in Drawn(m, targets) : IsAtom(m, id)}
      BY <2>1, <2>3, <2>4
    <3>3. /\ \A a \in reach : a \in drawn <=> Rooted(m, a)
          /\ (\A a \in reach : Rooted(m, a)) => drawn = reach
      BY <2>3, <3>1, <3>2, AtomsDrawn
    <3>4. \A a : Placed(a) <=> Rooted(m, a)
      BY <2>3 DEF Placed, Rooted
    <3>5. QED BY <3>3, <3>4, Zenon
  <2>6. ASSUME paths[p].strategy = "bottom_up",
               NEW x \in Actions(p, "default") \ {Done}, NEW badge,
               badge = Badge(Merged, Taught(p), Correct(p), x.atom),
               ~(x.kind = "present_quiz" /\ x.quiz \in DueCards(p, now))
        PROVE  /\ x.atom \in reach
               /\ ~badge.lesson \/ \E i \in DOMAIN badge.slots : badge.slots[i] # "correct"
    <3>1. PICK i : Reached(p, x, i)
      <4>1. \/ \E q \in DueCards(p, now) : Live(Merged, q) /\ x = PresentQuiz(q)
            \/ StepOn(p, x)
        BY <1>1, <2>2, <2>6, ActionsAre DEF Mode
      <4>2. StepOn(p, x)
        BY <2>6, <4>1 DEF PresentQuiz
      <4>3. QED BY <1>1, <2>2, <2>6, <4>2, StepReaches
    <3>2. PICK a, taughtOn, correctOn :
                a = x.atom /\ taughtOn = Taught(p) /\ correctOn = Correct(p)
      OBVIOUS
    <3>3. /\ a \in reach /\ a \in AtomsOf(m)
          /\ ~(AtomComplete(m, correctOn, a) /\ a \in taughtOn)
      <4>1. /\ i \in DOMAIN RouteOf(p) /\ a = RouteOf(p)[i] /\ a \in AtomsOf(m)
            /\ ~(Complete(p, a) /\ a \in taughtOn)
        BY <2>3, <3>1, <3>2 DEF Reached
      <4>2. a \in ToSet(RouteOf(p))
        BY <4>1 DEF ToSet
      <4>3. ToSet(RouteOf(p)) = ReachableAtoms(m, ToSet(targets))
        BY <1>1, <2>2, <2>3, <2>4, <2>6, RouteOK DEF Routed
      <4>4. a \in reach
        BY <2>1, <2>3, <2>4, <4>2, <4>3
      <4>5. QED BY <2>3, <3>2, <4>1, <4>4 DEF Complete
    <3>4. ASSUME a \in taughtOn PROVE \E j \in DOMAIN badge.slots : badge.slots[j] # "correct"
      <4>1. a \in Id /\ <<p, a>> \in taught /\ a \in m.ids
        BY <3>2, <3>3, <3>4 DEF Taught, AtomsOf
      <4>2. a \in m.lesson
        BY <1>1, <2>3, <4>1 DEF LessonsKnown
      <4>3. PICK j \in DOMAIN Difficulties : SlotOf(m, a, Difficulties[j]) \notin correctOn
        BY <3>3, <3>4, <4>1, <4>2 DEF AtomComplete, OpenSlots
      <4>4. badge = Badge(m, taughtOn, correctOn, a)
        BY <2>3, <2>6, <3>2
      <4>5. DOMAIN badge.slots = DOMAIN Difficulties
            /\ badge.slots[j] \in {"none", "open"}
        BY <4>3, <4>4 DEF Badge
      <4>6. QED BY <4>3, <4>5
    <3>5. badge.lesson <=> a \in taughtOn
      BY <2>6, <3>2 DEF Badge
    <3>6. QED BY <3>2, <3>3, <3>4, <3>5
  <2>7. QED BY <2>5, <2>6
<1>2. QED BY <1>1, TutorTypes, LessonsHold, PTL

-----------------------------------------------------------------------------
(* Quizzes and cards. *)

(* What one command may do to the quizzes and the cards.  A tombstone goes *)
(* only with an edit of its quiz, which needs a live quiz: never.          *)
QuizStep ==
    /\ release' = release
    /\ lessons \subseteq lessons' /\ correct \subseteq correct' /\ removed \subseteq removed'
    /\ \A q \in removed' \ removed : Live(Merged, q)
    /\ \A q \in QuizId :
          /\ overlay[q] # NoQuiz => overlay'[q] # NoQuiz
          /\ overlay'[q] # overlay[q] =>
                \/ Live(Merged, q)
                \/ IsAtom(Merged, AtomOf(q)) /\ q[2] = NextQuizNumber(AtomOf(q))
    /\ \A p \in Path, q \in QuizId : due'[<<p, q>>] # due[<<p, q>>] => Live(Merged, q)

UpgradeStep ==
    /\ release' = release + 1 /\ release' \in DOMAIN Releases
    /\ UNCHANGED <<lessons, correct, removed, overlay, due>>

LEMMA QuizSteps ==
    ASSUME TypeOK, [Next]_vars
    PROVE  QuizStep \/ UpgradeStep
<1>1. ASSUME NEW p \in Path, NEW a \in Id, LessonUpsert(p, a)
      PROVE  QuizStep
  BY <1>1 DEF LessonUpsert, QuizStep, reviewVars
<1>2. ASSUME NEW p \in Path, NEW a \in Id, NEW difficulty \in Difficulty,
             QuizCreate(p, a, difficulty)
      PROVE  QuizStep
  <2>1. PICK fresh : fresh = <<a, NextQuizNumber(a)>>
    OBVIOUS
  <2>2. fresh[1] = a /\ fresh[2] = NextQuizNumber(a) /\ AtomOf(fresh) = a
    BY <2>1 DEF AtomOf
  <2>3. /\ IsAtom(Merged, a)
        /\ overlay[fresh] = NoQuiz /\ overlay' = [overlay EXCEPT ![fresh] = difficulty]
        /\ UNCHANGED <<lessons, removed, release, due, correct>>
    BY <1>2, <2>1 DEF QuizCreate, reviewVars
  <2>4. overlay \in [QuizId -> Difficulty \cup {NoQuiz}]
    BY DEF TypeOK
  <2>5. \A q \in QuizId : overlay'[q] # overlay[q] => q = fresh
    BY <2>3, <2>4
  <2>6. \A q \in QuizId : overlay[q] # NoQuiz => overlay'[q] # NoQuiz
    BY <2>3, <2>4
  <2>7. QED BY <2>2, <2>3, <2>5, <2>6 DEF QuizStep
<1>3. ASSUME NEW p \in Path, NEW q \in QuizId, NEW difficulty \in Difficulty,
             QuizUpdate(p, q, difficulty)
      PROVE  QuizStep
  <2>1. q \notin removed
    BY <1>3, LiveMeans DEF QuizUpdate
  <2>2. overlay \in [QuizId -> Difficulty \cup {NoQuiz}] /\ difficulty # NoQuiz
    BY CurriculumAssumption DEF TypeOK
  <2>3. overlay' = [overlay EXCEPT ![q] = difficulty] /\ Live(Merged, q)
    BY <1>3 DEF QuizUpdate
  <2>4. \A r \in QuizId : /\ overlay[r] # NoQuiz => overlay'[r] # NoQuiz
                          /\ overlay'[r] # overlay[r] => Live(Merged, r)
    BY <2>2, <2>3
  <2>5. removed' = removed /\ UNCHANGED <<lessons, release, due, correct>>
    BY <1>3, <2>1 DEF QuizUpdate, reviewVars
  <2>6. QED BY <2>4, <2>5 DEF QuizStep
<1>4. ASSUME NEW p \in Path, NEW q \in QuizId, QuizDelete(p, q)
      PROVE  QuizStep
  BY <1>4 DEF QuizDelete, QuizStep, reviewVars
<1>5. ASSUME NEW p \in Path, NEW q \in QuizId, NEW rating \in Rating, QuizAnswer(p, q, rating)
      PROVE  QuizStep
  <2>1. UNCHANGED <<lessons, overlay, removed, release>> /\ Live(Merged, q)
    BY <1>5 DEF QuizAnswer, storeVars
  <2>2. correct \subseteq correct'
    BY <1>5 DEF QuizAnswer, Answer
  <2>3. due \in [Path \X Quiz -> Nat \cup {NoDue}] /\ Quiz = QuizId
    BY TutorAssumption DEF TypeOK, ReviewTypeOK
  <2>4. PICK d : due' = [due EXCEPT ![<<p, q>>] = d]
    BY <1>5 DEF QuizAnswer, Answer
  <2>5. \A o \in Path, r \in QuizId : due'[<<o, r>>] # due[<<o, r>>] => r = q
    BY <2>3, <2>4
  <2>6. QED BY <2>1, <2>2, <2>5 DEF QuizStep
<1>6. CASE Upgrade
  <2>1. release \in Nat /\ DOMAIN Releases = 1 .. Len(Releases) /\ Len(Releases) \in Nat
    BY TutorAssumption DEF TypeOK
  <2>2. release + 1 \in DOMAIN Releases
    BY <1>6, <2>1 DEF Upgrade, TypeOK
  <2>3. QED BY <1>6, <2>2 DEF Upgrade, UpgradeStep, reviewVars
<1>7. ASSUME UNCHANGED <<lessons, overlay, removed, release, due, correct>>
      PROVE  QuizStep
  BY <1>7 DEF QuizStep
<1>8. CASE \E p \in Path :
              \/ \E targets \in TargetLists, strategy \in Strategy : PathNew(p, targets, strategy)
              \/ \E strategy \in Strategy : PathStrategy(p, strategy)
              \/ \E atoms \in SubpathLists : SubpathValidate(p, atoms)
              \/ SubpathClear(p)
              \/ \E mode \in Mode : NextStep(p, mode)
  BY <1>7, <1>8 DEF PathNew, PathStrategy, SubpathValidate, SubpathClear, NextStep, NextReturns, reviewVars
<1>9. CASE SubpathStore \/ SubpathAbandon \/ Tick \/ UNCHANGED vars
  BY <1>7, <1>9 DEF SubpathStore, SubpathAbandon, Tick, Clock, vars, storeVars, reviewVars
<1>10. QED
  BY <1>1, <1>2, <1>3, <1>4, <1>5, <1>6, <1>8, <1>9 DEF Next

(* No release drops a concept, which the project promises its users. *)
IdsStay == \A r, s \in DOMAIN Releases : r < s => Releases[r].ids \subseteq Releases[s].ids

(* Authored quizzes and cards are of concepts the installed graph has.     *)
AtomsKnown ==
    /\ \A q \in QuizId : overlay[q] # NoQuiz => AtomOf(q) \in Releases[release].ids
    /\ \A p \in Path, q \in QuizId : due[<<p, q>>] # NoDue => AtomOf(q) \in Releases[release].ids

LEMMA KnownStay == IdsStay => (Spec => []AtomsKnown)
<1> SUFFICES ASSUME IdsStay PROVE Spec => []AtomsKnown
  OBVIOUS
<1>1. Init => AtomsKnown
  BY TutorAssumption DEF Init, ReviewInit, AtomsKnown
<1>2. ASSUME TypeOK, AtomsKnown, [Next]_vars PROVE AtomsKnown'
  <2>1. \A q \in QuizId : Live(Merged, q) => AtomOf(q) \in Releases[release].ids
    BY <1>2, LiveMeans
  <2>2. \A a : IsAtom(Merged, a) => a \in Releases[release].ids
    BY <1>2, MergedOK DEF IsAtom
  <2>3. CASE QuizStep
    BY <1>2, <2>1, <2>2, <2>3 DEF QuizStep, AtomsKnown
  <2>4. CASE UpgradeStep
    <3>1. release \in DOMAIN Releases /\ release \in Nat
      BY <1>2, TutorAssumption DEF TypeOK
    <3>2. Releases[release].ids \subseteq Releases[release'].ids
      BY <2>4, <3>1 DEF UpgradeStep, IdsStay
    <3>3. QED BY <1>2, <2>4, <3>2 DEF UpgradeStep, AtomsKnown
  <2>5. QED BY <1>2, <2>3, <2>4, QuizSteps
<1>3. QED BY <1>1, <1>2, TutorTypes, PTL DEF Spec

(* While a quiz that exists is due, `next` presents one of those due       *)
(* first, if no release drops a concept; v_due_pruned shows what happens   *)
(* after one that does.                                                    *)
THEOREM ServesWhatIsDue == IdsStay => (Spec => []DueIsServed)
<1> SUFFICES ASSUME IdsStay PROVE Spec => []DueIsServed
  OBVIOUS
<1>1. ASSUME TypeOK, AtomsKnown PROVE DueIsServed
  <2>1. SUFFICES ASSUME NEW p \in Path, Resolves(p),
                        NEW waiting, waiting = {q \in DueCards(p, now) : Live(Merged, q)},
                        waiting # {}, NEW x \in Actions(p, "default")
                 PROVE  /\ x.kind = "present_quiz" /\ x.quiz \in waiting
                        /\ \A q \in waiting : due[<<p, x.quiz>>] <= due[<<p, q>>]
    BY DEF DueIsServed
  <2>2. PICK m : m = Merged /\ m.ids = Releases[release].ids
    BY <1>1, MergedOK
  <2>3. PICK dues : dues = [q \in QuizId |-> due[<<p, q>>]]
    OBVIOUS
  <2>4. PICK cards \in SUBSET QuizId : cards = DueCards(p, now)
    BY TutorAssumption DEF DueCards
  <2>5. \A q \in cards : AtomOf(q) \in m.ids
    BY <1>1, <2>2, <2>4 DEF DueCards, AtomsKnown
  <2>6. NoQuiz \notin cards
    BY <2>4, CurriculumAssumption
  <2>7. \E q \in cards : Live(m, q)
    BY <2>1, <2>2, <2>4
  <2>8. PICK taughtOn, correctOn, route :
             taughtOn = Taught(p) /\ correctOn = Correct(p) /\ route = RouteOf(p)
    OBVIOUS
  <2>9. x \in NextActions(m, taughtOn, correctOn, route, cards, dues, "default")
    BY <2>1, <2>2, <2>3, <2>4, <2>8 DEF Actions
  <2>10. PICK q \in cards : /\ Live(m, q) /\ x = PresentQuiz(q)
                            /\ \A r \in cards : Live(m, r) => dues[q] <= dues[r]
    BY <2>5, <2>6, <2>7, <2>9, DueFirst
  <2>11. x.kind = "present_quiz" /\ x.quiz = q
    BY <2>10 DEF PresentQuiz
  <2>12. q \in waiting
    BY <2>1, <2>2, <2>4, <2>10
  <2>13. \A r \in waiting : due[<<p, q>>] <= due[<<p, r>>]
    BY <2>1, <2>2, <2>3, <2>4, <2>10
  <2>14. QED BY <2>11, <2>12, <2>13
<1>2. QED BY <1>1, TutorTypes, KnownStay, PTL

(* No release withdraws a quiz. *)
QuizzesStay ==
    \A r, s \in DOMAIN Releases : r < s =>
        \A id \in Releases[r].ids : QuizIdsOf(Releases[r], id) \subseteq QuizIdsOf(Releases[s], id)

(* A card is of a quiz that was shipped, authored or deleted.              *)
HistoryKnown ==
    \A p \in Path, q \in QuizId : due[<<p, q>>] # NoDue =>
        q \in QuizIdsOf(Releases[release], AtomOf(q)) \cup removed \/ overlay[q] # NoQuiz

LEMMA HistoryStays == IdsStay /\ QuizzesStay => (Spec => []HistoryKnown)
<1> SUFFICES ASSUME IdsStay, QuizzesStay PROVE Spec => []HistoryKnown
  OBVIOUS
<1>1. Init => HistoryKnown
  BY TutorAssumption DEF Init, ReviewInit, HistoryKnown
<1>2. ASSUME TypeOK, AtomsKnown, HistoryKnown, [Next]_vars PROVE HistoryKnown'
  <2>1. \A q \in QuizId : Live(Merged, q) =>
           q \in QuizIdsOf(Releases[release], AtomOf(q)) \/ overlay[q] # NoQuiz
    BY <1>2, LiveMeans
  <2>2. CASE QuizStep
    <3>1. SUFFICES ASSUME NEW p \in Path, NEW q \in QuizId, due'[<<p, q>>] # NoDue
                   PROVE  \/ q \in QuizIdsOf(Releases[release], AtomOf(q)) \cup removed'
                          \/ overlay'[q] # NoQuiz
      BY <2>2 DEF QuizStep, HistoryKnown
    <3>2. \/ q \in QuizIdsOf(Releases[release], AtomOf(q)) \cup removed
          \/ overlay[q] # NoQuiz
      <4>1. CASE due'[<<p, q>>] = due[<<p, q>>]
        BY <1>2, <3>1, <4>1 DEF HistoryKnown
      <4>2. CASE due'[<<p, q>>] # due[<<p, q>>]
        BY <2>1, <2>2, <4>2 DEF QuizStep
      <4>3. QED BY <4>1, <4>2
    <3>3. QED BY <2>2, <3>2 DEF QuizStep
  <2>3. CASE UpgradeStep
    <3>1. release \in DOMAIN Releases /\ release \in Nat
      BY <1>2, TutorAssumption DEF TypeOK
    <3>2. \A id \in Releases[release].ids :
             QuizIdsOf(Releases[release], id) \subseteq QuizIdsOf(Releases[release'], id)
      BY <2>3, <3>1 DEF UpgradeStep, QuizzesStay
    <3>3. UNCHANGED <<removed, overlay, due>>
      BY <2>3 DEF UpgradeStep
    <3>4. SUFFICES ASSUME NEW p \in Path, NEW q \in QuizId, due[<<p, q>>] # NoDue
                   PROVE  \/ q \in QuizIdsOf(Releases[release'], AtomOf(q)) \cup removed
                          \/ overlay[q] # NoQuiz
      BY <3>3 DEF HistoryKnown
    <3>5. AtomOf(q) \in Releases[release].ids
      BY <1>2, <3>4 DEF AtomsKnown
    <3>6. QED BY <1>2, <3>2, <3>4, <3>5 DEF HistoryKnown
  <2>4. QED BY <1>2, <2>2, <2>3, QuizSteps
<1>3. QED BY <1>1, <1>2, TutorTypes, KnownStay, PTL DEF Spec

(* The number after the last comes after all numbers in use. *)
LEMMA NumbersGrow ==
    ASSUME TypeOK, NEW a \in Merged.ids
    PROVE  /\ NextQuizNumber(a) \in Nat \ {0}
           /\ \A q \in QuizIdsOf(Merged, a) :
                 q \in QuizId /\ AtomOf(q) = a /\ q[2] < NextQuizNumber(a)
           /\ \A q \in removed : AtomOf(q) = a => q[2] < NextQuizNumber(a)
<1>1. PICK used : used = {r \in QuizIdsOf(Merged, a) \cup removed : AtomOf(r) = a}
  OBVIOUS
<1>2. QuizIdsOf(Merged, a) \subseteq QuizId /\ \A q \in QuizIdsOf(Merged, a) : AtomOf(q) = a
  <2>1. PICK m : m = Merged /\ WellFormed(m)
    BY MergedOK
  <2>2. PICK s \in Seq(QuizzesOf(a)) : s = m.quizzes[a]
    BY <2>1 DEF WellFormed, QuizzesOf
  <2>3. a \in Id
    BY <2>1 DEF WellFormed
  <2>4. \A e \in QuizzesOf(a) : e.id \in QuizId /\ AtomOf(e.id) = a
    BY <2>3 DEF QuizzesOf, QuizId, AtomOf
  <2>5. ToSet(s) \subseteq QuizzesOf(a)
    BY InList
  <2>6. QED BY <2>1, <2>2, <2>4, <2>5 DEF QuizIdsOf
<1>3. used \in SUBSET QuizId
  BY <1>1, <1>2 DEF TypeOK
<1>4. PICK numbers : numbers = {0} \cup {q[2] : q \in used}
  OBVIOUS
<1>5. MaxQuiz \in Nat
  BY CurriculumAssumption
<1>6. \A q \in used : q[2] \in 1 .. MaxQuiz
  BY <1>3 DEF QuizId
<1>7. numbers \in SUBSET (0 .. MaxQuiz) /\ numbers # {}
  BY <1>4, <1>5, <1>6
<1>8. PICK last : last = Max(numbers)
  OBVIOUS
<1>9. last \in 0 .. MaxQuiz /\ \A n \in numbers : n <= last
  BY <1>5, <1>7, <1>8, MaxIs
<1>10. NextQuizNumber(a) = last + 1
  BY <1>1, <1>4, <1>8 DEF NextQuizNumber
<1>11. \A q \in used : q[2] < last + 1
  BY <1>4, <1>5, <1>6, <1>9
<1>12. NextQuizNumber(a) \in Nat \ {0}
  BY <1>5, <1>9, <1>10
<1>13. QED BY <1>1, <1>2, <1>10, <1>11, <1>12

(* The id of the next quiz belongs to no quiz, live, stored or deleted. *)
LEMMA NumberFree ==
    ASSUME TypeOK, NEW a \in Merged.ids, NextQuizNumber(a) <= MaxQuiz,
           NEW fresh, fresh = <<a, NextQuizNumber(a)>>
    PROVE  /\ fresh \in QuizId /\ AtomOf(fresh) = a
           /\ fresh \notin removed /\ overlay[fresh] = NoQuiz
           /\ fresh \notin QuizIdsOf(Releases[release], a)
<1>1. a \in Releases[release].ids /\ a \in Id
  BY MergedOK DEF WellFormed
<1>2. PICK n \in Nat \ {0} : n = NextQuizNumber(a)
  BY NumbersGrow
<1>3. fresh \in QuizId /\ fresh[2] = n /\ AtomOf(fresh) = a /\ ~(n < n)
  BY <1>1, <1>2, CurriculumAssumption DEF QuizId, AtomOf
<1>4. fresh \notin removed /\ fresh \notin QuizIdsOf(Merged, a)
  BY <1>2, <1>3, NumbersGrow
<1>5. fresh \notin QuizIdsOf(Releases[release], a) /\ overlay[fresh] = NoQuiz
  BY <1>1, <1>3, <1>4, LiveMeans
<1>6. QED BY <1>3, <1>4, <1>5

(* The id of the next quiz has no row and no card on any path, whatever    *)
(* was created, deleted and created again before, if no release withdraws  *)
(* a quiz; v_id_recycled shows what happens after one that does.           *)
THEOREM AssignsFreshIds == IdsStay /\ QuizzesStay => (Spec => []FreshIds)
<1> SUFFICES ASSUME IdsStay, QuizzesStay PROVE Spec => []FreshIds
  OBVIOUS
<1>1. ASSUME TypeOK, HistoryKnown PROVE FreshIds
  <2>1. SUFFICES ASSUME NEW a \in Id, IsAtom(Merged, a), NextQuizNumber(a) <= MaxQuiz,
                        NEW fresh, fresh = <<a, NextQuizNumber(a)>>
                 PROVE  /\ overlay[fresh] = NoQuiz
                        /\ \A p \in Path : due[<<p, fresh>>] = NoDue
    BY DEF FreshIds
  <2>2. a \in Merged.ids /\ a \in Releases[release].ids
    BY <1>1, <2>1, MergedOK DEF IsAtom
  <2>3. /\ fresh \in QuizId /\ AtomOf(fresh) = a
        /\ fresh \notin removed /\ overlay[fresh] = NoQuiz
        /\ fresh \notin QuizIdsOf(Releases[release], a)
    BY <1>1, <2>1, <2>2, NumberFree
  <2>4. \A p \in Path : due[<<p, fresh>>] = NoDue
    BY <1>1, <2>3 DEF HistoryKnown
  <2>5. QED BY <2>3, <2>4
<1>2. QED BY <1>1, TutorTypes, HistoryStays, PTL

(* A step takes back the completion of an atom only with an edit or a      *)
(* deletion of one of its quizzes, a new quiz whose id goes before theirs, *)
(* or a release.                                                           *)
LEMMA CompletionStays ==
    ASSUME TypeOK, TypeOK', [Next]_vars,
           NEW p \in Path, NEW a \in Id, Complete(p, a), ~CompleteNext(p, a)
    PROVE  release' # release \/ Reopens(a)
<1>1. SUFFICES ASSUME release' = release, ~Reopens(a),
                      \A q \in QuizIdsOf(Merged, a) : q \notin removed' /\ overlay'[q] = overlay[q]
               PROVE  FALSE
  BY Zenon DEF Reopens
<1>2. QuizStep
  <2>1. ~UpgradeStep
    BY <1>1, TutorAssumption DEF UpgradeStep, TypeOK
  <2>2. QED BY <2>1, QuizSteps
<1>3. PICK g : g = Releases[release] /\ WellFormed(g)
  BY TutorAssumption DEF TypeOK
<1>4. PICK m : m = WithOverlay(g, lessons, overlay, removed)
  OBVIOUS
<1>5. PICK m2 : m2 = WithOverlay(g, lessons', overlay', removed')
  OBVIOUS
<1>6. overlay \in Overlays /\ overlay' \in Overlays
  BY DEF TypeOK, Overlays
<1>7. m = Merged
  BY <1>3, <1>4 DEF Merged
<1>8. PICK correctOn, correctNext :
           correctOn = Correct(p) /\ correctNext = {q \in QuizId : <<p, q>> \in correct'}
  OBVIOUS
<1>9. AtomComplete(m, correctOn, a) /\ ~AtomComplete(m2, correctNext, a)
  BY <1>1, <1>3, <1>5, <1>7, <1>8 DEF Complete, CompleteNext
<1>10. m.ids = g.ids /\ m.lesson = g.lesson \cup (lessons \cap g.ids)
  BY <1>3, <1>7, MergedOK
<1>11. m2.ids = g.ids /\ m2.lesson = g.lesson \cup (lessons' \cap g.ids)
  <2>1. PICK lessons2, overlay2, removed2 :
             lessons2 = lessons' /\ overlay2 = overlay' /\ removed2 = removed'
    OBVIOUS
  <2>2. m2 = WithOverlay(g, lessons2, overlay2, removed2) /\ overlay2 \in Overlays
    BY <1>5, <1>6, <2>1
  <2>3. m2.ids = g.ids /\ m2.lesson = g.lesson \cup (lessons2 \cap g.ids)
    BY <1>3, <2>2, MergedIs, SMTT(30)
  <2>4. QED BY <2>1, <2>3
<1>12. a \in g.ids /\ a \in m2.lesson /\ OpenSlots(m, correctOn, a) = {}
  BY <1>2, <1>9, <1>10, <1>11 DEF AtomComplete, QuizStep
<1>13. Merges(g, overlay, removed, m, a)
  BY <1>3, <1>4, <1>6, <1>12, MergedLists DEF AllMerge
<1>14. Merges(g, overlay', removed', m2, a)
  BY <1>3, <1>5, <1>6, <1>12, MergedLists DEF AllMerge
<1>15. OnlyAdds(m, a, overlay, removed, overlay', removed')
  <2>1. removed \subseteq removed' /\ \A q \in QuizId : overlay[q] # NoQuiz => overlay'[q] # NoQuiz
    BY <1>2 DEF QuizStep
  <2>2. ASSUME NEW q \in QuizId, AtomOf(q) = a, overlay'[q] # overlay[q]
        PROVE  \A r \in QuizIdsOf(m, a) : r[2] < q[2]
    <3>1. Live(Merged, q) \/ q[2] = NextQuizNumber(a)
      BY <1>2, <2>2 DEF QuizStep
    <3>2. ~Live(Merged, q)
      BY <1>1, <2>2 DEF Live
    <3>3. \A r \in QuizIdsOf(Merged, a) : r[2] < NextQuizNumber(a)
      BY <1>7, <1>10, <1>12, NumbersGrow
    <3>4. QED BY <1>7, <3>1, <3>2, <3>3
  <2>3. QED BY <1>1, <1>7, <2>1, <2>2 DEF OnlyAdds
<1>16. ~Displaced(g, m, a, overlay, overlay')
  <2>1. SUFFICES ASSUME NEW q \in QuizIdsOf(m, a) \ QuizIdsOf(g, a),
                        NEW n \in q[2] + 1 .. MaxQuiz, LexBefore(n, q[2]),
                        overlay[<<a, n>>] = NoQuiz, overlay'[<<a, n>>] = overlay[q]
                 PROVE  FALSE
    BY Zenon DEF Displaced
  <2>2. q \in QuizIdsOf(Merged, a) /\ q \notin QuizIdsOf(Releases[release], a)
    BY <1>3, <1>7, <2>1
  <2>3. QED BY <1>1, <2>1, <2>2, Zenon DEF Reopens
<1>17. correctOn \subseteq correctNext
  BY <1>2, <1>8 DEF Correct, QuizStep
<1>18. ASSUME NEW i \in DOMAIN Difficulties PROVE SlotOf(m2, a, Difficulties[i]) \in correctNext
  <2>1. PICK d : d = Difficulties[i]
    OBVIOUS
  <2>2. PICK q : q = SlotOf(m, a, d)
    OBVIOUS
  <2>3. q \in correctOn
    BY <1>12, <2>1, <2>2 DEF OpenSlots
  <2>4. q # NoQuiz
    BY <1>8, <2>3, CurriculumAssumption DEF Correct
  <2>5. SlotOf(m2, a, d) = q
    BY <1>16, <1>3, <1>6, <1>12, <1>13, <1>14, <1>15, <2>2, <2>4, SlotKept
  <2>6. QED BY <1>17, <2>1, <2>3, <2>5
<1>19. QED BY <1>9, <1>11, <1>12, <1>18 DEF AtomComplete, OpenSlots

(* What is learned stays learned: an atom complete on a path is complete   *)
(* after every step but a new release, an edit or a deletion of one of its *)
(* own quizzes, and a new quiz of a difficulty it has whose id comes first *)
(* as text: with the tenth quiz of an atom, `next` may ask for it again.   *)
THEOREM LearnedStaysLearned == Spec => CompletionKept
<1>1. TypeOK /\ TypeOK' /\ [Next]_vars =>
        [\A p \in Path, a \in Id :
            Complete(p, a) /\ ~CompleteNext(p, a) => release' # release \/ Reopens(a)]_vars
  BY CompletionStays
<1>2. QED BY <1>1, TutorTypes, PTL DEF Spec, CompletionKept

-----------------------------------------------------------------------------
(* Detours. *)

(* No release drops an atom, opens it into a cluster, or takes a target    *)
(* from a target list.                                                     *)
TargetsStay ==
    \A r, s \in DOMAIN Releases : r < s =>
        /\ AtomsOf(Releases[r]) \subseteq AtomsOf(Releases[s])
        /\ \A list \in TargetLists :
              ToSet(ResolveTargets(Releases[r], Dedup(list)).atoms)
                \subseteq ToSet(ResolveTargets(Releases[s], Dedup(list)).atoms)

(* A subpath of distinct atoms of the graph that ends on a target. *)
Detour(g, targets, atoms) ==
    /\ atoms # <<>> /\ atoms \in Seq(AtomsOf(g))
    /\ Distinct(atoms)
    /\ Last(atoms) \in ToSet(ResolveTargets(g, targets).atoms)

(* The subpaths stored, and the one about to be, are detours. *)
AsGiven == \A p \in Path : Exists(p) => \E list \in TargetLists : paths[p].targets = Dedup(list)
StoredDetours ==
    \A p \in Path : subpath[p] # <<>> =>
        Exists(p) /\ Detour(Releases[release], paths[p].targets, subpath[p])
CheckedDetour ==
    setting # NoRequest =>
        Exists(setting.path) /\ Detour(Releases[release], paths[setting.path].targets, setting.atoms)
Detours == AsGiven /\ StoredDetours /\ CheckedDetour

(* What most commands do to the paths: one may get another strategy, or    *)
(* lose its subpath; the check of a subpath may be forgotten.              *)
PathStep ==
    /\ release' = release
    /\ setting' \in {setting, NoRequest}
    /\ \A p \in Path :
          /\ subpath'[p] \in {subpath[p], <<>>}
          /\ \/ paths'[p] = paths[p]
             \/ /\ paths[p] # NoPath /\ paths'[p] # NoPath
                /\ paths'[p].targets = paths[p].targets

LEMMA PathSteps ==
    ASSUME TypeOK, [Next]_vars
    PROVE  \/ PathStep
           \/ \E p \in Path, targets \in TargetLists, strategy \in Strategy : PathNew(p, targets, strategy)
           \/ \E p \in Path, atoms \in SubpathLists : SubpathValidate(p, atoms)
           \/ SubpathStore
           \/ Upgrade
<1>1. /\ paths \in [Path -> {NoPath} \cup [targets : Seq(Id), strategy : Strategy]]
      /\ subpath \in [Path -> Seq(Id)]
  BY DEF TypeOK
<1>2. ASSUME NEW p \in Path, NEW strategy \in Strategy, PathStrategy(p, strategy)
      PROVE  PathStep
  <2>1. paths[p] \in [targets : Seq(Id), strategy : Strategy]
    BY <1>1, <1>2 DEF PathStrategy, Exists
  <2>2. PICK path \in [targets : Seq(Id), strategy : Strategy] :
             path = [paths[p] EXCEPT !.strategy = strategy] /\ path.targets = paths[p].targets
    <3>1. [paths[p] EXCEPT !.strategy = strategy] \in [targets : Seq(Id), strategy : Strategy]
      BY <2>1
    <3>2. [paths[p] EXCEPT !.strategy = strategy].targets = paths[p].targets
      BY <2>1
    <3>3. QED BY <3>1, <3>2
  <2>3. paths' = [paths EXCEPT ![p] = path]
    BY <1>2, <2>2 DEF PathStrategy
  <2>4. paths'[p] = path /\ \A r \in Path : r # p => paths'[r] = paths[r]
    BY <1>1, <2>3
  <2>5. paths[p] # NoPath /\ paths'[p] # NoPath
    BY <1>2, <2>2, <2>4, TutorAssumption DEF PathStrategy, Exists
  <2>6. QED BY <1>2, <2>2, <2>4, <2>5 DEF PathStrategy, PathStep
<1>3. ASSUME NEW p \in Path, SubpathClear(p)
      PROVE  PathStep
  BY <1>1, <1>3 DEF SubpathClear, PathStep
<1>4. ASSUME NEW p \in Path, NEW mode, NEW action, NextReturns(p, mode, action)
      PROVE  PathStep
  BY <1>1, <1>4 DEF NextReturns, PathStep
<1>5. CASE \E p \in Path : \/ \E a \in Id : LessonUpsert(p, a)
                           \/ \E a \in Id, difficulty \in Difficulty : QuizCreate(p, a, difficulty)
                           \/ \E q \in QuizId, difficulty \in Difficulty : QuizUpdate(p, q, difficulty)
                           \/ \E q \in QuizId : QuizDelete(p, q)
                           \/ \E q \in QuizId, rating \in Rating : QuizAnswer(p, q, rating)
  BY <1>5 DEF LessonUpsert, QuizCreate, QuizUpdate, QuizDelete, QuizAnswer, storeVars, PathStep
<1>6. CASE SubpathAbandon \/ Tick \/ UNCHANGED vars
  BY <1>6 DEF SubpathAbandon, Tick, vars, storeVars, PathStep
<1>7. QED
  BY <1>2, <1>3, <1>4, <1>5, <1>6 DEF Next, NextStep

(* The targets of a path are those of the shipped graph. *)
LEMMA TargetsAre ==
    ASSUME TypeOK, NEW p \in Path, Exists(p)
    PROVE  /\ Targets(p) = ResolveTargets(Releases[release], paths[p].targets)
           /\ AtomsOf(Merged) = AtomsOf(Releases[release])
<1>1. PICK m : m = Merged /\ WellFormed(m)
  BY MergedOK
<1>2. PICK g : g = Releases[release] /\ WellFormed(g)
  BY TutorAssumption DEF TypeOK
<1>3. SameLinks(m, g)
  BY <1>1, <1>2, MergedOK DEF SameLinks
<1>4. PICK targets \in Seq(Id) : targets = paths[p].targets
  BY DEF TypeOK, Exists
<1>5. ResolveTargets(m, targets) = ResolveTargets(g, targets)
  BY <1>1, <1>2, <1>3, SameTargets
<1>6. AtomsOf(m) = AtomsOf(g)
  BY <1>3, SameAtoms
<1>7. QED BY <1>1, <1>2, <1>4, <1>5, <1>6 DEF Targets

LEMMA DetoursStay == TargetsStay => (Spec => []Detours)
<1> SUFFICES ASSUME TargetsStay PROVE Spec => []Detours
  OBVIOUS
<1>1. Init => Detours
  BY DEF Init, Detours, AsGiven, StoredDetours, CheckedDetour, Exists
<1>2. ASSUME TypeOK, Detours, [Next]_vars PROVE Detours'
  <2>1. AsGiven /\ StoredDetours /\ CheckedDetour
    BY <1>2 DEF Detours
  <2>2. /\ paths \in [Path -> {NoPath} \cup [targets : Seq(Id), strategy : Strategy]]
        /\ subpath \in [Path -> Seq(Id)]
        /\ setting \in {NoRequest} \cup [path : Path, atoms : Seq(Id)]
        /\ release \in DOMAIN Releases
    BY <1>2 DEF TypeOK
  <2>3. CASE PathStep
    <3>1. \A p \in Path : Exists(p) => Exists(p)' /\ paths'[p].targets = paths[p].targets
      BY <2>3 DEF PathStep, Exists
    <3>2. AsGiven'
      BY <2>1, <2>3, <3>1 DEF PathStep, AsGiven, Exists
    <3>3. StoredDetours'
      BY <2>1, <2>3, <3>1 DEF PathStep, StoredDetours
    <3>4. CheckedDetour'
      <4>1. CASE setting' = NoRequest
        BY <4>1 DEF CheckedDetour
      <4>2. CASE setting' # NoRequest
        <5>1. setting' = setting /\ setting.path \in Path
          BY <2>2, <2>3, <4>2 DEF PathStep
        <5>2. Exists(setting.path)' /\ paths'[setting.path].targets = paths[setting.path].targets
          BY <2>1, <3>1, <4>2, <5>1 DEF CheckedDetour, Exists
        <5>3. QED BY <2>1, <2>3, <4>2, <5>1, <5>2 DEF PathStep, CheckedDetour
      <4>3. QED BY <4>1, <4>2
    <3>5. QED BY <3>2, <3>3, <3>4 DEF Detours
  <2>4. ASSUME NEW p \in Path, NEW targets \in TargetLists, NEW strategy \in Strategy,
               PathNew(p, targets, strategy)
        PROVE  Detours'
    <3>1. PICK path : path = [targets |-> Dedup(targets), strategy |-> strategy]
      OBVIOUS
    <3>2. paths' = [paths EXCEPT ![p] = path]
      BY <2>4, <3>1 DEF PathNew
    <3>3. paths'[p] = path /\ path.targets = Dedup(targets) /\ \A r \in Path : r # p => paths'[r] = paths[r]
      BY <2>2, <3>1, <3>2
    <3>4. AsGiven'
      BY <2>1, <3>3 DEF AsGiven, Exists
    <3>5. ~Exists(p) /\ UNCHANGED <<subpath, setting, release>>
      BY <2>4 DEF PathNew
    <3>6. StoredDetours'
      <4>1. SUFFICES ASSUME NEW r \in Path, subpath'[r] # <<>>
                     PROVE  Exists(r)' /\ Detour(Releases[release'], paths'[r].targets, subpath'[r])
        BY DEF StoredDetours
      <4>2. r # p /\ Exists(r) /\ Detour(Releases[release], paths[r].targets, subpath[r])
        BY <2>1, <3>5, <4>1 DEF StoredDetours
      <4>3. QED BY <3>3, <3>5, <4>2 DEF Exists
    <3>7. CheckedDetour'
      <4>1. SUFFICES ASSUME setting' # NoRequest
                     PROVE  Exists(setting.path)' /\ Detour(Releases[release'], paths'[setting.path].targets, setting'.atoms)
        BY <3>5 DEF CheckedDetour, Exists
      <4>2. setting.path \in Path /\ setting.path # p /\ Exists(setting.path)
            /\ Detour(Releases[release], paths[setting.path].targets, setting.atoms)
        BY <2>1, <2>2, <3>5, <4>1 DEF CheckedDetour
      <4>3. QED BY <3>3, <3>5, <4>2 DEF Exists
    <3>8. QED BY <3>4, <3>6, <3>7 DEF Detours
  <2>5. ASSUME NEW p \in Path, NEW atoms \in SubpathLists, SubpathValidate(p, atoms)
        PROVE  Detours'
    <3>1. atoms \in Seq(Id) /\ atoms # <<>> /\ Exists(p)
      BY <2>5, TutorAssumption DEF SubpathValidate
    <3>2. Distinct(atoms)
      <4>1. Dedup(atoms) = atoms
        BY <2>5 DEF SubpathValidate
      <4>2. QED BY <3>1, <4>1, DedupKeeps
    <3>3. atoms \in Seq(AtomsOf(Releases[release]))
      <4>1. \A i \in DOMAIN atoms : atoms[i] \in AtomsOf(Merged)
        BY <2>5, MergedOK DEF SubpathValidate, ToSet, AtomsOf, IsAtom
      <4>2. \A i \in DOMAIN atoms : atoms[i] \in AtomsOf(Releases[release])
        BY <1>2, <3>1, <4>1, TargetsAre
      <4>3. QED BY <3>1, <4>2
    <3>4. Last(atoms) \in ToSet(ResolveTargets(Releases[release], paths[p].targets).atoms)
      BY <1>2, <2>5, <3>1, TargetsAre DEF SubpathValidate, Contains, ToSet
    <3>5. Detour(Releases[release], paths[p].targets, atoms)
      BY <3>1, <3>2, <3>3, <3>4 DEF Detour
    <3>6. setting' = [path |-> p, atoms |-> atoms] /\ UNCHANGED <<paths, subpath, release>>
      BY <2>5 DEF SubpathValidate
    <3>7. CheckedDetour'
      BY <3>1, <3>5, <3>6 DEF CheckedDetour, Exists
    <3>8. AsGiven' /\ StoredDetours'
      BY <2>1, <3>6 DEF AsGiven, StoredDetours, Exists
    <3>9. QED BY <3>7, <3>8 DEF Detours
  <2>6. CASE SubpathStore
    <3>1. setting \in [path : Path, atoms : Seq(Id)]
      BY <2>2, <2>6 DEF SubpathStore
    <3>2. PICK p \in Path, atoms \in Seq(Id) : p = setting.path /\ atoms = setting.atoms
      BY <3>1
    <3>3. Exists(p) /\ Detour(Releases[release], paths[p].targets, atoms)
      BY <2>1, <2>6, <3>2 DEF SubpathStore, CheckedDetour
    <3>4. /\ subpath' = [subpath EXCEPT ![p] = atoms]
          /\ UNCHANGED <<paths, release>>
          /\ setting' = NoRequest
      BY <2>6, <3>2 DEF SubpathStore
    <3>5. subpath'[p] = atoms /\ \A r \in Path : r # p => subpath'[r] = subpath[r]
      BY <2>2, <3>4
    <3>6. StoredDetours'
      BY <2>1, <3>3, <3>4, <3>5 DEF StoredDetours, Exists
    <3>7. AsGiven' /\ CheckedDetour'
      BY <2>1, <3>4 DEF AsGiven, CheckedDetour, Exists
    <3>8. QED BY <3>6, <3>7 DEF Detours
  <2>7. CASE Upgrade
    <3>1. release' \in DOMAIN Releases /\ release < release'
      BY <2>2, <2>7, TutorAssumption DEF Upgrade
    <3>2. PICK g, h : g = Releases[release] /\ h = Releases[release']
      OBVIOUS
    <3>3. ASSUME NEW p \in Path, Exists(p), NEW atoms, Detour(g, paths[p].targets, atoms)
          PROVE  Detour(h, paths[p].targets, atoms)
      <4>1. AtomsOf(g) \subseteq AtomsOf(h)
        BY <2>2, <3>1, <3>2 DEF TargetsStay
      <4>2. PICK list \in TargetLists : paths[p].targets = Dedup(list)
        BY <2>1, <3>3 DEF AsGiven
      <4>3. ToSet(ResolveTargets(g, paths[p].targets).atoms)
              \subseteq ToSet(ResolveTargets(h, paths[p].targets).atoms)
        BY <2>2, <3>1, <3>2, <4>2 DEF TargetsStay
      <4>4. atoms \in Seq(AtomsOf(h))
        BY <3>3, <4>1 DEF Detour
      <4>5. QED BY <3>3, <4>3, <4>4 DEF Detour
    <3>4. UNCHANGED <<paths, subpath, setting>>
      BY <2>7 DEF Upgrade
    <3>5. AsGiven'
      BY <2>1, <3>4 DEF AsGiven, Exists
    <3>6. StoredDetours'
      BY <2>1, <3>2, <3>3, <3>4 DEF StoredDetours, Exists
    <3>7. CheckedDetour'
      BY <2>1, <2>2, <3>2, <3>3, <3>4 DEF CheckedDetour, Exists
    <3>8. QED BY <3>5, <3>6, <3>7 DEF Detours
  <2>8. QED BY <1>2, <2>3, <2>4, <2>5, <2>6, <2>7, PathSteps
<1>3. QED BY <1>1, <1>2, TutorTypes, PTL DEF Spec

(* A stored subpath leads to a target, although it is checked before it is *)
(* written: whatever comes between the two leaves it a detour, unless a    *)
(* release drops its atoms or its target.                                  *)
THEOREM SubpathsLead == TargetsStay => (Spec => []SubpathLeadsToTarget)
<1> SUFFICES ASSUME TargetsStay PROVE Spec => []SubpathLeadsToTarget
  OBVIOUS
<1>1. ASSUME TypeOK, Detours PROVE SubpathLeadsToTarget
  <2>1. SUFFICES ASSUME NEW p \in Path, subpath[p] # <<>>
                 PROVE  /\ Exists(p)
                        /\ Last(subpath[p]) \in ToSet(Targets(p).atoms)
                        /\ Subpath(p).atoms = subpath[p]
    BY DEF SubpathLeadsToTarget
  <2>2. Exists(p) /\ Detour(Releases[release], paths[p].targets, subpath[p])
    BY <1>1, <2>1 DEF Detours, StoredDetours
  <2>3. PICK atoms \in Seq(Id) : atoms = subpath[p]
    BY <1>1 DEF TypeOK
  <2>4. /\ Targets(p) = ResolveTargets(Releases[release], paths[p].targets)
        /\ AtomsOf(Merged) = AtomsOf(Releases[release])
    BY <1>1, <2>2, TargetsAre
  <2>5. atoms \in Seq(AtomsOf(Merged)) /\ Distinct(atoms)
    BY <2>2, <2>3, <2>4 DEF Detour
  <2>6. PICK m : m = Merged /\ WellFormed(m)
    BY <1>1, MergedOK
  <2>7. ExpandToAtoms(m, atoms) = [err |-> "none", atoms |-> atoms]
    BY <2>5, <2>6, ExpansionLists
  <2>8. Subpath(p).atoms = subpath[p]
    BY <2>3, <2>6, <2>7 DEF Subpath
  <2>9. QED BY <2>2, <2>4, <2>8 DEF Detour
<1>2. QED BY <1>1, TutorTypes, DetoursStay, PTL

-----------------------------------------------------------------------------
(* The playbook. *)

(* The quiz exists unless somebody deleted it. *)
Stored(q) ==
    /\ q \in QuizId
    /\ AtomOf(q) \in Releases[release].ids
    /\ q \in QuizIdsOf(Releases[release], AtomOf(q)) \/ overlay[q] # NoQuiz

(* What an agent was told still stands. *)
Stands(p, x) ==
    /\ x.kind = "create_lesson" => x.atom \in AtomsOf(Releases[release])
    /\ x.kind = "create_quiz" =>
          /\ x.atom \in AtomsOf(Releases[release])
          /\ x.atom \in Releases[release].lesson \cup lessons
          /\ <<p, x.atom>> \in taught
          /\ x.difficulty \in Difficulty
    /\ x.kind = "present_quiz" => Stored(x.quiz)

RepliesStand ==
    /\ DOMAIN reply = Path
    /\ \A p \in Path : /\ subpath[p] = <<>>
                       /\ reply[p] # NoReply => Resolves(p) /\ Stands(p, reply[p])

(* What a step of the playbook does to the database, besides what any      *)
(* command does.                                                           *)
PlayStep == UNCHANGED <<release, subpath>> /\ taught \subseteq taught'

(* What it does to the reply an agent acts on. *)
ReplyStep(p) ==
    \/ reply'[p] = reply[p] /\ (Exists(p) /\ reply[p] = Done => paths'[p] = paths[p])
    \/ reply'[p] = NoReply
    \/ Resolves(p) /\ paths'[p] = paths[p] /\ reply'[p] \in Actions(p, "new")
    \/ /\ reply'[p] # Done /\ Resolves(p)
       /\ \E q : reply'[p] = PresentQuiz(q) /\ Stored(q)'

LEMMA MergedAtoms ==
    ASSUME TypeOK
    PROVE  AtomsOf(Merged) = AtomsOf(Releases[release])
<1>1. PICK m : m = Merged
  OBVIOUS
<1>2. SameLinks(m, Releases[release])
  BY <1>1, MergedOK DEF SameLinks
<1>3. QED BY <1>1, <1>2, SameAtoms

LEMMA LiveIds ==
    ASSUME TypeOK, NEW q, Live(Merged, q)
    PROVE  q \in QuizId
<1>1. PICK a : a = AtomOf(q) /\ a \in Merged.ids /\ q \in QuizIdsOf(Merged, a)
  BY DEF Live
<1>2. QED BY <1>1, NumbersGrow

(* What a step that installs no release does to the quizzes. *)
LEMMA PlayQuizzes ==
    ASSUME TypeOK, [Next]_vars, PlayStep
    PROVE  QuizStep
<1>1. ~UpgradeStep
  BY TutorAssumption DEF UpgradeStep, PlayStep, TypeOK
<1>2. QED BY <1>1, QuizSteps

(* No command changes the targets of a path. *)
LEMMA TargetsKept ==
    ASSUME TypeOK, [Next]_vars, NEW p \in Path, Exists(p)
    PROVE  paths'[p] # NoPath /\ paths'[p].targets = paths[p].targets
<1>1. CASE PathStep
  BY <1>1 DEF PathStep, Exists
<1>2. ASSUME NEW r \in Path, NEW targets \in TargetLists, NEW strategy \in Strategy,
             PathNew(r, targets, strategy)
      PROVE  paths'[p] = paths[p]
  BY <1>2 DEF PathNew, Exists, TypeOK
<1>3. CASE (\E r \in Path, atoms \in SubpathLists : SubpathValidate(r, atoms)) \/ SubpathStore \/ Upgrade
  BY <1>3 DEF SubpathValidate, SubpathStore, Upgrade, Exists
<1>4. QED BY <1>1, <1>2, <1>3, PathSteps DEF Exists

(* The links of the graph are those of the release, whatever is authored. *)
LEMMA LinksStay ==
    ASSUME TypeOK, TypeOK', release' = release
    PROVE  \E m, m2 : /\ m = Merged /\ m2 = Merged'
                      /\ WellFormed(m) /\ WellFormed(m2) /\ SameLinks(m, m2)
<1>1. PICK g : g = Releases[release] /\ WellFormed(g)
  BY TutorAssumption DEF TypeOK
<1>2. PICK m : m = WithOverlay(g, lessons, overlay, removed)
  OBVIOUS
<1>3. PICK m2 : m2 = WithOverlay(g, lessons', overlay', removed')
  OBVIOUS
<1>4. m = Merged /\ WellFormed(m) /\ SameLinks(m, g)
  BY <1>1, <1>2, MergedOK DEF Merged, SameLinks
<1>5. WellFormed(m2) /\ SameLinks(m2, g)
  <2>1. PICK lessons2, overlay2, removed2 :
             lessons2 = lessons' /\ overlay2 = overlay' /\ removed2 = removed'
    OBVIOUS
  <2>2. m2 = WithOverlay(g, lessons2, overlay2, removed2) /\ overlay2 \in Overlays
    BY <1>3, <2>1 DEF TypeOK, Overlays
  <2>3. WellFormed(g) /\ overlay2 \in Overlays
    BY <1>1, <2>2
  <2>4. m2 = WithOverlay(g, lessons2, overlay2, removed2)
    BY <2>2
  <2>5. QED BY <2>3, <2>4, MergedLinks
<1>6. SameLinks(m, m2)
  BY <1>4, <1>5 DEF SameLinks
<1>7. m2 = Merged'
  BY <1>1, <1>3 DEF Merged
<1>8. QED BY <1>4, <1>5, <1>6, <1>7

(* A path that resolves does so after any step of the playbook, with the   *)
(* same targets.                                                           *)
LEMMA ResolvesStays ==
    ASSUME TypeOK, TypeOK', [Next]_vars, PlayStep, NEW p \in Path, Exists(p)
    PROVE  /\ Targets(p)' = Targets(p) /\ Subpath(p)' = Subpath(p)
           /\ Exists(p)'
           /\ Resolves(p) => Resolves(p)'
<1>1. PICK m, m2 : /\ m = Merged /\ m2 = Merged'
                   /\ WellFormed(m) /\ WellFormed(m2) /\ SameLinks(m, m2)
  BY LinksStay DEF PlayStep
<1>2. PICK targets \in Seq(Id) : targets = paths[p].targets /\ targets = paths'[p].targets
  BY TargetsKept DEF TypeOK, Exists
<1>3. PICK ids \in Seq(Id) : ids = subpath[p] /\ ids = subpath'[p]
  BY DEF TypeOK, PlayStep
<1>4. ResolveTargets(m, targets) = ResolveTargets(m2, targets)
  BY <1>1, SameTargets
<1>5. ExpandToAtoms(m, ids) = ExpandToAtoms(m2, ids)
  BY <1>1, SameExpansion
<1>6. Targets(p)' = Targets(p)
  BY <1>1, <1>2, <1>4 DEF Targets
<1>7. Subpath(p)' = Subpath(p)
  BY <1>1, <1>3, <1>5 DEF Subpath
<1>8. Exists(p)'
  BY TargetsKept DEF Exists
<1>9. QED BY <1>6, <1>7, <1>8 DEF Resolves

LEMMA ActionStands ==
    ASSUME TypeOK, NEW p \in Path, Exists(p), NEW x \in Actions(p, "new")
    PROVE  Stands(p, x) /\ (x.kind = "present_quiz" => Live(Merged, x.quiz))
<1>1. x = Done \/ \E i : Reached(p, x, i)
  BY ActionsAre, StepReaches
<1>2. CASE x = Done
  BY <1>2 DEF Done, Stands
<1>3. ASSUME NEW i, Reached(p, x, i)
      PROVE  Stands(p, x) /\ (x.kind = "present_quiz" => Live(Merged, x.quiz))
  <2>1. x.atom \in AtomsOf(Releases[release])
    BY <1>3, TargetsAre DEF Reached
  <2>2. x.kind = "create_quiz" =>
          /\ x.atom \in Releases[release].lesson \cup lessons
          /\ <<p, x.atom>> \in taught
          /\ x.difficulty \in Difficulty
    BY <1>3, MergedOK DEF Reached, Taught
  <2>3. ASSUME x.kind = "present_quiz" PROVE Stored(x.quiz) /\ Live(Merged, x.quiz)
    <3>1. Live(Merged, x.quiz)
      BY <1>3, <2>3 DEF Reached
    <3>2. x.quiz \in QuizId
      BY <3>1, LiveIds
    <3>3. QED BY <3>1, <3>2, LiveMeans DEF Stored
  <2>4. QED BY <2>1, <2>2, <2>3 DEF Stands
<1>4. QED BY <1>1, <1>2, <1>3

LEMMA PlaySteps ==
    ASSUME TypeOK, RepliesStand, PlayNext
    PROVE  [Next]_vars /\ PlayStep
<1>1. Releases[release].ids \subseteq Id /\ Merged.ids = Releases[release].ids
  BY MergedOK, TutorAssumption DEF TypeOK, WellFormed
<1>2. ASSUME NEW p \in Path, NEW targets \in TargetLists, NEW strategy \in Strategy,
             Start(p, targets, strategy)
      PROVE  [Next]_vars /\ PlayStep
  BY <1>2, PlaybookAssumption DEF Start, PathNew, Next, On, PlayStep
<1>3. ASSUME NEW p \in Path, NEW strategy \in Strategy, Switch(p, strategy)
      PROVE  [Next]_vars /\ PlayStep
  BY <1>3, PlaybookAssumption DEF Switch, PathStrategy, Next, On, PlayStep
<1>4. ASSUME NEW p \in Path, Ask(p)
      PROVE  [Next]_vars /\ PlayStep
  <2>1. PICK x \in Actions(p, "new") : NextReturns(p, "new", x) /\ Resolves(p)
    BY <1>4 DEF Ask
  <2>2. NextStep(p, "new") /\ "new" \in Mode /\ On("next")
    BY <2>1, PlaybookAssumption DEF NextStep, Mode, On
  <2>3. Next
    BY <2>2 DEF Next
  <2>4. subpath' = subpath
    <3>1. subpath \in [Path -> Seq(Id)] /\ subpath[p] = <<>>
      BY DEF TypeOK, RepliesStand
    <3>2. [subpath EXCEPT ![p] = <<>>] = subpath
      BY <3>1
    <3>3. QED BY <2>1, <3>2 DEF NextReturns
  <2>5. PlayStep
    BY <2>1, <2>4 DEF NextReturns, PlayStep
  <2>6. QED BY <2>3, <2>5
<1>5. ASSUME NEW p \in Path, NEW a, LessonUpsert(p, a)
      PROVE  [Next]_vars /\ PlayStep
  <2>1. a \in Id /\ On("lesson upsert")
    BY <1>1, <1>5, PlaybookAssumption DEF LessonUpsert, IsAtom, On
  <2>2. QED BY <1>5, <2>1 DEF Next, LessonUpsert, PlayStep
<1>6. ASSUME NEW p \in Path, AuthorQuiz(p)
      PROVE  [Next]_vars /\ PlayStep
  <2>1. PICK a, difficulty : /\ a = reply[p].atom /\ difficulty = reply[p].difficulty
                             /\ QuizCreate(p, a, difficulty)
    BY <1>6 DEF AuthorQuiz
  <2>2. a \in Id /\ On("quiz create")
    BY <1>1, <2>1, PlaybookAssumption DEF QuizCreate, IsAtom, On
  <2>3. difficulty \in Difficulty
    BY <1>6, <2>1 DEF AuthorQuiz, ActsOn, RepliesStand, Stands
  <2>4. QED BY <2>1, <2>2, <2>3 DEF Next, QuizCreate, PlayStep
<1>7. ASSUME NEW p \in Path, NEW rating \in Rating, GiveAnswer(p, rating)
      PROVE  [Next]_vars /\ PlayStep
  <2>1. PICK q : q = reply[p].quiz /\ QuizAnswer(p, q, rating)
    BY <1>7 DEF GiveAnswer
  <2>2. q \in QuizId /\ On("quiz answer")
    BY <1>7, <2>1, PlaybookAssumption DEF GiveAnswer, ActsOn, RepliesStand, Stands, Stored, On
  <2>3. QED BY <2>1, <2>2 DEF Next, QuizAnswer, storeVars, PlayStep
<1>8. ASSUME NEW p \in Path, NEW q \in Amendable, NEW difficulty \in Difficulty,
             AmendQuiz(p, q, difficulty)
      PROVE  [Next]_vars /\ PlayStep
  <2>1. q \in QuizId /\ On("quiz update")
    BY PlaybookAssumption DEF On
  <2>2. QED BY <1>8, <2>1 DEF AmendQuiz, Next, QuizUpdate, PlayStep
<1>9. ASSUME NEW p \in Path, NEW q \in Removable, RemoveQuiz(p, q)
      PROVE  [Next]_vars /\ PlayStep
  <2>1. q \in QuizId /\ On("quiz delete")
    BY PlaybookAssumption DEF On
  <2>2. QED BY <1>9, <2>1 DEF RemoveQuiz, Next, QuizDelete, PlayStep
<1>10. ASSUME UNCHANGED vars
       PROVE  [Next]_vars /\ PlayStep
  BY <1>10 DEF vars, storeVars, PlayStep
<1>11. QED
  <2>1. \A p \in Path : AuthorLesson(p) => \E a : LessonUpsert(p, a)
    BY DEF AuthorLesson
  <2>2. \A p \in Path : \A a : AmendLesson(p, a) => LessonUpsert(p, a)
    BY DEF AmendLesson
  <2>3. \A p \in Path : ReadLesson(p) \/ AnswerRefused(p) \/ BreakOff(p) => UNCHANGED vars
    BY DEF ReadLesson, AnswerRefused, BreakOff
  <2>4. QED BY <1>2, <1>3, <1>4, <1>5, <1>6, <1>7, <1>8, <1>9, <1>10, <2>1, <2>2, <2>3 DEF PlayNext

LEMMA ReplySteps ==
    ASSUME TypeOK, RepliesStand, PlayNext
    PROVE  DOMAIN reply' = Path /\ \A p \in Path : ReplyStep(p)
<1>1. DOMAIN reply = Path /\ paths \in [Path -> {NoPath} \cup [targets : Seq(Id), strategy : Strategy]]
  BY DEF RepliesStand, TypeOK
<1>2. Done # NoReply
  <2>1. Done \in [kind : {"create_lesson", "present_lesson", "create_quiz", "present_quiz", "done"}]
    BY DEF Done
  <2>2. QED BY <2>1, PlaybookAssumption
<1>3. ASSUME NEW p \in Path, NEW x, Reply(p, x)
      PROVE  /\ DOMAIN reply' = Path
             /\ reply'[p] = x
             /\ \A r \in Path : r # p => reply'[r] = reply[r]
  BY <1>1, <1>3 DEF Reply
<1>4. ASSUME NEW p \in Path, NEW targets \in TargetLists, NEW strategy \in Strategy,
             Start(p, targets, strategy)
      PROVE  DOMAIN reply' = Path /\ \A r \in Path : ReplyStep(r)
  BY <1>1, <1>4 DEF Start, PathNew, Exists, ReplyStep
<1>5. ASSUME NEW p \in Path, NEW strategy \in Strategy, Switch(p, strategy)
      PROVE  DOMAIN reply' = Path /\ \A r \in Path : ReplyStep(r)
  BY <1>1, <1>5 DEF Switch, PathStrategy, ReplyStep
<1>6. ASSUME NEW p \in Path, Ask(p)
      PROVE  DOMAIN reply' = Path /\ \A r \in Path : ReplyStep(r)
  <2>1. PICK x \in Actions(p, "new") : NextReturns(p, "new", x) /\ Reply(p, x) /\ Resolves(p)
    BY <1>6 DEF Ask
  <2>2. paths' = paths
    BY <2>1 DEF NextReturns
  <2>3. QED BY <1>3, <2>1, <2>2 DEF ReplyStep
<1>7. ASSUME NEW p \in Path, NEW x \in {NoReply, reply[p]}, Reply(p, x), paths' = paths
      PROVE  DOMAIN reply' = Path /\ \A r \in Path : ReplyStep(r)
  BY <1>3, <1>7 DEF ReplyStep
<1>8. ASSUME NEW p \in Path, AuthorQuiz(p)
      PROVE  DOMAIN reply' = Path /\ \A r \in Path : ReplyStep(r)
  <2>1. PICK a, difficulty : /\ a = reply[p].atom /\ difficulty = reply[p].difficulty
                             /\ QuizCreate(p, a, difficulty)
    BY <1>8 DEF AuthorQuiz
  <2>2. PICK n : n = NextQuizNumber(a)
    OBVIOUS
  <2>3. PICK q : q = <<a, n>> /\ Reply(p, PresentQuiz(q))
    BY <1>8, <2>1, <2>2 DEF AuthorQuiz
  <2>4. a \in Merged.ids /\ a \in Releases[release].ids /\ NextQuizNumber(a) <= MaxQuiz
    BY <2>1, MergedOK DEF QuizCreate, IsAtom
  <2>5. q \in QuizId /\ AtomOf(q) = a
    BY <2>2, <2>3, <2>4, NumberFree
  <2>6. difficulty \in Difficulty /\ Resolves(p)
    BY <1>8, <2>1 DEF AuthorQuiz, ActsOn, RepliesStand, Stands
  <2>7. overlay'[q] = difficulty /\ UNCHANGED <<release, paths>>
    BY <2>1, <2>2, <2>3, <2>5 DEF QuizCreate, TypeOK
  <2>8. Stored(q)'
    BY <2>4, <2>5, <2>6, <2>7, CurriculumAssumption DEF Stored
  <2>9. PresentQuiz(q) # Done
    BY DEF PresentQuiz, Done
  <2>10. ReplyStep(p)
    BY <1>3, <2>3, <2>6, <2>8, <2>9 DEF ReplyStep
  <2>11. QED BY <1>3, <2>3, <2>7, <2>10 DEF ReplyStep
<1>9. ASSUME UNCHANGED <<reply, paths>>
      PROVE  DOMAIN reply' = Path /\ \A r \in Path : ReplyStep(r)
  BY <1>1, <1>9 DEF ReplyStep
<1>10. QED
  <2>1. ASSUME NEW p \in Path, AuthorLesson(p) PROVE Reply(p, NoReply) /\ paths' = paths
    BY <2>1 DEF AuthorLesson, LessonUpsert
  <2>2. ASSUME NEW p \in Path, ReadLesson(p) \/ AnswerRefused(p) \/ BreakOff(p)
        PROVE  Reply(p, NoReply) /\ paths' = paths
    BY <2>2 DEF ReadLesson, AnswerRefused, BreakOff, vars, storeVars
  <2>3. ASSUME NEW p \in Path, NEW rating, GiveAnswer(p, rating) PROVE Reply(p, NoReply) /\ paths' = paths
    BY <2>3 DEF GiveAnswer, QuizAnswer, storeVars
  <2>4. ASSUME NEW p \in Path, NEW q,
               AmendLesson(p, AtomOf(q)) \/ \E difficulty \in Difficulty : AmendQuiz(p, q, difficulty)
        PROVE  UNCHANGED <<reply, paths>>
    BY <2>4 DEF AmendLesson, AmendQuiz, LessonUpsert, QuizUpdate
  <2>5. ASSUME NEW p \in Path, NEW q, RemoveQuiz(p, q)
        PROVE  paths' = paths /\ \E x \in {NoReply, reply[p]} : Reply(p, x)
    BY <2>5 DEF RemoveQuiz, QuizDelete
  <2>6. QED BY <1>4, <1>5, <1>6, <1>7, <1>8, <1>9, <2>1, <2>2, <2>3, <2>4, <2>5 DEF PlayNext

(* What stood before a step of the playbook stands after it. *)
LEMMA StandingStays ==
    ASSUME TypeOK, TypeOK', RepliesStand, [Next]_vars, PlayStep,
           DOMAIN reply' = Path, \A p \in Path : ReplyStep(p)
    PROVE  RepliesStand'
<1>1. QuizStep
  BY PlayQuizzes
<1>2. ASSUME NEW q, Stored(q) PROVE Stored(q)'
  BY <1>1, <1>2 DEF Stored, PlayStep, QuizStep
<1>3. ASSUME NEW p \in Path, NEW x, Stands(p, x) PROVE Stands(p, x)'
  BY <1>1, <1>2, <1>3 DEF Stands, PlayStep, QuizStep
<1>4. ASSUME NEW p \in Path, Resolves(p) PROVE Resolves(p)'
  BY <1>4, ResolvesStays DEF Resolves
<1>5. ASSUME NEW p \in Path, reply'[p] # NoReply PROVE Resolves(p)' /\ Stands(p, reply[p])'
  <2>1. CASE reply'[p] = reply[p]
    BY <1>3, <1>4, <1>5, <2>1 DEF RepliesStand
  <2>2. CASE Resolves(p) /\ reply'[p] \in Actions(p, "new")
    <3>1. PICK x \in Actions(p, "new") : x = reply'[p]
      BY <2>2
    <3>2. Stands(p, x)
      BY <2>2, ActionStands DEF Resolves
    <3>3. QED BY <1>3, <1>4, <2>2, <3>1, <3>2
  <2>3. ASSUME NEW q, Resolves(p), reply'[p] = PresentQuiz(q), Stored(q)'
        PROVE  Resolves(p)' /\ Stands(p, reply[p])'
    BY <1>4, <2>3 DEF PresentQuiz, Stands
  <2>4. QED BY <1>5, <2>1, <2>2, <2>3 DEF ReplyStep
<1>6. QED BY <1>5 DEF RepliesStand, PlayStep

LEMMA PlayTypes == PlaySpec => [](TypeOK /\ RepliesStand)
<1>1. PlayInit => TypeOK /\ RepliesStand
  BY InitTypes DEF PlayInit, Init, RepliesStand
<1>2. ASSUME TypeOK, RepliesStand, [PlayNext]_playVars
      PROVE  TypeOK' /\ RepliesStand'
  <2>1. CASE PlayNext
    <3>1. TypeOK'
      BY <1>2, <2>1, PlaySteps, StepTypes
    <3>2. QED BY <1>2, <2>1, <3>1, PlaySteps, ReplySteps, StandingStays
  <2>2. CASE UNCHANGED playVars
    <3>1. TypeOK'
      BY <1>2, <2>2, StepTypes DEF playVars
    <3>2. RepliesStand'
      BY <1>2, <2>2 DEF RepliesStand, Stands, Stored, Resolves, Exists, Targets, Subpath, Merged,
         playVars, vars, storeVars
    <3>3. QED BY <3>1, <3>2
  <2>3. QED BY <1>2, <2>1, <2>2
<1>3. QED BY <1>1, <1>2, PTL DEF PlaySpec

(* Agents that follow the playbook do to the database only what commands   *)
(* do: all that is proved of Tutor holds of them.                          *)
THEOREM PlaybookIsTutor == PlaySpec => Spec
<1>1. TypeOK /\ RepliesStand /\ [PlayNext]_playVars => [Next]_vars
  BY PlaySteps DEF playVars
<1>2. PlayInit => Init
  BY DEF PlayInit
<1>3. QED BY <1>1, <1>2, PlayTypes, PTL DEF PlaySpec, Spec

(* What stands is accepted, but a quiz that is not live any more. *)
LEMMA Accepts ==
    ASSUME TypeOK, NEW p \in Path, NEW x, Stands(p, x),
           x.kind = "present_quiz" => Live(Merged, x.quiz)
    PROVE  Accepted(p, x)
<1>1. x.kind = "create_lesson" => IsAtom(Merged, x.atom)
  BY MergedAtoms DEF Stands, AtomsOf
<1>2. ASSUME x.kind = "create_quiz"
      PROVE  /\ x.atom \in Merged.lesson
             /\ x.atom \in Taught(p)
             /\ NextQuizNumber(x.atom) <= MaxQuiz =>
                   overlay[<<x.atom, NextQuizNumber(x.atom)>>] = NoQuiz
  <2>1. PICK a : /\ a = x.atom
                 /\ a \in AtomsOf(Releases[release])
                 /\ a \in Releases[release].lesson \cup lessons
                 /\ <<p, a>> \in taught
    BY <1>2 DEF Stands
  <2>2. a \in Merged.ids /\ a \in Id
    BY <2>1, MergedOK DEF AtomsOf, WellFormed
  <2>3. a \in Merged.lesson
    BY <2>1, <2>2, MergedOK
  <2>4. a \in Taught(p)
    BY <2>1, <2>2 DEF Taught
  <2>5. PICK n : n = NextQuizNumber(a)
    OBVIOUS
  <2>6. n <= MaxQuiz => overlay[<<a, n>>] = NoQuiz
    BY <2>2, <2>5, NumberFree
  <2>7. QED BY <2>1, <2>3, <2>4, <2>5, <2>6
<1>3. QED BY <1>1, <1>2 DEF Accepted

(* The command the playbook has for an answer of `next` is accepted when   *)
(* it is given, whatever the other agents author, amend or remove in       *)
(* between, unless they removed the quiz to be answered; and then `next`   *)
(* succeeds, with a step whose command is accepted.                        *)
THEOREM PlaybookStepsPossible == PlaySpec => []StepsStayPossible
<1>1. ASSUME TypeOK, RepliesStand PROVE StepsStayPossible
  <2>1. SUFFICES ASSUME NEW p \in Path, reply[p] # NoReply, ~Accepted(p, reply[p])
                 PROVE  /\ ActsOn(p, "present_quiz") /\ reply[p].quiz \in removed
                        /\ Resolves(p)
                        /\ \A action \in Actions(p, "new") : Accepted(p, action)
    BY DEF StepsStayPossible
  <2>2. PICK x : x = reply[p] /\ Stands(p, x) /\ Resolves(p)
    BY <1>1, <2>1 DEF RepliesStand
  <2>3. x.kind = "present_quiz" /\ ~Live(Merged, x.quiz)
    BY <1>1, <2>1, <2>2, Accepts
  <2>4. x.quiz \in removed
    BY <1>1, <2>2, <2>3, LiveMeans DEF Stands, Stored
  <2>5. ASSUME NEW action \in Actions(p, "new") PROVE Accepted(p, action)
    <3>1. Stands(p, action) /\ (action.kind = "present_quiz" => Live(Merged, action.quiz))
      BY <1>1, <2>2, ActionStands DEF Resolves
    <3>2. QED BY <1>1, <3>1, Accepts
  <2>6. QED BY <2>1, <2>2, <2>3, <2>4, <2>5 DEF ActsOn
<1>2. QED BY <1>1, PlayTypes, PTL

(* The new steps of a path, and what they are when nothing is left. *)
NewActions(p) == NewAction(Merged, Taught(p), Correct(p), RouteOf(p))
NothingNew == \A p \in Path : Finished(p) => NewActions(p) = {Done}

LEMMA NewActionsAre ==
    ASSUME NEW p
    PROVE  Actions(p, "new") = NewActions(p)
BY NewOnly DEF Actions, NewActions

(* A path without a detour goes through atoms it reaches. *)
LEMMA RouteReached ==
    ASSUME TypeOK, NEW p \in Path, Exists(p), subpath[p] = <<>>
    PROVE  ToSet(RouteOf(p)) \subseteq ReachableAtoms(Merged, ToSet(Targets(p).atoms))
<1>1. Routed(p) /\ paths[p].strategy \in {"bottom_up", "top_down"}
  BY RouteOK DEF Strategy
<1>2. CASE paths[p].strategy = "top_down"
  <2>1. PICK m : m = Merged /\ WellFormed(m)
    BY MergedOK
  <2>2. PICK ids \in Seq(Id) : ids = subpath[p] /\ ids = <<>>
    BY EmptyList
  <2>3. ids \in Seq(AtomsOf(m)) /\ Distinct(ids)
    BY <2>2 DEF Distinct
  <2>4. Subpath(p).atoms = <<>>
    <3>1. ExpandToAtoms(m, ids) = [err |-> "none", atoms |-> ids]
      BY <2>1, <2>3, ExpansionLists
    <3>2. Subpath(p) = [err |-> "none", atoms |-> ids]
      BY <2>1, <2>2, <3>1 DEF Subpath
    <3>3. QED BY <2>2, <3>2
  <2>5. PICK targets \in Seq(AtomsOf(m)) : targets = Targets(p).atoms /\ Distinct(targets)
    BY <1>1, <2>1 DEF Routed
  <2>6. RouteOf(p) = targets
    BY <1>1, <1>2, <2>4, <2>5 DEF Routed
  <2>7. ToSet(targets) \subseteq ReachableAtoms(m, ToSet(targets))
    <3>1. PICK all, s : /\ all = ReachableAtoms(m, ToSet(targets))
                        /\ s = Counters(m, Taught(p), Correct(p), targets)
      OBVIOUS
    <3>2. QED BY <2>1, <2>5, <3>1, CountersFull
  <2>8. QED BY <2>1, <2>5, <2>6, <2>7
<1>3. CASE paths[p].strategy = "bottom_up"
  BY <1>1, <1>3 DEF Routed
<1>4. QED BY <1>1, <1>2, <1>3

(* What can make a finished path unfinished. *)
ReopensPath(p) == \E a \in ReachableAtoms(Merged, ToSet(Targets(p).atoms)) : Reopens(a)

LEMMA FinishedStays ==
    ASSUME TypeOK, TypeOK', [Next]_vars, PlayStep,
           NEW p \in Path, subpath[p] = <<>>, Finished(p), paths'[p] = paths[p]
    PROVE  Finished(p)' \/ ReopensPath(p)
<1>1. Exists(p)
  BY DEF Finished
<1>2. PICK m, m2 : /\ m = Merged /\ m2 = Merged'
                   /\ WellFormed(m) /\ WellFormed(m2) /\ SameLinks(m, m2)
  BY LinksStay DEF PlayStep
<1>3. PICK strategy : strategy = paths[p].strategy /\ strategy = paths'[p].strategy
  OBVIOUS
<1>4. PICK targets : targets = Targets(p).atoms /\ targets = Targets(p)'.atoms /\ targets \in Seq(Id)
  <2>1. Targets(p).atoms \in Seq(AtomsOf(m))
    BY <1>1, <1>2, RouteOK DEF Routed
  <2>2. AtomsOf(m) \subseteq Id
    BY <1>2 DEF AtomsOf, WellFormed
  <2>3. Targets(p)' = Targets(p)
    BY <1>1, ResolvesStays
  <2>4. QED BY <2>1, <2>2, <2>3
<1>5. PICK sub : sub = Subpath(p).atoms /\ sub = Subpath(p)'.atoms
  <2>1. Subpath(p)' = Subpath(p)
    BY <1>1, ResolvesStays
  <2>2. QED BY <2>1
<1>6. RouteOf(p) = Route(m, strategy, targets, sub) /\ RouteOf(p)' = Route(m2, strategy, targets, sub)
  BY <1>2, <1>3, <1>4, <1>5 DEF RouteOf
<1>7. ToSet(RouteOf(p)') = ToSet(RouteOf(p))
  BY <1>2, <1>4, <1>6, SameRoute
<1>8. ASSUME ~ReopensPath(p), NEW a \in ToSet(RouteOf(p))
      PROVE  Complete(p, a)' /\ (a \in Taught(p))'
  <2>1. Complete(p, a) /\ a \in Taught(p) /\ a \in Id
    BY <1>8 DEF Finished, Taught
  <2>2. ~Reopens(a)
    BY <1>1, <1>8, RouteReached DEF ReopensPath
  <2>3. CompleteNext(p, a)
    BY <2>1, <2>2, CompletionStays DEF PlayStep
  <2>4. Complete(p, a)'
    BY <2>3 DEF Complete, CompleteNext, Correct, Merged
  <2>5. QED BY <2>1, <2>4 DEF Taught, PlayStep
<1>9. Exists(p)'
  BY <1>1, ResolvesStays
<1>10. QED BY <1>7, <1>8, <1>9 DEF Finished

(* `done` is final: no lesson or quiz that is authored for another path,   *)
(* in the overlay all paths share, gives a path that is done a new step.   *)
(* A quiz edited or removed may, and a tenth quiz of an atom, whose id is  *)
(* merged before those of the others.                                      *)
THEOREM PlaybookDoneIsFinal == PlaySpec => DoneIsFinal
<1>1. ASSUME TypeOK PROVE NothingNew
  BY <1>1, NothingOpen, NewActionsAre DEF NothingNew
<1>2. ASSUME TypeOK, TypeOK', RepliesStand, NothingNew', [PlayNext]_playVars
      PROVE  [\A p \in Path :
                 reply'[p] = Done /\ NewActionsNext(p) # {Done} =>
                     \/ reply[p] = Done /\ Actions(p, "new") # {Done}
                     \/ ReopensPath(p)]_playVars
  <2>1. SUFFICES ASSUME PlayNext,
                        NEW p \in Path, reply'[p] = Done, NewActionsNext(p) # {Done},
                        ~(reply[p] = Done /\ Actions(p, "new") # {Done}), ~ReopensPath(p)
                 PROVE  FALSE
    BY <1>2
  <2>2. [Next]_vars /\ PlayStep /\ ReplyStep(p)
    BY <1>2, <2>1, PlaySteps, ReplySteps
  <2>3. Done # NoReply
    <3>1. Done \in [kind : {"create_lesson", "present_lesson", "create_quiz", "present_quiz", "done"}]
      BY DEF Done
    <3>2. QED BY <3>1, PlaybookAssumption
  <2>4. Exists(p) /\ paths'[p] = paths[p] /\ Done \in Actions(p, "new")
    <3>1. CASE reply'[p] = reply[p] /\ (Exists(p) /\ reply[p] = Done => paths'[p] = paths[p])
      BY <1>2, <2>1, <2>3, <3>1 DEF RepliesStand, Resolves
    <3>2. CASE Resolves(p) /\ paths'[p] = paths[p] /\ reply'[p] \in Actions(p, "new")
      BY <2>1, <3>2 DEF Resolves
    <3>3. QED BY <2>1, <2>2, <2>3, <3>1, <3>2 DEF ReplyStep
  <2>5. Finished(p)
    <3>1. StepOn(p, Done)
      BY <1>2, <2>4, ActionsAre
    <3>2. \A a \in ToSet(RouteOf(p)) : Complete(p, a) /\ a \in Taught(p)
      BY <1>2, <2>4, <3>1, StepReaches DEF Reached
    <3>3. QED BY <2>4, <3>2 DEF Finished
  <2>6. Finished(p)'
    BY <1>2, <2>1, <2>2, <2>4, <2>5, FinishedStays DEF RepliesStand
  <2>7. NewActions(p)' = {Done}
    BY <1>2, <2>6 DEF NothingNew
  <2>8. NewActionsNext(p) = NewActions(p)'
    BY DEF NewActionsNext, NewActions, Merged, Taught, Correct, RouteOf, Targets, Subpath
  <2>9. QED BY <2>1, <2>7, <2>8
<1>3. QED BY <1>1, <1>2, PlayTypes, PTL DEF PlaySpec, DoneIsFinal, ReopensPath
=============================================================================
