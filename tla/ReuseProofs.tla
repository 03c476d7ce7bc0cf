----------------------------- MODULE ReuseProofs -----------------------------
(***************************************************************************)
(* Proofs that the change flags suffice, that every answer is current and  *)
(* that reusing a cache is invisible, for every grid and every client that *)
(* is sound (SoundClient); that an algorithm that lost its internals is    *)
(* told, for every client; and that the guard on sizes is enough.          *)
(***************************************************************************)
EXTENDS PipelineProofs, FiniteSetTheorems

-----------------------------------------------------------------------------
(* The pipeline under the invariant.                                       *)

(* Every bus an element in service uses is live.                           *)
LEMMA UsesLiveBuses ==
    ASSUME NEW f
    PROVE  /\ MatrixBuses(f) \subseteq LiveBuses /\ InjectionBuses(f) \subseteq LiveBuses
           /\ PvClaims \subseteq LiveBuses /\ WeightedBuses \subseteq LiveBuses
           /\ FixedBuses \subseteq LiveBuses /\ LiveBuses \subseteq FixedBuses \cup GenBuses
<1>1. MatrixBuses(f) \subseteq LiveBuses
  BY DEF MatrixBuses, LiveBuses, FixedBuses, BranchBuses
<1>2. {branch[b].bus1 : b \in Shifting} \cup {branch[b].bus2 : b \in Shifting} \subseteq BranchBuses
  <2>1. ASSUME NEW b \in Shifting
        PROVE  branch[b].bus1 \in BranchBuses /\ branch[b].bus2 \in BranchBuses
    <3>1. b \in Branches /\ branch[b].on1 /\ branch[b].on2
      BY <2>1, ElementsAssumption DEF Shifting, BothEnds
    <3>2. /\ <<b, 1>> \in {x \in Branches \X Sides : On(branch[x[1]], x[2])}
          /\ <<b, 2>> \in {x \in Branches \X Sides : On(branch[x[1]], x[2])}
      BY <3>1 DEF Sides, On
    <3>3. BusOf(branch[b], 1) = branch[b].bus1 /\ BusOf(branch[b], 2) = branch[b].bus2
      BY DEF BusOf
    <3> QED BY <3>2, <3>3 DEF BranchBuses
  <2> QED BY <2>1
<1>3. InjectionBuses(f) \subseteq LiveBuses
  BY <1>2 DEF InjectionBuses, LiveBuses, FixedBuses, Injecting
<1>4. PvClaims \subseteq LiveBuses /\ WeightedBuses \subseteq LiveBuses
  BY DEF PvClaims, WeightedBuses, WeightedGens, LiveBuses, Controls, GensOn
<1>5. FixedBuses \subseteq LiveBuses /\ LiveBuses \subseteq FixedBuses \cup GenBuses
  BY DEF LiveBuses, GenBuses, GensOn
<1> QED BY <1>1, <1>3, <1>4, <1>5

(* The slack the algorithm gets, from the slack of the grid.               *)
LEMMA SlackFromIds ==
    ASSUME NEW c, IdsAre(c), SlackFilled(c)
    PROVE  SlackIs(c) /\ PvPqIs(c)
<1>1. c.slackMe.buses = SlackBuses
  BY DEF IdsAre, SlackIds
<1> QED BY <1>1 DEF IdsAre, SlackFilled, SlackIs, PvPqIs

(* A pipeline `x` to `y` of the family f, started by the flags `k` and     *)
(* gone on with the flags `r`, sees at least the flags of the family.      *)
Pipeline(f, k, r, x, y) ==
    /\ x \in WorkRecord
    /\ SlackIdPost(k, Cached(f), x)
    /\ StagesPost(f, r, StatusAfter(Refreshes(k, x)), x, y)
    /\ Usable(f) => k \subseteq ctl[f] /\ r \subseteq CtlAfter(Refreshes(k, x))[f]

After(f, k, x) == CtlAfter(Refreshes(k, x))[f]

(* Nothing is relabelled unless a flag says so.                            *)
LEMMA LabelKept ==
    ASSUME TypeOK, NEW f \in Families, LabelClean(f), NEW k, NEW r, NEW x, NEW y,
           Pipeline(f, k, r, x, y), ~AnyOf(RedoFlags, After(f, k, x))
    PROVE  LET s == StatusAfter(Refreshes(k, x))
           IN  s = snap[f] /\ cache[f].lab = s /\ y.c.lab = s
<1> DEFINE s == StatusAfter(Refreshes(k, x))
<1>1. ctl[f] \subseteq After(f, k, x)
  BY AfterTyped DEF After
<1>2. Clean(f, RedoFlags)
  BY <1>1 DEF Clean, AnyOf
<1>3. cache[f].lab = snap[f] /\ busStatus = snap[f]
  BY <1>2 DEF LabelClean
<1>4. Refreshes(k, x) => snap[f] = LiveBuses
  BY AfterTyped DEF After, AnyOf, RedoFlags
<1>5. s = snap[f]
  BY <1>3, <1>4 DEF StatusAfter
<1>6. y.c.lab = s \/ y.c.lab = x.c.lab
  BY DEF Pipeline, StagesPost
<1>7. x.c.lab = cache[f].lab
  BY CachedTyped DEF Pipeline, SlackIdPost
<1> QED BY <1>3, <1>5, <1>6, <1>7

(* What a pipeline leaves, thrown or not: each datum no flag asks for is   *)
(* what a rebuild would give.                                              *)
Kept(f, r, s, c) ==
    /\ ~AnyOf(RedoFlags, r) => c.lab = snap[f] /\ s = snap[f]
    /\ ~AnyOf(StatusFlags, r) => LabCovers(c)
    /\ ~AnyOf(MatFlags, r) => MatIs(f, c)
    /\ ~AnyOf(SlackIdFlags, r) => IdsAre(c)
    /\ ~AnyOf(SlackFlags, r) => SlackIs(c) /\ PvPqIs(c)
    /\ ~AnyOf(InjFlags, r) => InjIs(f, c)
    /\ ~AnyOf(WeightFlags, r) => WtsIs(c)

LEMMA PipelineKeeps ==
    ASSUME TypeOK, NEW f \in Families, FamilyClean(f), NEW k, NEW r, NEW x, NEW y,
           Pipeline(f, k, r, x, y)
    PROVE  Kept(f, After(f, k, x), StatusAfter(Refreshes(k, x)), y.c)
<1> DEFINE s == StatusAfter(Refreshes(k, x))
           a == After(f, k, x)
           old == cache[f]
<1>1. /\ x.all = ~Usable(f) /\ x.all \in BOOLEAN /\ x.ok \in BOOLEAN
      /\ y.c.slackMe = x.c.slackMe
      /\ x.c.lab = old.lab /\ x.c.mat = old.mat /\ x.c.slack = old.slack
      /\ x.c.pvpq = old.pvpq /\ x.c.inj = old.inj /\ x.c.wts = old.wts
  BY CachedTyped DEF Pipeline, SlackIdPost, StagesPost, WorkRecord
<1>2. ctl[f] \subseteq a
  BY AfterTyped DEF After
<1>3. \A flags : ~AnyOf(flags, a) => Clean(f, flags)
  BY <1>2 DEF AnyOf, Clean
<1>4. ~x.all => \A flags : ~AnyOf(flags, a) => ~AnyOf(flags, k) /\ ~AnyOf(flags, r)
  BY <1>1, <1>2 DEF AnyOf, Pipeline, After
<1>5. ~AnyOf(RedoFlags, a) => s = snap[f] /\ old.lab = s /\ y.c.lab = s
  BY LabelKept DEF FamilyClean
<1>6. x.ok = FALSE => y.c = old
  BY CachedTyped DEF Pipeline, SlackIdPost, StagesPost
<1>7. x.ok = TRUE /\ x.all => s = LiveBuses
  BY DEF Refreshes, Runs, StatusAfter
<1>8. /\ ~AnyOf(StatusFlags, a) => ~AnyOf(RedoFlags, a)
      /\ ~AnyOf(MatFlags, a) => ~AnyOf(RedoFlags, a)
      /\ ~AnyOf(SlackIdFlags, a) => ~AnyOf(RedoFlags, a)
      /\ ~AnyOf(SlackFlags, a) => ~AnyOf(RedoFlags, a) /\ ~AnyOf(SlackIdFlags, a)
      /\ ~AnyOf(InjFlags, a) => ~AnyOf(SlackFlags, a)
      /\ ~AnyOf(WeightFlags, a) => ~AnyOf(RedoFlags, a)
  BY FlagsNested
<1>9. ~AnyOf(StatusFlags, a) => LabCovers(y.c)
  BY <1>3, <1>5, <1>8 DEF FamilyClean, StatusClean, LabCovers
<1>10. ASSUME ~AnyOf(SlackIdFlags, a)
       PROVE  IdsAre(y.c)
  <2>1. IdsAre(old)
    BY <1>3, <1>10 DEF FamilyClean, IdsClean
  <2>2. SlackGens # {} /\ (x.c.slackMe = old.slackMe \/ x.c.slackMe = SlackIds(forced))
    BY <2>1, CachedTyped, <1>6 DEF IdsAre, Pipeline, SlackIdPost
  <2> QED BY <1>1, <2>1, <2>2 DEF IdsAre
<1>11. CASE x.ok = FALSE
  BY <1>3, <1>5, <1>6, <1>8, <1>9, <1>10, <1>11
     DEF FamilyClean, MatClean, SlackClean, InjClean, WtsClean, Kept
<1>12. CASE ~x.all
  <2>1. ~AnyOf(MatFlags, a) => MatIs(f, y.c)
    BY <1>1, <1>3, <1>4, <1>5, <1>8, <1>12 DEF FamilyClean, MatClean, MatIs, Pipeline, StagesPost
  <2>2. ~AnyOf(SlackFlags, a) => SlackIs(y.c) /\ PvPqIs(y.c)
    BY <1>1, <1>3, <1>4, <1>5, <1>8, <1>12
       DEF FamilyClean, SlackClean, SlackIs, PvPqIs, Pipeline, StagesPost
  <2>3. ~AnyOf(InjFlags, a) => InjIs(f, y.c)
    BY <1>1, <1>3, <1>4, <1>5, <1>8, <1>12 DEF FamilyClean, InjClean, InjIs, Pipeline, StagesPost
  <2>4. ~AnyOf(WeightFlags, a) => WtsIs(y.c)
    BY <1>1, <1>3, <1>4, <1>5, <1>8, <1>12 DEF FamilyClean, WtsClean, WtsIs, Pipeline, StagesPost
  <2> QED BY <1>5, <1>9, <1>10, <2>1, <2>2, <2>3, <2>4 DEF Kept
<1>13. CASE x.ok = TRUE /\ x.all
  <2>1. MatIs(f, y.c)
    BY <1>7, <1>13, UsesLiveBuses DEF Pipeline, StagesPost
  <2>2. ASSUME ~AnyOf(SlackFlags, a)
        PROVE  SlackIs(y.c) /\ PvPqIs(y.c) /\ InjIs(f, y.c)
    <3>1. IdsAre(y.c) /\ SlackIs(old) /\ old.lab = s
      BY <1>3, <1>5, <1>8, <1>10, <2>2 DEF FamilyClean, SlackClean
    <3>2. x.c.slackMe.buses \subseteq s
      BY <1>1, <3>1 DEF IdsAre, SlackIs, SlackIds
    <3>3. SlackFilled(y.c) /\ InjIs(f, y.c)
      BY <1>7, <1>13, <3>2, UsesLiveBuses DEF Pipeline, StagesPost
    <3> QED BY <3>1, <3>3, SlackFromIds
  <2>3. ~AnyOf(WeightFlags, a) => WtsIs(y.c)
    <3>1. WtsIs(y.c) \/ y.c.wts = x.c.wts
      BY <1>7, <1>13, UsesLiveBuses DEF Pipeline, StagesPost
    <3> QED BY <1>1, <1>3, <1>5, <1>8, <3>1 DEF FamilyClean, WtsClean, WtsIs
  <2> QED BY <1>5, <1>8, <1>9, <1>10, <2>1, <2>2, <2>3 DEF Kept
<1> QED BY <1>1, <1>11, <1>12, <1>13

(* What a pipeline that did not throw leaves: all of it is fresh.          *)
LEMMA PipelineFresh ==
    ASSUME TypeOK, NEW f \in Families, FamilyClean(f), NEW x, NEW y,
           Pipeline(f, ctl[f], After(f, ctl[f], x), x, y), y.ok
    PROVE  /\ IsFresh(f, y.c) /\ IdsAre(y.c)
           /\ y.c.lab = StatusAfter(Refreshes(ctl[f], x))
<1> DEFINE k == ctl[f]
           a == After(f, k, x)
           s == StatusAfter(Refreshes(k, x))
<1>1. Kept(f, a, s, y.c)
  BY PipelineKeeps
<1>2. /\ x.ok = TRUE /\ x.all = ~Usable(f) /\ x.all \in BOOLEAN /\ y.ok = TRUE
      /\ y.c.slackMe = x.c.slackMe /\ x.c.lab = cache[f].lab
  BY CachedTyped DEF Pipeline, SlackIdPost, StagesPost, WorkRecord
<1>3. /\ x.all \/ AnyOf(MatFlags, a) => MatIs(f, y.c)
      /\ x.all \/ AnyOf(SlackFlags, a) => SlackFilled(y.c)
      /\ x.all \/ AnyOf(InjFlags, a) => InjIs(f, y.c)
      /\ x.all \/ AnyOf(WeightFlags, a) => WtsIs(y.c)
  BY <1>2 DEF Pipeline, StagesPost
<1>4. a = k \/ (Refreshes(k, x) /\ k \subseteq a)
  BY AfterTyped DEF After
<1>5. AnyOf(LabelFlags, a) \/ x.all => y.c.lab = s
  BY <1>2 DEF Pipeline, StagesPost, Runs, AnyOf
<1>6. y.c.lab = s
  BY <1>5, LabelKept, FlagsNested DEF FamilyClean
<1>7. IdsAre(y.c)
  <2>0. Runs(Cached(f), k, SlackIdFlags) <=> x.all \/ AnyOf(SlackIdFlags, k)
    BY <1>2, CachedTyped DEF Runs
  <2>1. CASE x.all \/ AnyOf(SlackIdFlags, k)
    BY <1>2, <2>0, <2>1 DEF Pipeline, SlackIdPost, IdsAre
  <2>2. CASE ~(x.all \/ AnyOf(SlackIdFlags, k))
    <3>1. IdsAre(cache[f]) /\ x.c = cache[f]
      BY <1>2, <2>0, <2>2, CachedTyped DEF Pipeline, SlackIdPost, FamilyClean, IdsClean, Clean
    <3> QED BY <1>2, <3>1 DEF IdsAre
  <2> QED BY <2>1, <2>2
<1>8. LabCovers(y.c)
  <2>1. CASE Refreshes(k, x)
    <3>1. y.c.lab = LiveBuses
      BY <1>6, <2>1 DEF StatusAfter
    <3> QED BY <3>1, UsesLiveBuses DEF LabCovers
  <2>2. CASE ~Refreshes(k, x)
    BY <1>1, <1>2, <1>4, <2>2 DEF Kept, Refreshes, Runs, AnyOf
  <2> QED BY <2>1, <2>2
<1>9. MatIs(f, y.c) /\ InjIs(f, y.c) /\ WtsIs(y.c)
  BY <1>1, <1>3 DEF Kept
<1>10. SlackIs(y.c) /\ PvPqIs(y.c)
  BY <1>1, <1>3, <1>7, SlackFromIds DEF Kept
<1> QED BY <1>6, <1>7, <1>8, <1>9, <1>10 DEF IsFresh

-----------------------------------------------------------------------------
(* The steps, family by family.                                            *)

(* A step that announces what it changes, and touches no cache.  It may    *)
(* be the powerflow of the other family, which brings the status of the    *)
(* buses up to date and tells this one when that changes its dimension.    *)
StatusTold(f) ==
    \/ UNCHANGED busStatus
    \/ busStatus' = LiveBuses /\ (snap[f] # LiveBuses => "dimension" \in ctl'[f])

LEMMA LabelStays ==
    ASSUME NEW f \in Families, LabelClean(f), ctl[f] \subseteq ctl'[f], StatusTold(f),
           cache'[f].lab = cache[f].lab, snap'[f] = snap[f]
    PROVE  LabelClean(f)'
<1> SUFFICES ASSUME Untouched(f, RedoFlags)
             PROVE  cache[f].lab = snap[f] /\ busStatus' = snap[f]
  BY DEF LabelClean, Clean, Untouched
<1>1. Clean(f, RedoFlags)
  BY DEF Clean, Untouched, AnyOf
<1> QED BY <1>1 DEF LabelClean, StatusTold, Untouched, AnyOf, RedoFlags

(* The data of a cache that is not touched, when what changes is announced. *)
LEMMA AnnouncedKeepsData ==
    ASSUME NEW f \in Families, FamilyClean(f), Announced(f), UNCHANGED snMva,
           cache'[f] = cache[f]
    PROVE  /\ StatusClean(f)' /\ MatClean(f)' /\ IdsClean(f)'
           /\ SlackClean(f)' /\ InjClean(f)' /\ WtsClean(f)'
<1>1. \A flags : Untouched(f, flags) => Clean(f, flags)
  BY DEF Announced, Untouched, Clean, AnyOf
<1>2. \A flags : Clean(f, flags)' => Untouched(f, flags)
  BY DEF Clean, Untouched
<1>3. /\ Untouched(f, SlackFlags) => Untouched(f, SlackIdFlags)
      /\ Untouched(f, InjFlags) => Untouched(f, SlackFlags)
  BY FlagsNested DEF Untouched
<1>4. StatusClean(f)'
  BY <1>1, <1>2 DEF FamilyClean, StatusClean, Announced, LabCovers
<1>5. MatClean(f)'
  BY <1>1, <1>2 DEF FamilyClean, MatClean, Announced, MatIs
<1>6. IdsClean(f)'
  BY <1>1, <1>2 DEF FamilyClean, IdsClean, Announced, IdsAre
<1>7. SlackClean(f)'
  BY <1>1, <1>2, <1>3 DEF FamilyClean, SlackClean, Announced, SlackIs, PvPqIs, PqBuses
<1>8. InjClean(f)'
  BY <1>1, <1>2 DEF FamilyClean, InjClean, Announced, InjIs
<1>9. WtsClean(f)'
  BY <1>1, <1>2 DEF FamilyClean, WtsClean, Announced, WtsIs
<1> QED BY <1>4, <1>5, <1>6, <1>7, <1>8, <1>9

LEMMA AnnouncedKeepsClean ==
    ASSUME NEW f \in Families, FamilyClean(f), Announced(f), StatusTold(f), UNCHANGED snMva,
           cache'[f] = cache[f], snap'[f] = snap[f]
    PROVE  FamilyClean(f)'
<1>1. LabelClean(f)'
  BY LabelStays DEF Announced, FamilyClean
<1> QED BY <1>1, AnnouncedKeepsData DEF FamilyClean

(* A step that tells the family to redo everything.                        *)
LEMMA ResetKeepsClean ==
    ASSUME NEW f \in Families, "reset" \in ctl'[f]
    PROVE  FamilyClean(f)'
<1>1. \A flags : "reset" \in flags => ~Clean(f, flags)'
  BY DEF Clean, AnyOf
<1>2. /\ "reset" \in RedoFlags /\ "reset" \in StatusFlags /\ "reset" \in MatFlags
      /\ "reset" \in SlackIdFlags /\ "reset" \in SlackFlags /\ "reset" \in InjFlags
      /\ "reset" \in WeightFlags
  BY DEF RedoFlags, StatusFlags, MatFlags, SlackIdFlags, SlackFlags, InjFlags, WeightFlags,
         LabelFlags
<1> QED BY <1>1, <1>2 DEF FamilyClean, LabelClean, StatusClean, MatClean, IdsClean, SlackClean,
                          InjClean, WtsClean

(* The grid as the cache sees it only changes when an element does.        *)
LEMMA SameGrid ==
    ASSUME NEW f, UNCHANGED <<elements, forced>>
    PROVE  /\ UNCHANGED <<Matrix(f), Injections(f), SlackGens, SlackBuses, SlackIds(forced)>>
           /\ UNCHANGED <<SlackWeightsOf, PvBuses(SlackBuses), ControlBuses, FixedBuses, GenBuses>>
BY Reads DEF elements

LEMMA SameGridAnnounced ==
    ASSUME NEW f \in Families, UNCHANGED <<elements, forced>>, ctl[f] \subseteq ctl'[f]
    PROVE  Announced(f)
BY SameGrid DEF Announced

(* The family a pipeline ran for, its flags kept.                          *)
LEMMA KeptIsClean ==
    ASSUME NEW f \in Families, UNCHANGED <<elements, forced, snMva>>, snap'[f] = snap[f],
           Kept(f, ctl'[f], busStatus', cache'[f])
    PROVE  FamilyClean(f)'
<1>1. LabelClean(f)'
  BY DEF Kept, LabelClean, Clean
<1>2. StatusClean(f)'
  BY SameGrid DEF Kept, StatusClean, Clean, LabCovers
<1>3. MatClean(f)' /\ InjClean(f)' /\ WtsClean(f)'
  BY SameGrid DEF Kept, MatClean, InjClean, WtsClean, Clean, MatIs, InjIs, WtsIs
<1>4. IdsClean(f)' /\ SlackClean(f)'
  BY SameGrid DEF Kept, IdsClean, SlackClean, Clean, IdsAre, SlackIs, PvPqIs, PqBuses
<1> QED BY <1>1, <1>2, <1>3, <1>4 DEF FamilyClean

(* What a powerflow computed is current until the grid changes.            *)
LEMMA FreshStays ==
    ASSUME NEW f \in Families, UNCHANGED <<elements, forced, snMva>>,
           IsFresh(f, cache'[f]), IdsAre(cache'[f])
    PROVE  IsFresh(f, cache[f])' /\ IdsAre(cache[f])'
<1>1. LabCovers(cache[f])' /\ MatIs(f, cache[f])' /\ InjIs(f, cache[f])' /\ WtsIs(cache[f])'
  BY SameGrid DEF IsFresh, LabCovers, MatIs, InjIs, WtsIs
<1>2. IdsAre(cache[f])' /\ SlackIs(cache[f])' /\ PvPqIs(cache[f])'
  BY SameGrid DEF IsFresh, IdsAre, SlackIs, PvPqIs, PqBuses
<1> QED BY <1>1, <1>2 DEF IsFresh

(* The family a powerflow ran for, its flags dropped.                      *)
LEMMA FreshIsClean ==
    ASSUME NEW f \in Families, IsFresh(f, cache[f])', IdsAre(cache[f])',
           snap'[f] = busStatus', cache'[f].lab = busStatus'
    PROVE  FamilyClean(f)'
BY DEF FamilyClean, LabelClean, StatusClean, MatClean, IdsClean, SlackClean, InjClean, WtsClean,
       IsFresh

(* The step of another family.                                             *)
LEMMA OtherFamilyClean ==
    ASSUME TypeOK, NEW f \in Families, FamilyClean(f), NEW refresh,
           UNCHANGED <<elements, forced, snMva>>, busStatus' = StatusAfter(refresh),
           cache'[f] = cache[f], snap'[f] = snap[f], ctl'[f] = CtlAfter(refresh)[f]
    PROVE  FamilyClean(f)'
<1>1. ctl[f] \subseteq ctl'[f] /\ (refresh /\ snap[f] # LiveBuses => "dimension" \in ctl'[f])
  BY AfterTyped
<1>2. StatusTold(f)
  BY <1>1 DEF StatusTold, StatusAfter
<1> QED BY <1>1, <1>2, SameGridAnnounced, AnnouncedKeepsClean

LEMMA PowerFlowClean ==
    ASSUME TypeOK, FlagsSuffice, NEW f \in Families, PowerFlow(f)
    PROVE  FlagsSuffice' /\ AnswerIsCurrent'
<1> DEFINE y == PfPrepared(f)
           refresh == PfRefresh(f)
<1>0. /\ UNCHANGED <<elements, forced, snMva>>
      /\ cache' = [cache EXCEPT ![f] = y.c]
      /\ busStatus' = StatusAfter(refresh)
  BY PowerFlowEnds DEF PfThrows, PfAlgorithmThrows, PfDiverges, PfResultsThrow, PfConverges,
         Converging, Preparing
<1>1. \/ last' = "none" /\ KeepFlags(refresh)
      \/ (last' = "none" \/ last' = f) /\ MarkValid(f, refresh) /\ y.ok
  BY PowerFlowEnds DEF PfThrows, PfAlgorithmThrows, PfDiverges, PfResultsThrow, PfConverges,
         Converging, Telling
<1>2. Pipeline(f, ctl[f], After(f, ctl[f], PfIds(f)), PfIds(f), y) /\ FamilyClean(f)
  BY PreparedTyped DEF Pipeline, PfFlags, PfRefresh, After, FlagsSuffice
<1>3. After(f, ctl[f], PfIds(f)) = CtlAfter(refresh)[f] /\ refresh = Refreshes(ctl[f], PfIds(f))
  BY DEF After, PfRefresh
<1>4. cache'[f] = y.c /\ \A g \in Families \ {f} : cache'[g] = cache[g]
  BY <1>0 DEF TypeOK
<1>5. ASSUME NEW g \in Families \ {f}
      PROVE  FamilyClean(g)'
  <2>1. snap'[g] = snap[g] /\ ctl'[g] = CtlAfter(refresh)[g]
    BY <1>1, AfterTyped DEF KeepFlags, MarkValid, TypeOK
  <2>2. FamilyClean(g)
    BY DEF FlagsSuffice
  <2> HIDE DEF y, refresh
  <2> QED BY <1>0, <1>4, <2>1, <2>2, OtherFamilyClean
<1>6. KeepFlags(refresh) => FamilyClean(f)'
  <2>0. KeepFlags(refresh) => ctl'[f] = CtlAfter(refresh)[f] /\ snap'[f] = snap[f]
    BY DEF KeepFlags
  <2>1. Kept(f, CtlAfter(refresh)[f], StatusAfter(refresh), y.c)
    BY <1>2, <1>3, PipelineKeeps
  <2> HIDE DEF y, refresh
  <2> QED BY <1>0, <1>4, <2>0, <2>1, KeptIsClean
<1>7. y.ok => IsFresh(f, y.c) /\ IdsAre(y.c) /\ y.c.lab = StatusAfter(refresh)
  BY <1>2, <1>3, PipelineFresh
<1>8. y.ok => IsFresh(f, cache[f])' /\ IdsAre(cache[f])' /\ cache'[f].lab = busStatus'
  <2> HIDE DEF y, refresh
  <2> QED BY <1>0, <1>4, <1>7, FreshStays
<1>9. MarkValid(f, refresh) /\ y.ok => FamilyClean(f)'
  <2>1. MarkValid(f, refresh) => KeepFlags(refresh) \/ snap'[f] = StatusAfter(refresh)
    BY DEF MarkValid, TypeOK
  <2> HIDE DEF y, refresh
  <2> QED BY <1>0, <1>6, <1>8, <2>1, FreshIsClean
<1>10. FlagsSuffice'
  BY <1>1, <1>5, <1>6, <1>9 DEF FlagsSuffice
<1>11. AnswerIsCurrent'
  BY <1>1, <1>8, ElementsAssumption DEF AnswerIsCurrent
<1> QED BY <1>10, <1>11

LEMMA CheckSolutionClean ==
    ASSUME TypeOK, FlagsSuffice, CheckSolution
    PROVE  FlagsSuffice'
<1> DEFINE y == CheckPrepared
           refresh == CheckRefresh
<1>0. /\ "AC" \in Families
      /\ UNCHANGED <<elements, snap, forced, snMva>>
      /\ cache' = [cache EXCEPT !["AC"] = y.c]
      /\ busStatus' = StatusAfter(refresh)
      /\ ctl' = CtlAfter(refresh)
  BY DEF CheckSolution
<1>1. FamilyClean("AC")
  BY <1>0 DEF FlagsSuffice
<1>2. Pipeline("AC", CheckFlags, CheckFlags, CheckIds, y)
  <2>1. Usable("AC") => CheckFlags = {}
    BY FS_EmptySet DEF Usable, CheckFlags, NoneChanged
  <2> QED BY <1>0, <2>1, CheckTyped DEF Pipeline, CheckRefresh
<1>3. Kept("AC", CtlAfter(refresh)["AC"], StatusAfter(refresh), y.c)
  BY <1>0, <1>1, <1>2, PipelineKeeps DEF After, CheckRefresh
<1>4. cache'["AC"] = y.c /\ \A g \in Families \ {"AC"} : cache'[g] = cache[g]
  BY <1>0 DEF TypeOK
<1>5. ASSUME NEW g \in Families \ {"AC"}
      PROVE  FamilyClean(g)'
  <2>1. FamilyClean(g)
    BY DEF FlagsSuffice
  <2> HIDE DEF y, refresh
  <2> QED BY <1>0, <1>4, <2>1, OtherFamilyClean
<1>6. FamilyClean("AC")'
  <2> HIDE DEF y, refresh
  <2> QED BY <1>0, <1>3, <1>4, KeptIsClean
<1> QED BY <1>5, <1>6 DEF FlagsSuffice

(* The matrix and the live buses do not depend on the slack weights.       *)
LEMMA AssignSlackClean ==
    ASSUME TypeOK, FlagsSuffice, AssignSlack
    PROVE  FlagsSuffice'
<1> SUFFICES ASSUME NEW f \in Families PROVE FamilyClean(f)'
  BY DEF FlagsSuffice
<1>1. /\ ctl[f] \subseteq ctl'[f] /\ "slack_part" \in ctl'[f]
      /\ UNCHANGED <<load, branch, shunt, busStatus, snap, forced, snMva>>
  BY DEF AssignSlack, Raise, RaiseFor
<1>2. /\ cache'[f].lab = cache[f].lab /\ cache'[f].mat = cache[f].mat
  BY DEF AssignSlack, ForgetSlack, TypeOK, CacheRecord
<1>3. SameBuses
  BY DEF AssignSlack, MoveSlack, TypeOK, ElementsTypeOK, GenRecord, SameBuses
<1>4. UNCHANGED <<Matrix(f), FixedBuses, GenBuses>>
  BY <1>1, <1>3, Reads, GenReads
<1>5. \A flags : Clean(f, flags)' => Clean(f, flags)
  BY <1>1 DEF Clean, AnyOf
<1>6. \A flags : "slack_part" \in flags => ~Clean(f, flags)'
  BY <1>1 DEF Clean, AnyOf
<1>7. FamilyClean(f)
  BY DEF FlagsSuffice
<1>8. LabelClean(f)' /\ StatusClean(f)' /\ MatClean(f)'
  BY <1>1, <1>2, <1>4, <1>5, <1>7
     DEF FamilyClean, LabelClean, StatusClean, MatClean, LabCovers, MatIs
<1>9. IdsClean(f)' /\ SlackClean(f)' /\ InjClean(f)' /\ WtsClean(f)'
  BY <1>6, FlagsOf DEF IdsClean, SlackClean, InjClean, WtsClean
<1> QED BY <1>8, <1>9 DEF FamilyClean

(* The reference of the angles is part of what "slack_part" announces.     *)
LEMMA SetReferenceAnnounced ==
    ASSUME NEW b, NEW f \in Families, SetReferenceSlackBus(b)
    PROVE  Announced(f)
<1>1. ctl[f] \subseteq ctl'[f] /\ "slack_part" \in ctl'[f] /\ UNCHANGED elements
  BY DEF SetReferenceSlackBus, Raise, RaiseFor
<1>2. ~Untouched(f, SlackIdFlags)
  BY <1>1, FlagsOf DEF Untouched, AnyOf
<1> QED BY <1>1, <1>2, Reads DEF Announced, elements

-----------------------------------------------------------------------------
(* The invariant: types, statuses, flags that suffice, answers that are    *)
(* current.                                                                *)
CacheInvariant == Typed /\ FlagsSuffice /\ AnswerIsCurrent

LEMMA InitClean == Init => FlagsSuffice /\ AnswerIsCurrent
<1> SUFFICES ASSUME Init PROVE FlagsSuffice /\ AnswerIsCurrent
  OBVIOUS
<1>1. \A f \in Families : ctl[f] = Flags
  BY DEF Init, AllChanged
<1>2. /\ RedoFlags \cap Flags # {} /\ StatusFlags \cap Flags # {} /\ MatFlags \cap Flags # {}
      /\ SlackIdFlags \cap Flags # {} /\ SlackFlags \cap Flags # {} /\ InjFlags \cap Flags # {}
      /\ WeightFlags \cap Flags # {}
  BY DEF Flags, RedoFlags, StatusFlags, MatFlags, SlackIdFlags, SlackFlags, InjFlags, WeightFlags,
         LabelFlags
<1>3. FlagsSuffice
  BY <1>1, <1>2 DEF FlagsSuffice, FamilyClean, LabelClean, StatusClean, MatClean, IdsClean,
                    SlackClean, InjClean, WtsClean, Clean, AnyOf
<1>4. AnswerIsCurrent
  BY ElementsAssumption DEF Init, AnswerIsCurrent
<1> QED BY <1>3, <1>4

(* Every step but a powerflow takes the answer back.                       *)
LEMMA NoAnswer == last' = "none" => AnswerIsCurrent'
BY ElementsAssumption DEF AnswerIsCurrent

LEMMA NextClean ==
    ASSUME SoundClient
    PROVE  CacheInvariant /\ [Next]_vars => CacheInvariant'
<1> SUFFICES ASSUME CacheInvariant, [Next]_vars PROVE FlagsSuffice' /\ AnswerIsCurrent'
  BY NextTyped DEF CacheInvariant
<1> /\ TypeOK /\ StatusConsistent /\ FlagsSuffice /\ AnswerIsCurrent
    /\ ElementsTypeOK /\ ElementsTypeOK'
    /\ \A f \in Families : FamilyClean(f)
  BY NextTyped DEF CacheInvariant, Typed, TypeOK, FlagsSuffice
<1>1. CASE Modify
  <2>1. \A f \in Families : Announced(f)
    BY <1>1, ElementAnnounced DEF Modify
  <2>2. UNCHANGED <<cache, busStatus, snap, snMva>> /\ last' = "none"
    BY <1>1 DEF Modify
  <2> QED BY <2>1, <2>2, NoAnswer, AnnouncedKeepsClean DEF StatusTold, FlagsSuffice
<1>2. ASSUME NEW f \in Families, PowerFlow(f)
      PROVE  FlagsSuffice' /\ AnswerIsCurrent'
  BY <1>2, PowerFlowClean
<1>3. CASE CheckSolution
  BY <1>3, CheckSolutionClean, NoAnswer DEF CheckSolution
(* What changes no element and drops no flag.                              *)
<1>4. ASSUME \/ \E f \in Families, allowed \in BOOLEAN : AllowCacheReuse(f, allowed)
             \/ \E flag \in {"ybus", "sbus", "sparsity"} : TellChanged(flag)
      PROVE  FlagsSuffice' /\ AnswerIsCurrent'
  <2>1. /\ UNCHANGED <<elements, forced, cache, busStatus, snap, snMva>> /\ last' = "none"
        /\ \A f \in Families : ctl[f] \subseteq ctl'[f]
    BY <1>4 DEF AllowCacheReuse, TellChanged, Raise, RaiseFor
  <2> QED BY <2>1, NoAnswer, SameGridAnnounced, AnnouncedKeepsClean DEF StatusTold, FlagsSuffice
<1>5. ASSUME NEW f \in Families, PreventReuse(f) \/ \E same \in BOOLEAN : ChangeAlgorithm(f, same)
      PROVE  FlagsSuffice' /\ AnswerIsCurrent'
  <2>1. /\ UNCHANGED <<elements, forced, cache, busStatus, snMva>> /\ last' = "none"
        /\ "reset" \in ctl'[f]
        /\ \A g \in Families \ {f} : ctl[g] \subseteq ctl'[g] /\ snap'[g] = snap[g]
    BY <1>5 DEF PreventReuse, PreventCacheReuse, ChangeAlgorithm, AllChanged, Flags, TypeOK
  <2>2. FamilyClean(f)'
    BY <2>1, ResetKeepsClean
  <2>3. \A g \in Families \ {f} : FamilyClean(g)'
    BY <2>1, SameGridAnnounced, AnnouncedKeepsClean DEF StatusTold
  <2> QED BY <2>1, <2>2, <2>3, NoAnswer DEF FlagsSuffice
<1>6. ASSUME CopyGrid \/ \E base \in Bases : SetSnMva(base)
      PROVE  FlagsSuffice' /\ AnswerIsCurrent'
  <2>1. last' = "none" /\ \A f \in Families : "reset" \in ctl'[f]
    BY <1>6 DEF CopyGrid, SetSnMva, PreventCacheReuse, AllChanged, Flags
  <2> QED BY <2>1, NoAnswer, ResetKeepsClean DEF FlagsSuffice
<1>7. ASSUME NEW b, SetReferenceSlackBus(b)
      PROVE  FlagsSuffice' /\ AnswerIsCurrent'
  <2>1. UNCHANGED <<cache, busStatus, snap, snMva>> /\ last' = "none"
    BY <1>7 DEF SetReferenceSlackBus
  <2> QED BY <1>7, <2>1, NoAnswer, SetReferenceAnnounced, AnnouncedKeepsClean
          DEF StatusTold, FlagsSuffice
<1>8. CASE AssignSlack
  BY <1>8, AssignSlackClean, NoAnswer DEF AssignSlack
<1>9. ~UnsetChanges /\ ~AssignNoSlack /\ \A b \in Buses : ~DeactivateBus(b) /\ ~ReactivateBus(b)
  BY DEF SoundClient, Calling, UnsetChanges, AssignNoSlack, DeactivateBus, ReactivateBus
<1>10. CASE UNCHANGED vars
  <2>1. /\ UNCHANGED <<elements, forced, cache, busStatus, snap, snMva, last>>
        /\ UNCHANGED ctl
    BY <1>10 DEF vars, solver
  <2>2. FlagsSuffice'
    BY <2>1, SameGridAnnounced, AnnouncedKeepsClean DEF StatusTold, FlagsSuffice
  <2>3. AnswerIsCurrent'
    BY <2>1, SameGrid
       DEF AnswerIsCurrent, IsFresh, LabCovers, MatIs, InjIs, WtsIs, SlackIs, PvPqIs, PqBuses
  <2> QED BY <2>2, <2>3
<1> QED BY <1>1, <1>2, <1>3, <1>4, <1>5, <1>6, <1>7, <1>8, <1>9, <1>10 DEF Next

(* The change flags always say enough: for every grid, and every client    *)
(* that stays away from the calls that raise too few of them, whatever no  *)
(* flag asks to rebuild is what a rebuild would give.                      *)
THEOREM FlagsAlwaysSuffice ==
    ASSUME SoundClient
    PROVE  Spec => []FlagsSuffice
<1>1. Init => CacheInvariant
  BY InitTyped, InitClean DEF CacheInvariant
<1>2. CacheInvariant /\ [Next]_vars => CacheInvariant'
  BY NextClean
<1>3. CacheInvariant => FlagsSuffice
  BY DEF CacheInvariant
<1> QED BY <1>1, <1>2, <1>3, PTL DEF Spec

(* Every powerflow that returns results answers for the grid as it is,     *)
(* however much of its cache it has reused.                                *)
THEOREM AnswersAreCurrent ==
    ASSUME SoundClient
    PROVE  Spec => []AnswerIsCurrent
<1>1. Init => CacheInvariant
  BY InitTyped, InitClean DEF CacheInvariant
<1>2. CacheInvariant /\ [Next]_vars => CacheInvariant'
  BY NextClean
<1>3. CacheInvariant => AnswerIsCurrent
  BY DEF CacheInvariant
<1> QED BY <1>1, <1>2, <1>3, PTL DEF Spec

-----------------------------------------------------------------------------
(* Steps: the refinement, and what a failure leaves.                       *)

Converges(f) == PfConverges(f, PfRefresh(f), PfPrepared(f))

(* A powerflow that converges solves the picture of the grid.              *)
LEMMA ConvergesSolves ==
    ASSUME CacheInvariant, NEW f \in Families, Converges(f)
    PROVE  Promise!Solve(f)
<1>1. UNCHANGED <<elements, forced, snMva>> /\ last' = f
  BY DEF Converges, PfConverges, Converging, Preparing
<1>2. IsFresh(f, cache[f])'
  BY <1>1, PowerFlowClean DEF Converges, PowerFlow, CacheInvariant, Typed, AnswerIsCurrent
<1>3. SolvedOf(f)' = PictureOf(f)'
  BY <1>2 DEF IsFresh, MatIs, InjIs, SlackIs, PvPqIs, WtsIs, SolvedOf, PictureOf
<1>4. \A g \in Families : PictureOf(g)' = PictureOf(g)
  BY <1>1, SameGrid DEF PictureOf
<1>5. {[family |-> g, solved |-> SolvedOf(g)'] : g \in {h \in Families : last' = h}}
          = {[family |-> f, solved |-> SolvedOf(f)']}
  BY <1>1
<1> QED BY <1>3, <1>4, <1>5 DEF Promise!Solve

(* LSGrid implements PowerflowPromise: a client cannot tell the cache is   *)
(* there.                                                                  *)
THEOREM PromiseKept ==
    ASSUME SoundClient
    PROVE  Spec => KeepsPromise
<1>1. Init => CacheInvariant
  BY InitTyped, InitClean DEF CacheInvariant
<1>2. CacheInvariant /\ [Next]_vars => CacheInvariant'
  BY NextClean
<1>3. Init => Promise!Init
  BY ElementsAssumption DEF Init, Promise!Init
<1> DEFINE picture == [f \in Families |-> PictureOf(f)]
           answer  == {[family |-> f, solved |-> SolvedOf(f)] : f \in {g \in Families : last = g}}
<1>4. CacheInvariant /\ [Next]_vars => [Promise!Next]_<<picture, answer>>
  <2> SUFFICES ASSUME CacheInvariant, [Next]_vars
               PROVE  Promise!Next \/ UNCHANGED <<picture, answer>>
    OBVIOUS
  <2>1. last' = "none" => Promise!Change
    BY ElementsAssumption DEF Promise!Change
  <2>2. ASSUME NEW f \in Families, PowerFlow(f)
        PROVE  last' = "none" \/ Converges(f)
    BY <2>2, PowerFlowEnds DEF PfThrows, PfAlgorithmThrows, PfDiverges, PfResultsThrow, Converges
  <2>3. CASE \E f \in Families : Converges(f)
    BY <2>3, ConvergesSolves DEF Promise!Next
  <2>4. CASE UNCHANGED vars
    <3>1. UNCHANGED <<elements, forced, snMva, cache, last>>
      BY <2>4 DEF vars, solver
    <3>2. \A f \in Families : PictureOf(f)' = PictureOf(f) /\ SolvedOf(f)' = SolvedOf(f)
      BY <3>1, SameGrid DEF PictureOf, SolvedOf
    <3> QED BY <3>1, <3>2
  <2>5. CASE Next /\ ~\E f \in Families : Converges(f)
    <3>1. last' = "none"
      BY <2>2, <2>5 DEF Next, Modify, CheckSolution, AllowCacheReuse, PreventReuse,
         PreventCacheReuse, UnsetChanges, TellChanged, ChangeAlgorithm, SetSnMva,
         SetReferenceSlackBus, AssignSlack, AssignNoSlack, DeactivateBus, ReactivateBus,
         SetBusStatus, CopyGrid
    <3> QED BY <2>1, <3>1 DEF Promise!Next
  <2> QED BY <2>3, <2>4, <2>5
<1> QED BY <1>1, <1>2, <1>3, <1>4, PTL DEF Spec, KeepsPromise, Promise!Spec

FlagsKept == \A f \in Families :
                ~(ctl[f] \subseteq ctl'[f]) => Solved(f) /\ ctl[f] \subseteq told'[f]

LEMMA PowerFlowKeepsFlags ==
    ASSUME TypeOK, NEW f \in Families, PowerFlow(f)
    PROVE  FlagsKept
<1>1. \A g \in Families : ctl[g] \subseteq CtlAfter(PfRefresh(f))[g]
  BY AfterTyped
<1>2. KeepFlags(PfRefresh(f)) => \A g \in Families : ctl[g] \subseteq ctl'[g]
  BY <1>1 DEF KeepFlags
<1>3. CASE MarkValid(f, PfRefresh(f)) /\ Telling(f, PfRefresh(f), PfPrepared(f)) /\ (last' = f \/ needsRebuild'[f])
  <2>1. \A g \in Families \ {f} : ctl[g] \subseteq ctl'[g]
    BY <1>1, <1>2, <1>3, AfterTyped DEF MarkValid
  <2>2. ctl[f] \subseteq told'[f]
    BY <1>1, <1>3, TellTyped, AfterTyped DEF Telling, TypeOK, PfFlags
  <2> QED BY <1>3, <2>1, <2>2 DEF FlagsKept, Solved
<1>4. KeepFlags(PfRefresh(f)) \/ (MarkValid(f, PfRefresh(f)) /\ Telling(f, PfRefresh(f), PfPrepared(f)) /\ (last' = f \/ needsRebuild'[f]))
  BY PowerFlowEnds DEF PfThrows, PfAlgorithmThrows, PfDiverges, PfResultsThrow, PfConverges,
         Converging, TypeOK
<1> QED BY <1>2, <1>3, <1>4 DEF FlagsKept

LEMMA NextKeepsFlags ==
    ASSUME SoundClient, Typed, Next
    PROVE  FlagsKept
<1>0. (\A f \in Families : ctl[f] \subseteq ctl'[f]) => FlagsKept
  BY DEF FlagsKept
<1> TypeOK /\ StatusConsistent /\ ElementsTypeOK /\ ElementsTypeOK'
  BY NextTyped DEF Typed, TypeOK
<1>1. CASE Modify
  <2>1. \A f \in Families : Announced(f)
    BY <1>1, ElementAnnounced DEF Modify
  <2> QED BY <1>0, <2>1 DEF Announced
<1>2. ASSUME NEW f \in Families, PowerFlow(f)
      PROVE  FlagsKept
  BY <1>2, PowerFlowKeepsFlags
<1>3. CASE CheckSolution
  BY <1>0, <1>3, AfterTyped DEF CheckSolution
<1>4. ASSUME NEW f \in Families,
             \/ PreventReuse(f)
             \/ \E same \in BOOLEAN : ChangeAlgorithm(f, same)
             \/ \E allowed \in BOOLEAN : AllowCacheReuse(f, allowed)
      PROVE  FlagsKept
  BY <1>0, <1>4 DEF PreventReuse, PreventCacheReuse, ChangeAlgorithm, AllowCacheReuse, AllChanged,
                    TypeOK
<1>5. ASSUME \/ \E flag \in {"ybus", "sbus", "sparsity"} : TellChanged(flag)
             \/ \E b \in Buses \cup {NoBus} : SetReferenceSlackBus(b)
             \/ AssignSlack
      PROVE  FlagsKept
  BY <1>0, <1>5 DEF TellChanged, SetReferenceSlackBus, AssignSlack, Raise, RaiseFor
<1>6. ASSUME CopyGrid \/ \E base \in Bases : SetSnMva(base)
      PROVE  FlagsKept
  BY <1>0, <1>6 DEF CopyGrid, SetSnMva, PreventCacheReuse, AllChanged, TypeOK
<1>7. ~UnsetChanges /\ ~AssignNoSlack /\ \A b \in Buses : ~DeactivateBus(b) /\ ~ReactivateBus(b)
  BY DEF SoundClient, Calling, UnsetChanges, AssignNoSlack, DeactivateBus, ReactivateBus
<1> QED BY <1>1, <1>2, <1>3, <1>4, <1>5, <1>6, <1>7 DEF Next

(* A failed powerflow, or any call between two powerflows, drops no flag:  *)
(* only a powerflow the algorithm has answered does, and the algorithm was *)
(* handed each of them.                                                    *)
THEOREM FailuresKeepFlags ==
    ASSUME SoundClient
    PROVE  Spec => FlagsOutliveFailures
<1>1. Typed /\ Typed' /\ [Next]_vars => [FlagsKept]_vars
  BY NextKeepsFlags
<1> QED BY <1>1, InitTyped, NextTyped, PTL DEF Spec, FlagsOutliveFailures, FlagsKept

-----------------------------------------------------------------------------
(* What the algorithms are told.                                           *)

(* A full rebuild that throws has either looked for a slack or a voltage   *)
(* target at a bus out of service, or found no slack and left the cache as *)
(* it was.                                                                 *)
LEMMA FullRebuildThrows ==
    ASSUME TypeOK, NEW f \in Families, ~Usable(f),
           SlackBuses \cup TargetBuses \subseteq LiveBuses, ~PfPrepared(f).ok
    PROVE  PfPrepared(f).c = cache[f]
<1> DEFINE x == PfIds(f)
           y == PfPrepared(f)
           s == StatusAfter(PfRefresh(f))
           r == PfFlags(f)
<1>1. /\ x \in WorkRecord /\ SlackIdPost(ctl[f], Cached(f), x)
      /\ StagesPost(f, r, s, x, y) /\ s \in SUBSET Buses
      /\ y = Stages(f, r, s, TRUE, x) /\ PfRefresh(f) = Refreshes(ctl[f], x)
  BY PreparedTyped, AfterTyped DEF PfPrepared, PfRefresh
<1> HIDE DEF x, y, s, r
<1>2. /\ Cached(f).c = cache[f] /\ Cached(f).all = TRUE /\ Cached(f).ok
  BY CachedTyped
<1>3. x.all = TRUE /\ (~x.ok => x.c = cache[f])
  BY <1>1, <1>2 DEF SlackIdPost
<1>4. CASE ~x.ok
  BY <1>1, <1>3, <1>4 DEF StagesPost, y
<1>5. CASE x.ok
  <2>1. s = LiveBuses
    BY <1>1, <1>3, <1>5 DEF s, StatusAfter, Refreshes, Runs
  <2>2. LabelledBy(r, s, x) = LiveBuses
    BY <1>1, <1>3, <1>5, <2>1, LabelStageDoes DEF LabelledBy, LabelPost, Runs
  <2>3. IdsAre(x.c)
    BY <1>1, <1>2, <1>5 DEF SlackIdPost, Runs
  <2>4. x.c.slackMe.buses \subseteq LiveBuses
    BY <2>3 DEF IdsAre, SlackIds
  <2>5. HoldsUsed(f, x, LabelledBy(r, s, x))
    BY <2>2, <2>4, UsesLiveBuses DEF HoldsUsed
  <2>6. y.ok
    BY <1>1, <1>5, <2>2, <2>5, StagesSucceed
  <2> QED BY <2>6 DEF y
<1> QED BY <1>4, <1>5

(* Whether a cache is usable is read from the cache and its switch.        *)
LEMMA UsableKept ==
    ASSUME NEW f, cache'[f] = cache[f], allow'[f] = allow[f]
    PROVE  Usable(f)' = Usable(f)
BY DEF Usable

LEMMA RememberedBy ==
    ASSUME NEW f, cache'[f] = cache[f], allow'[f] = allow[f], ctl[f] \subseteq ctl'[f],
           needsRebuild'[f] = needsRebuild[f], ready'[f] = ready[f]
    PROVE  Remembers(f)
BY UsableKept DEF Remembers, Forgotten

LEMMA PowerFlowRemembers ==
    ASSUME TypeOK, NEW g \in Families, NEW f \in Families, PowerFlow(g)
    PROVE  Remembers(f)
<1> DEFINE x == PfPrepared(g)
           refresh == PfRefresh(g)
<1>1. Preparing(g, refresh, x)
  BY PowerFlowEnds DEF PfThrows, PfAlgorithmThrows, PfDiverges, PfResultsThrow, PfConverges,
                       Converging
<1>2. ctl[f] \subseteq CtlAfter(refresh)[f]
  BY AfterTyped
<1>3. CASE f # g
  <2>1. cache'[f] = cache[f] /\ allow'[f] = allow[f]
    BY <1>1, <1>3 DEF Preparing, TypeOK
  <2>2. needsRebuild'[f] = needsRebuild[f] /\ ready'[f] = ready[f]
    BY <1>3, PowerFlowEnds
       DEF PfThrows, PfAlgorithmThrows, PfDiverges, PfResultsThrow, PfConverges, Converging, TypeOK
  <2>3. ctl[f] \subseteq ctl'[f]
    BY <1>2, <1>3, PowerFlowEnds, AfterTyped
       DEF PfThrows, PfAlgorithmThrows, PfDiverges, PfResultsThrow, PfConverges, KeepFlags,
           MarkValid
  <2> QED BY <2>1, <2>2, <2>3, RememberedBy
<1>4. CASE f = g
  <2>1. CASE PfDiverges(f, refresh, x) \/ PfResultsThrow(f, refresh, x)
             \/ PfConverges(f, refresh, x)
    BY <2>1 DEF PfDiverges, PfResultsThrow, PfConverges, Converging, Remembers, Forgotten, TypeOK
  <2>2. CASE PfThrows(f, refresh, x) \/ PfAlgorithmThrows(f, refresh, x)
    <3>1. /\ ctl[f] \subseteq ctl'[f] /\ needsRebuild'[f] = needsRebuild[f]
          /\ ready'[f] = ReadyAfter(f, ctl[f])
      BY <1>2, <1>4, <2>2 DEF PfThrows, PfAlgorithmThrows, KeepFlags, TypeOK
    <3>2. CASE Usable(f)
      BY <3>1, <3>2 DEF ReadyAfter, Resets, Remembers, Forgotten
    <3>3. CASE ~Usable(f) /\ PfThrows(f, refresh, x)
               /\ SlackBuses \cup TargetBuses \subseteq LiveBuses
      <4>1. x.c = cache[f]
        BY <1>4, <3>3, FullRebuildThrows DEF PfThrows
      <4>2. cache'[f] = cache[f] /\ allow'[f] = allow[f]
        BY <1>1, <1>4, <4>1 DEF Preparing, TypeOK
      <4>3. ~Usable(f)'
        BY <3>3, <4>2, UsableKept
      <4> QED BY <4>3 DEF Remembers, Forgotten
    <3> QED BY <1>4, <2>2, <3>2, <3>3 DEF Remembers, Forgetting
  <2> QED BY <1>4, <2>1, <2>2, PowerFlowEnds
<1> QED BY <1>3, <1>4

(* A cache whose weights are forgotten is not usable.                      *)
LEMMA ForgetSlackRemembers ==
    ASSUME TypeOK, NEW f \in Families, ForgetSlack
    PROVE  Remembers(f)
<1>1. cache'[f] = [cache[f] EXCEPT !.slack = [lab |-> {}, val |-> NoSlack],
                                    !.wts = [lab |-> {}, val |-> {}]]
  BY Zenon DEF ForgetSlack
<1>2. cache'[f].lab = cache[f].lab /\ cache'[f].wts.lab = {}
  <2>1. cache[f] \in CacheRecord
    BY DEF TypeOK
  <2>2. cache'[f].lab = cache[f].lab /\ cache'[f].wts = [lab |-> {}, val |-> {}]
    BY <1>1, <2>1 DEF CacheRecord
  <2> QED BY <2>2
<1>3. Cardinality({}) = 0
  BY FS_EmptySet
<1>4. ~Usable(f)'
  BY <1>2, <1>3 DEF Usable
<1> QED BY <1>4 DEF Remembers, Forgotten

(* No change of an element drops a flag, whoever the client is.            *)
LEMMA ElementsKeepFlags ==
    ASSUME ElementStep, NEW f \in Families
    PROVE  ctl[f] \subseteq ctl'[f]
<1>1. \A both, dcOnly : RaiseFor(both, dcOnly) => ctl[f] \subseteq ctl'[f]
  BY Raises
<1>2. CASE LoadStep
  BY <1>1, <1>2 DEF LoadStep, DeactivateLoad, ReactivateLoad, ChangeBusLoad, ChangePLoad,
                    SetLoad, Raise
<1>3. CASE GenStep
  <2>1. ASSUME NEW g, NEW record, NEW flags, SetGen(g, record, flags)
        PROVE  ctl[f] \subseteq ctl'[f]
    BY <1>1, <2>1 DEF SetGen, Raise
  <2>2. ASSUME NEW g \in Gens,
               \/ DeactivateGen(g) \/ ReactivateGen(g) \/ RemoveGenSlackbus(g)
               \/ \E w \in SlackWeights : AddGenSlackbus(g, w)
               \/ \E b \in Buses : ChangeBusGen(g, b) \/ SetGenRegulatedBus(g, b)
               \/ \E p \in Levels : ChangePGen(g, p)
        PROVE  ctl[f] \subseteq ctl'[f]
    <3>1. DeactivateGen(g) \/ ReactivateGen(g) \/ RemoveGenSlackbus(g) => \E r, s : SetGen(g, r, s)
      BY DEF DeactivateGen, ReactivateGen, RemoveGenSlackbus
    <3>2. \A w : AddGenSlackbus(g, w) => \E r, s : SetGen(g, r, s)
      BY DEF AddGenSlackbus
    <3>3. \A b : ChangeBusGen(g, b) \/ SetGenRegulatedBus(g, b) => \E r, s : SetGen(g, r, s)
      BY DEF ChangeBusGen, SetGenRegulatedBus
    <3>4. \A p : ChangePGen(g, p) => \E r, s : SetGen(g, r, s)
      BY DEF ChangePGen
    <3> QED BY <2>1, <2>2, <3>1, <3>2, <3>3, <3>4
  <2>3. ASSUME NEW isPv, TurnedoffPv(isPv)
        PROVE  ctl[f] \subseteq ctl'[f]
    BY <1>1, <2>3 DEF TurnedoffPv, Raise
  <2> QED BY <1>3, <2>2, <2>3 DEF GenStep
<1>4. CASE BranchStep
  <2>1. ASSUME NEW b, NEW record, NEW both, NEW dcOnly, SetBranch(b, record, both, dcOnly)
        PROVE  ctl[f] \subseteq ctl'[f]
    BY <1>1, <2>1 DEF SetBranch
  <2>2. ASSUME NEW b, DeactivateBranch(b) \/ ReactivateBranch(b)
        PROVE  ctl[f] \subseteq ctl'[f]
    BY <2>1, <2>2 DEF DeactivateBranch, ReactivateBranch
  <2>3. ASSUME NEW b, NEW k, DeactivateSide(b, k) \/ ReactivateSide(b, k)
        PROVE  ctl[f] \subseteq ctl'[f]
    BY <2>1, <2>3 DEF DeactivateSide, ReactivateSide
  <2>4. ASSUME NEW b, NEW k, NEW bus, ChangeBusSide(b, k, bus)
        PROVE  ctl[f] \subseteq ctl'[f]
    BY <2>1, <2>4 DEF ChangeBusSide
  <2>5. ASSUME NEW b, NEW x, ChangeRatioTrafo(b, x) \/ ChangeShiftTrafo(b, x)
        PROVE  ctl[f] \subseteq ctl'[f]
    BY <2>1, <2>5 DEF ChangeRatioTrafo, ChangeShiftTrafo
  <2> QED BY <1>4, <2>2, <2>3, <2>4, <2>5 DEF BranchStep
<1>5. CASE ShuntStep
  BY <1>1, <1>5 DEF ShuntStep, DeactivateShunt, ReactivateShunt, ChangeBusShunt, ChangePShunt,
                    ChangeQShunt, SetShunt, Raise
<1> QED BY <1>2, <1>3, <1>4, <1>5 DEF ElementStep

LEMMA NextRemembers ==
    ASSUME TypeOK, Next, NEW f \in Families
    PROVE  Remembers(f)
<1>1. CASE Modify
  <2>1. ctl[f] \subseteq ctl'[f]
    BY <1>1, ElementsKeepFlags DEF Modify
  <2> QED BY <1>1, <2>1, RememberedBy DEF Modify
<1>2. ASSUME NEW g \in Families, PowerFlow(g)
      PROVE  Remembers(f)
  BY <1>2, PowerFlowRemembers
<1>3. CASE CheckSolution
  <2>1. ctl[f] \subseteq ctl'[f]
    BY <1>3, AfterTyped DEF CheckSolution
  <2>2. CASE f # "AC"
    BY <1>3, <2>1, <2>2, RememberedBy DEF CheckSolution, TypeOK
  <2>3. CASE f = "AC" /\ ~Usable(f)
    BY <1>3, <2>3 DEF Remembers, Forgetting
  <2>4. CASE f = "AC" /\ Usable(f)
    <3>1. cache["AC"].lab # {}
      BY <2>4, FS_EmptySet DEF Usable
    <3>2. "reset" \notin CheckFlags
      BY <3>1 DEF CheckFlags, NoneChanged
    <3>3. ready'[f] = ready[f] /\ needsRebuild'[f] = needsRebuild[f]
      BY <1>3, <2>4, <3>2 DEF CheckSolution, ReadyAfter, Resets, TypeOK
    <3> QED BY <2>1, <2>4, <3>3 DEF Remembers, Forgotten
  <2> QED BY <2>2, <2>3, <2>4
<1>4. ASSUME NEW g \in Families, NEW allowed \in BOOLEAN, AllowCacheReuse(g, allowed)
      PROVE  Remembers(f)
  <2>1. CASE f # g
    BY <1>4, <2>1, RememberedBy DEF AllowCacheReuse, TypeOK
  <2>2. CASE f = g /\ allowed = TRUE
    BY <1>4, <2>2 DEF Remembers, Forgetting
  <2>3. CASE f = g /\ allowed = FALSE
    BY <1>4, <2>3 DEF AllowCacheReuse, TypeOK, Remembers, Forgotten, Usable
  <2> QED BY <2>1, <2>2, <2>3
<1>5. ASSUME \/ \E g \in Families : PreventReuse(g)
             \/ \E flag \in {"ybus", "sbus", "sparsity"} : TellChanged(flag)
             \/ \E base \in Bases : SetSnMva(base)
             \/ \E b \in Buses \cup {NoBus} : SetReferenceSlackBus(b)
             \/ \E b \in Buses : DeactivateBus(b) \/ ReactivateBus(b)
      PROVE  Remembers(f)
  <2>1. UNCHANGED <<cache, allow, needsRebuild, ready>> /\ ctl[f] \subseteq ctl'[f]
    BY <1>5 DEF PreventReuse, PreventCacheReuse, TellChanged, SetSnMva, SetReferenceSlackBus,
                DeactivateBus, ReactivateBus, SetBusStatus, Raise, RaiseFor
  <2> QED BY <2>1, RememberedBy
<1>6. CASE UnsetChanges
  BY <1>6 DEF Remembers, Forgetting
<1>7. ASSUME NEW g \in Families, NEW same \in BOOLEAN, ChangeAlgorithm(g, same)
      PROVE  Remembers(f)
  <2>1. CASE f = g
    BY <1>7, <2>1 DEF ChangeAlgorithm, AllChanged, Flags, TypeOK, Remembers, Forgotten
  <2>2. CASE f # g
    BY <1>7, <2>2, RememberedBy DEF ChangeAlgorithm, TypeOK
  <2> QED BY <2>1, <2>2
<1>8. CASE AssignSlack
  BY <1>8, ForgetSlackRemembers DEF AssignSlack
<1>9. CASE AssignNoSlack
  <2>1. CASE UNCHANGED cache
    BY <1>9, <2>1, RememberedBy DEF AssignNoSlack
  <2> QED BY <1>9, <2>1, ForgetSlackRemembers DEF AssignNoSlack
<1>10. CASE CopyGrid
  BY <1>10 DEF CopyGrid, AllChanged, Flags, Remembers, Forgotten
<1> QED BY <1>1, <1>2, <1>3, <1>4, <1>5, <1>6, <1>7, <1>8, <1>9, <1>10 DEF Next

(* The flags a powerflow that answers hands over hold those of its family, *)
(* and are all of them when its cache was unusable or its algorithm failed.*)
LEMMA NextTells ==
    ASSUME TypeOK, Next, NEW f \in Families, ~Forgotten(f)
    PROVE  Tells(f)
<1> SUFFICES ASSUME last' = f, ~ready[f] PROVE "reset" \in told'[f]
  BY DEF Tells
<1>1. f # "none"
  BY ElementsAssumption
<1>2. PICK g \in Families : PowerFlow(g)
  BY <1>1 DEF Next, Modify, CheckSolution, AllowCacheReuse, PreventReuse, PreventCacheReuse,
              UnsetChanges, TellChanged, ChangeAlgorithm, SetSnMva, SetReferenceSlackBus,
              AssignSlack, AssignNoSlack, DeactivateBus, ReactivateBus, SetBusStatus, CopyGrid
<1>3. PfConverges(f, PfRefresh(f), PfPrepared(f))
  BY <1>1, <1>2, PowerFlowEnds DEF PfThrows, PfAlgorithmThrows, PfDiverges, PfResultsThrow,
                                   PfConverges
<1>4. told'[f] = Tell(f, CtlAfter(PfRefresh(f))[f])
  BY <1>3 DEF PfConverges, Converging, Telling, TypeOK
<1>5. "reset" \in ctl[f] \/ needsRebuild[f] \/ ~Usable(f)
  BY DEF Forgotten
<1> QED BY <1>4, <1>5, AfterTyped DEF Tell, AllChanged, Flags

(* Whoever the client is, and however its calls and their failures         *)
(* interleave: an algorithm that lost its internals is told to rebuild     *)
(* before it answers, unless one of the five calls that drop the reset     *)
(* came in between.                                                        *)
THEOREM ResetAlwaysTold == Spec => ResetIsTold
<1>1. TypeOK /\ [Next]_vars =>
          [\A f \in Families : (~Forgotten(f) => Tells(f)) /\ Remembers(f)]_vars
  BY NextRemembers, NextTells
<1> QED BY <1>1, TypeCorrect, PTL DEF Spec, ResetIsTold

(* Then a client that makes none of the five is never answered by an       *)
(* algorithm that was not told.                                            *)
NothingForgotten == \A f \in Families : ~Forgotten(f)

THEOREM PatientClientIsTold ==
    Spec /\ [][\A f \in Families : ~Forgetting(f)]_vars
        => []NothingForgotten /\ [][\A f \in Families : Tells(f)]_vars
<1>1. Init => NothingForgotten
  BY DEF Init, NothingForgotten, Forgotten, AllChanged, Flags
<1>2. TypeOK /\ NothingForgotten /\ [Next]_vars /\ [\A f \in Families : ~Forgetting(f)]_vars
          => NothingForgotten'
  <2>1. ASSUME TypeOK, NothingForgotten, Next, \A f \in Families : ~Forgetting(f)
        PROVE  NothingForgotten'
    BY <2>1, NextRemembers DEF NothingForgotten, Remembers
  <2>2. ASSUME NothingForgotten, UNCHANGED vars
        PROVE  NothingForgotten'
    BY <2>2 DEF NothingForgotten, Forgotten, Usable, vars, solver
  <2> QED BY <2>1, <2>2
<1>3. TypeOK /\ NothingForgotten /\ [Next]_vars => [\A f \in Families : Tells(f)]_vars
  BY NextTells DEF NothingForgotten
<1> QED BY <1>1, <1>2, <1>3, TypeCorrect, PTL DEF Spec

-----------------------------------------------------------------------------
(* What the next powerflow would prepare.                                  *)

(* The pipeline of the next powerflow, as PipelineFresh takes it.          *)
LEMMA NextPipeline ==
    ASSUME TypeOK, NEW f \in Families
    PROVE  /\ Pipeline(f, ctl[f], After(f, ctl[f], PfIds(f)), PfIds(f), PfPrepared(f))
           /\ PfFlags(f) = After(f, ctl[f], PfIds(f))
           /\ PfRefresh(f) = Refreshes(ctl[f], PfIds(f))
BY PreparedTyped DEF Pipeline, PfFlags, PfRefresh, After

(* The guard on sizes does its work for every grid: what a powerflow hands *)
(* its algorithm has one size, however many buses went and came back       *)
(* between the failures before it.                                         *)
THEOREM SizesAlwaysAgree ==
    ASSUME SoundClient
    PROVE  Spec => []SizesAgree
<1>1. Init => CacheInvariant
  BY InitTyped, InitClean DEF CacheInvariant
<1>2. CacheInvariant /\ [Next]_vars => CacheInvariant'
  BY NextClean
<1>3. CacheInvariant => SizesAgree
  <2> SUFFICES ASSUME CacheInvariant, NEW f \in Families, PfPrepared(f).ok
               PROVE  SameSize(PfPrepared(f).c)
    BY DEF SizesAgree
  <2> DEFINE c == PfPrepared(f).c
  <2>1. TypeOK /\ FamilyClean(f)
    BY DEF CacheInvariant, Typed, FlagsSuffice
  <2>2. IsFresh(f, c)
    BY <2>1, NextPipeline, PipelineFresh
  <2> HIDE DEF c
  <2>3. /\ c.mat.lab = c.lab /\ c.inj.lab = c.lab /\ c.wts.lab = c.lab
        /\ c.slack.lab = c.lab /\ c.pvpq.lab = c.lab
    BY <2>2 DEF IsFresh, MatIs, InjIs, WtsIs, SlackIs, PvPqIs
  <2> QED BY <2>3 DEF SameSize, c
<1> QED BY <1>1, <1>2, <1>3, PTL DEF Spec

(* So does it for a client that drops flags, as long as it extends no      *)
(* pattern.                                                                *)

(* A powerflow redoes everything on the live buses, or labels nothing.     *)
RedoesOrKeeps(f, r, refresh, x) ==
    \/ x.all /\ (x.ok => refresh)
    \/ AnyOf(RedoFlags, r) /\ (x.ok => refresh)
    \/ ~x.all /\ ~AnyOf(LabelFlags, r) /\ x.c.lab = cache[f].lab

LEMMA StagesKeepSizes ==
    ASSUME TypeOK, NEW f \in Families, NEW r, NEW isPf, NEW refresh, NEW x \in WorkRecord,
           SizesFollow(cache[f]), x.all = ~Usable(f),
           /\ x.c.lab = cache[f].lab /\ x.c.slack = cache[f].slack /\ x.c.pvpq = cache[f].pvpq
           /\ x.c.mat = cache[f].mat /\ x.c.inj = cache[f].inj /\ x.c.wts = cache[f].wts,
           RedoesOrKeeps(f, r, refresh, x)
    PROVE  LET y == Stages(f, r, StatusAfter(refresh), isPf, x)
           IN SizesFollow(y.c) /\ (y.ok => SameSize(y.c))
<1> DEFINE s == StatusAfter(refresh)
           y == Stages(f, r, s, isPf, x)
<1>1. s \in SUBSET Buses
  BY AfterTyped
<1>2. StagesPost(f, r, s, x, y) /\ LabelsPost(f, r, s, x, y)
  BY <1>1, StagesDo, StagesLabel
<1>3. refresh => s = LiveBuses
  BY DEF StatusAfter
<1> SUFFICES SizesFollow(y.c) /\ (y.ok => SameSize(y.c))
  OBVIOUS
<1> HIDE DEF s, y
<1>4. CASE ~x.ok
  BY <1>2, <1>4 DEF StagesPost, SizesFollow
<1>5. CASE x.ok /\ (x.all \/ AnyOf(RedoFlags, r)) /\ refresh
  <2>1. Runs(x, r, LabelFlags) /\ HoldsBuses(f, s)
    BY <1>3, <1>5, FlagsNested, UsesLiveBuses DEF Runs, HoldsBuses
  <2>2. SizesFollow(y.c)
    BY <1>2, <2>1 DEF LabelsPost, SizesFollow
  <2>3. ASSUME y.ok
        PROVE  SameSize(y.c)
    <3>1. MatIs(f, y.c) /\ SlackFilled(y.c) /\ InjIs(f, y.c) /\ WtsIs(y.c)
      BY <1>2, <1>5, <2>3, FlagsNested DEF StagesPost
    <3> QED BY <3>1 DEF MatIs, SlackFilled, InjIs, WtsIs, SameSize
  <2> QED BY <2>2, <2>3
<1>6. CASE x.ok /\ ~x.all /\ ~AnyOf(LabelFlags, r)
  <2> DEFINE c == cache[f]
             n == Cardinality(c.lab)
  <2>1. /\ n # 0 /\ Cardinality(c.mat.lab) = n /\ Cardinality(c.inj.lab) = n
        /\ Cardinality(c.wts.lab) = n
    BY <1>6 DEF Usable
  <2>2. Cardinality(c.slack.lab) = n /\ Cardinality(c.pvpq.lab) = n
    BY <2>1, FS_EmptySet DEF SizesFollow
  <2>3. y.c.lab = c.lab
    BY <1>2, <1>6 DEF StagesPost, Runs
  <2> HIDE DEF c, n
  <2>4. /\ Cardinality(y.c.slack.lab) = n /\ Cardinality(y.c.pvpq.lab) = n
        /\ Cardinality(y.c.inj.lab) = n /\ Cardinality(y.c.lab) = n
    BY <1>2, <2>1, <2>2, <2>3 DEF LabelsPost, c, n
  <2>5. ASSUME y.ok
        PROVE  Cardinality(y.c.mat.lab) = n /\ Cardinality(y.c.wts.lab) = n
    BY <1>2, <1>6, <2>1, <2>4, <2>5 DEF StagesPost, MatIs, WtsIs, c
  <2> QED BY <2>4, <2>5 DEF SizesFollow, SameSize
<1> QED BY <1>4, <1>5, <1>6 DEF RedoesOrKeeps

LEMMA PreparedKeepsSizes ==
    ASSUME TypeOK, SizesGuarded, NEW f \in Families
    PROVE  SizesFollow(PfPrepared(f).c) /\ (PfPrepared(f).ok => SameSize(PfPrepared(f).c))
<1> DEFINE x == PfIds(f)
           r == PfFlags(f)
           refresh == PfRefresh(f)
<1>1. SizesFollow(cache[f]) /\ ("sparsity" \in ctl[f] => AnyOf(RedoFlags, ctl[f]))
  BY DEF SizesGuarded, SparsityRedone
<1>2. /\ x \in WorkRecord /\ x.all = ~Usable(f)
      /\ x.c.lab = cache[f].lab /\ x.c.slack = cache[f].slack /\ x.c.pvpq = cache[f].pvpq
      /\ x.c.mat = cache[f].mat /\ x.c.inj = cache[f].inj /\ x.c.wts = cache[f].wts
  BY PreparedTyped, CachedTyped DEF SlackIdPost
<1>3. /\ refresh <=> Runs(x, ctl[f], StatusFlags)
      /\ ~refresh => r = ctl[f]
      /\ r = ctl[f] \/ r = ctl[f] \cup {"dimension"}
  BY DEF PfRefresh, Refreshes, PfFlags, CtlAfter
<1>4. PfPrepared(f) = Stages(f, r, StatusAfter(refresh), TRUE, x)
  BY DEF PfPrepared
<1> HIDE DEF x, r, refresh
<1>5. RedoesOrKeeps(f, r, refresh, x)
  <2>1. CASE x.all
    BY <1>3, <2>1 DEF RedoesOrKeeps, Runs
  <2>2. CASE AnyOf(RedoFlags, r) /\ ~x.all
    <3>1. AnyOf(RedoFlags, ctl[f]) => AnyOf(StatusFlags, ctl[f])
      BY FlagsNested
    <3> QED BY <1>3, <2>2, <3>1 DEF RedoesOrKeeps, Runs
  <2>3. CASE ~AnyOf(RedoFlags, r) /\ ~x.all
    <3>1. r = ctl[f] /\ ~AnyOf(LabelFlags, r)
      BY <1>1, <1>3, <2>3 DEF AnyOf, RedoFlags, LabelFlags
    <3> QED BY <1>2, <2>3, <3>1 DEF RedoesOrKeeps
  <2> QED BY <2>1, <2>2, <2>3
<1>6. LET y == Stages(f, r, StatusAfter(refresh), TRUE, x)
      IN SizesFollow(y.c) /\ (y.ok => SameSize(y.c))
  BY <1>1, <1>2, <1>5, StagesKeepSizes
<1> QED BY <1>4, <1>6

LEMMA CheckedKeepsSizes ==
    ASSUME TypeOK, SizesGuarded, "AC" \in Families
    PROVE  SizesFollow(CheckPrepared.c)
<1> DEFINE x == CheckIds
           r == CheckFlags
           refresh == CheckRefresh
<1>1. SizesFollow(cache["AC"])
  BY DEF SizesGuarded
<1>2. /\ x \in WorkRecord /\ x.all = ~Usable("AC")
      /\ x.c.lab = cache["AC"].lab /\ x.c.slack = cache["AC"].slack
      /\ x.c.pvpq = cache["AC"].pvpq /\ x.c.mat = cache["AC"].mat
      /\ x.c.inj = cache["AC"].inj /\ x.c.wts = cache["AC"].wts
  BY CheckTyped, CachedTyped DEF SlackIdPost
<1>3. refresh <=> Runs(x, r, StatusFlags)
  BY DEF CheckRefresh, Refreshes
<1>4. CheckPrepared = Stages("AC", r, StatusAfter(refresh), FALSE, x)
  BY DEF CheckPrepared
<1>5. r = Flags \/ r = {}
  BY DEF CheckFlags, AllChanged, NoneChanged
<1> HIDE DEF x, r, refresh
<1>6. RedoesOrKeeps("AC", r, refresh, x)
  <2>1. CASE x.all
    BY <1>3, <2>1 DEF RedoesOrKeeps, Runs
  <2>2. CASE r = Flags
    <3>1. AnyOf(RedoFlags, r) /\ AnyOf(StatusFlags, r)
      BY <2>2 DEF AnyOf, RedoFlags, StatusFlags, Flags
    <3> QED BY <1>3, <3>1 DEF RedoesOrKeeps, Runs
  <2>3. CASE r = {} /\ ~x.all
    BY <1>2, <2>3 DEF RedoesOrKeeps, AnyOf
  <2> QED BY <1>5, <2>1, <2>2, <2>3
<1>7. LET y == Stages("AC", r, StatusAfter(refresh), FALSE, x)
      IN SizesFollow(y.c) /\ (y.ok => SameSize(y.c))
  BY <1>1, <1>2, <1>6, StagesKeepSizes
<1> QED BY <1>4, <1>7

(* Only a side that comes back, or moves, extends a pattern.               *)
LEMMA SideOpenedExtendsNothing ==
    ASSUME NEW b \in Branches, branch[b] \in BranchRecord, NEW k \in Sides
    PROVE  LET new == ResolveStatus(b, SetOn(branch[b], k, FALSE), k)
           IN "sparsity" \notin SideFlags(branch[b], new)
<1> DEFINE r   == SetOn(branch[b], k, FALSE)
           new == ResolveStatus(b, r, k)
<1>1. r \in BranchRecord /\ ~On(r, k) /\ \A s \in Sides : On(r, s) => On(branch[b], s)
  BY DEF SetOn, On, BranchRecord, Sides
<1> HIDE DEF r
<1>2. \A s \in Sides : On(new, s) => On(r, s)
  <2>1. On(Synched(b, r, k), 1) => On(r, 1)
    BY <1>1 DEF Synched, On, BranchRecord
  <2>2. On(Synched(b, r, k), 2) => On(r, 2)
    BY <1>1 DEF Synched, On, BranchRecord
  <2>3. /\ new.on1 = Synched(b, r, k).on1
        /\ new.on2 = Synched(b, r, k).on2
    BY <1>1 DEF ResolveStatus, Synched, BranchRecord
  <2> QED BY <2>1, <2>2, <2>3 DEF On, Sides
<1> HIDE DEF new
<1>3. "sparsity" \notin SideFlags(branch[b], new)
  BY <1>1, <1>2 DEF SideFlags, SideOffFlags
<1> QED BY <1>3 DEF new, r

LEMMA ElementsExtendNothing ==
    ASSUME ElementsTypeOK, KeepsPattern, ElementStep, NEW f \in Families
    PROVE  "sparsity" \in ctl'[f] => "sparsity" \in ctl[f]
<1> DEFINE NoneNew == "sparsity" \in ctl'[f] => "sparsity" \in ctl[f]
<1>1. ASSUME NEW both, NEW dcOnly, RaiseFor(both, dcOnly),
             "sparsity" \notin both, "sparsity" \notin dcOnly
      PROVE  NoneNew
  BY <1>1 DEF RaiseFor
<1>2. ASSUME NEW both, Raise(both), "sparsity" \notin both
      PROVE  NoneNew
  BY <1>1, <1>2 DEF Raise
<1> SUFFICES NoneNew
  OBVIOUS
<1> HIDE DEF NoneNew
<1>3. CASE LoadStep
  BY <1>2, <1>3 DEF LoadStep, DeactivateLoad, ReactivateLoad, ChangeBusLoad, ChangePLoad, SetLoad
<1>4. CASE GenStep
  <2>1. ASSUME NEW g, NEW record, NEW flags, SetGen(g, record, flags), "sparsity" \notin flags
        PROVE  NoneNew
    BY <1>2, <2>1 DEF SetGen
  <2>2. \A g : /\ "sparsity" \notin GenStatusFlags(g)
                /\ "sparsity" \notin PvIf(g) /\ "sparsity" \notin SlackIf(g)
    BY DEF GenStatusFlags, PvIf, SlackIf
  <2>3. ASSUME NEW g, DeactivateGen(g) \/ ReactivateGen(g) \/ RemoveGenSlackbus(g)
        PROVE  NoneNew
    BY <2>1, <2>2, <2>3 DEF DeactivateGen, ReactivateGen, RemoveGenSlackbus
  <2>4. ASSUME NEW g, NEW w, AddGenSlackbus(g, w)
        PROVE  NoneNew
    BY <2>1, <2>4 DEF AddGenSlackbus
  <2>5. ASSUME NEW g, NEW bus, ChangeBusGen(g, bus) \/ SetGenRegulatedBus(g, bus)
        PROVE  NoneNew
    BY <2>1, <2>2, <2>5 DEF ChangeBusGen, SetGenRegulatedBus
  <2>6. ASSUME NEW g, NEW p, ChangePGen(g, p)
        PROVE  NoneNew
    BY <2>1, <2>6 DEF ChangePGen
  <2>7. ASSUME NEW isPv, TurnedoffPv(isPv)
        PROVE  NoneNew
    BY <1>2, <2>7 DEF TurnedoffPv
  <2> QED BY <1>4, <2>3, <2>4, <2>5, <2>6, <2>7 DEF GenStep
<1>5. CASE BranchStep
  <2>1. ASSUME NEW b, NEW record, NEW both, NEW dcOnly, SetBranch(b, record, both, dcOnly),
               "sparsity" \notin both, "sparsity" \notin dcOnly
        PROVE  NoneNew
    BY <1>1, <2>1 DEF SetBranch
  <2>2. \A b, changed : "sparsity" \notin SbusIfTrafo(b, changed)
    BY DEF SbusIfTrafo
  <2>3. "sparsity" \notin SideOffFlags
    BY DEF SideOffFlags
  <2>4. ASSUME NEW b, DeactivateBranch(b)
        PROVE  NoneNew
    BY <2>1, <2>2, <2>3, <2>4 DEF DeactivateBranch
  <2>5. ASSUME NEW b \in Branches, NEW k \in Sides, DeactivateSide(b, k)
        PROVE  NoneNew
    <3>1. branch[b] \in BranchRecord
      BY DEF ElementsTypeOK
    <3>2. LET new == ResolveStatus(b, SetOn(branch[b], k, FALSE), k)
          IN "sparsity" \notin SideFlags(branch[b], new)
      BY <3>1, SideOpenedExtendsNothing
    <3> QED BY <2>1, <2>5, <3>2 DEF DeactivateSide
  <2>6. ASSUME NEW b, NEW x, ChangeRatioTrafo(b, x) \/ ChangeShiftTrafo(b, x)
        PROVE  NoneNew
    BY <2>1, <2>6 DEF ChangeRatioTrafo, ChangeShiftTrafo
  <2>7. \A b, k, bus : ~ReactivateBranch(b) /\ ~ReactivateSide(b, k) /\ ~ChangeBusSide(b, k, bus)
    BY DEF KeepsPattern, Calling, ReactivateBranch, ReactivateSide, ChangeBusSide
  <2> QED BY <1>5, <2>4, <2>5, <2>6, <2>7, ElementsAssumption DEF BranchStep
<1>6. CASE ShuntStep
  BY <1>2, <1>6 DEF ShuntStep, DeactivateShunt, ReactivateShunt, ChangeBusShunt, ChangePShunt,
                    ChangeQShunt, SetShunt
<1> QED BY <1>3, <1>4, <1>5, <1>6 DEF ElementStep

(* Each call leaves it so: a powerflow by the above, the others because    *)
(* they leave the cache alone, empty it, or forget its weights.            *)
LEMMA NextKeepsSizes ==
    ASSUME TypeOK, KeepsPattern, SizesGuarded, Next
    PROVE  SizesGuarded'
<1> DEFINE Redone(k) == "sparsity" \in k => AnyOf(RedoFlags, k)
<1>0. \A f \in Families : Redone(ctl[f]) /\ SizesFollow(cache[f])
  BY DEF SizesGuarded, SparsityRedone
<1>1. SUFFICES ASSUME NEW f \in Families
               PROVE  Redone(ctl'[f]) /\ SizesFollow(cache'[f])
  BY DEF SizesGuarded, SparsityRedone, SizesFollow
<1>2. ASSUME NEW k, NEW l, k \subseteq l, "sparsity" \in l => "sparsity" \in k, Redone(k)
      PROVE  Redone(l)
  BY <1>2 DEF AnyOf
<1>3. /\ \A k, l : Redone(k) /\ l \subseteq {"dimension", "reset", "ybus", "sbus", "slack_part",
                                            "slack_weight"} => Redone(k \cup l)
      /\ Redone({}) /\ Redone(Flags)
  BY DEF AnyOf, RedoFlags, Flags
<1> HIDE DEF Redone
<1>4. CASE Modify
  <2>1. ctl[f] \subseteq ctl'[f] /\ ("sparsity" \in ctl'[f] => "sparsity" \in ctl[f])
    BY <1>4, ElementsKeepFlags, ElementsExtendNothing DEF Modify, TypeOK
  <2> QED BY <1>0, <1>2, <1>4, <2>1 DEF Modify
<1>5. \A refresh : Redone(CtlAfter(refresh)[f])
  <2>1. \A refresh : \/ CtlAfter(refresh)[f] = ctl[f] \cup {"dimension"}
                    \/ CtlAfter(refresh)[f] = ctl[f] \cup {}
    BY DEF CtlAfter
  <2> QED BY <1>0, <1>3, <2>1
<1>6. ASSUME NEW g \in Families, PowerFlow(g)
      PROVE  Redone(ctl'[f]) /\ SizesFollow(cache'[f])
  <2> DEFINE after == CtlAfter(PfRefresh(g))
             c     == PfPrepared(g).c
  <2>1. cache' = [cache EXCEPT ![g] = c] /\ (ctl' = after \/ ctl' = [after EXCEPT ![g] = {}])
    BY <1>6, PowerFlowEnds
       DEF PfThrows, PfAlgorithmThrows, PfDiverges, PfResultsThrow, PfConverges, Converging,
           Preparing, KeepFlags, MarkValid, NoneChanged
  <2>2. SizesFollow(c) /\ Redone(after[f]) /\ after \in [Families -> SUBSET Flags]
    BY <1>5, PreparedKeepsSizes, AfterTyped
  <2> HIDE DEF after, c
  <2> QED BY <1>0, <1>3, <2>1, <2>2 DEF TypeOK
<1>7. CASE CheckSolution
  <2>1. SizesFollow(CheckPrepared.c)
    BY <1>7, CheckedKeepsSizes DEF CheckSolution
  <2> QED BY <1>0, <1>5, <1>7, <2>1 DEF CheckSolution, TypeOK
<1>8. ASSUME \/ \E g \in Families, allowed \in BOOLEAN : AllowCacheReuse(g, allowed)
             \/ \E g \in Families : PreventReuse(g)
             \/ \E base \in Bases : SetSnMva(base)
             \/ \E b \in Buses \cup {NoBus} : SetReferenceSlackBus(b)
             \/ \E b \in Buses : DeactivateBus(b) \/ ReactivateBus(b)
      PROVE  Redone(ctl'[f]) /\ SizesFollow(cache'[f])
  <2>1. UNCHANGED cache
    BY <1>8 DEF AllowCacheReuse, PreventReuse, SetSnMva, SetReferenceSlackBus, DeactivateBus,
                ReactivateBus, SetBusStatus
  <2>2. \/ ctl'[f] = ctl[f]
        \/ \E l \in SUBSET {"reset", "slack_part"} : ctl'[f] = ctl[f] \cup l
    BY <1>8 DEF AllowCacheReuse, PreventReuse, PreventCacheReuse, SetSnMva, SetReferenceSlackBus,
                DeactivateBus, ReactivateBus, SetBusStatus, Raise, RaiseFor
  <2> QED BY <1>0, <1>3, <2>1, <2>2
<1>9. CASE UnsetChanges
  BY <1>0, <1>3, <1>9 DEF UnsetChanges, NoneChanged
<1>10. ~\E flag \in {"ybus", "sbus", "sparsity"} : TellChanged(flag)
  BY DEF KeepsPattern, TellChanged, Calling
<1>11. ASSUME NEW g \in Families, NEW same \in BOOLEAN, ChangeAlgorithm(g, same)
       PROVE  Redone(ctl'[f]) /\ SizesFollow(cache'[f])
  BY <1>0, <1>3, <1>11 DEF ChangeAlgorithm, AllChanged, TypeOK
<1>12. ASSUME ForgetSlack
       PROVE  SizesFollow(cache'[f])
  <2>1. cache'[f] = [cache[f] EXCEPT !.slack = [lab |-> {}, val |-> NoSlack],
                                      !.wts = [lab |-> {}, val |-> {}]]
    BY <1>12, Zenon DEF ForgetSlack
  <2>2. cache[f] \in CacheRecord
    BY DEF TypeOK
  <2>3. /\ cache'[f].pvpq = cache[f].pvpq /\ cache'[f].inj = cache[f].inj
        /\ cache'[f].wts = [lab |-> {}, val |-> {}]
    BY <2>1, <2>2 DEF CacheRecord
  <2> QED BY <1>0, <2>3 DEF SizesFollow
<1>13. CASE AssignSlack
  <2>1. ctl'[f] = ctl[f] \cup {"slack_part", "slack_weight"}
    BY <1>13 DEF AssignSlack, Raise, RaiseFor
  <2> QED BY <1>0, <1>3, <1>12, <1>13, <2>1 DEF AssignSlack
<1>14. CASE AssignNoSlack
  BY <1>0, <1>12, <1>14 DEF AssignNoSlack
<1>15. CASE CopyGrid
  <2>1. SizesFollow(Cold)
    BY DEF SizesFollow, Cold
  <2> QED BY <1>3, <1>15, <2>1 DEF CopyGrid, AllChanged
<1> QED BY <1>4, <1>6, <1>7, <1>8, <1>9, <1>10, <1>11, <1>13, <1>14, <1>15 DEF Next

(* The guard on sizes alone does its work, whatever flags the client drops *)
(* and whatever fails: as long as it closes no branch, moves none to       *)
(* another bus and claims no change itself, what a powerflow hands its     *)
(* algorithm has one size.                                                 *)
THEOREM GuardKeepsSizes ==
    ASSUME KeepsPattern
    PROVE  Spec => []SizesAgree
<1>1. Init => SizesGuarded
  <2>1. AnyOf(RedoFlags, AllChanged) /\ SizesFollow(Cold)
    BY DEF SizesFollow, Cold, AllChanged, AnyOf, RedoFlags, Flags
  <2> QED BY <2>1 DEF Init, SizesGuarded, SparsityRedone
<1>2. TypeOK /\ SizesGuarded /\ [Next]_vars => SizesGuarded'
  <2>1. ASSUME SizesGuarded, UNCHANGED vars
        PROVE  SizesGuarded'
    BY <2>1 DEF SizesGuarded, SparsityRedone, SizesFollow, vars, solver
  <2> QED BY <2>1, NextKeepsSizes
<1>3. TypeOK /\ SizesGuarded => SizesAgree
  BY PreparedKeepsSizes DEF SizesAgree
<1> QED BY <1>1, <1>2, <1>3, TypeCorrect, PTL DEF Spec

(* Two caches that hold what a rebuild gives, in one labelling, are one.   *)
LEMMA FreshIsOne ==
    ASSUME NEW f, NEW c \in CacheRecord, NEW d \in CacheRecord, c.lab = d.lab,
           IsFresh(f, c), IdsAre(c), IsFresh(f, d), IdsAre(d)
    PROVE  c = d
<1>1. /\ c.mat = d.mat /\ c.slackMe = d.slackMe /\ c.slack = d.slack
      /\ c.pvpq = d.pvpq /\ c.inj = d.inj /\ c.wts = d.wts
  BY DEF IsFresh, IdsAre, MatIs, InjIs, WtsIs, SlackIs, PvPqIs
<1> QED BY <1>1 DEF CacheRecord

(* No generator is alone on its bus: then a bus is live whether or not the *)
(* generators on it are.                                                   *)
NoneAlone == GenBuses \subseteq FixedBuses

LEMMA AllLive ==
    ASSUME NoneAlone
    PROVE  LiveBuses = FixedBuses /\ SlackBuses \subseteq LiveBuses
BY UsesLiveBuses DEF NoneAlone, SlackBuses, SlackGens, GenBuses

(* What a powerflow without any cache prepares.                            *)
LEMMA FreshPrepares ==
    ASSUME TypeOK, NEW f \in Families, NoneAlone
    PROVE  LET y == FreshPrepared(f)
           IN /\ y \in WorkRecord
              /\ y.ok <=> SlackGens # {} /\ TargetBuses \subseteq LiveBuses
              /\ y.ok => IsFresh(f, y.c) /\ IdsAre(y.c) /\ y.c.lab = LiveBuses
<1> DEFINE x == SlackIdStage(AllChanged, Fresh(f))
           y == FreshPrepared(f)
<1>1. Fresh(f) \in WorkRecord /\ Fresh(f).ok /\ Fresh(f).all
  BY ColdTyped DEF Fresh, WorkRecord
<1>2. SlackIdPost(AllChanged, Fresh(f), x)
  BY <1>1, SlackIdStageDoes
<1>3. Runs(Fresh(f), AllChanged, SlackIdFlags)
  BY <1>1 DEF Runs
<1>4. /\ x \in WorkRecord /\ x.all = TRUE
      /\ x.ok <=> SlackGens # {}
      /\ x.ok => IdsAre(x.c)
  BY <1>1, <1>2, <1>3 DEF SlackIdPost, IdsAre, Fresh
<1>5. LiveBuses \in SUBSET Buses
  BY LiveTyped DEF TypeOK
<1>6. y = Stages(f, AllChanged, LiveBuses, TRUE, x)
  BY DEF FreshPrepared
<1> HIDE DEF x, y
<1>7. StagesPost(f, AllChanged, LiveBuses, x, y)
  BY <1>4, <1>5, <1>6, StagesDo
<1> DEFINE lab == IF Runs(x, AllChanged, LabelFlags) THEN LiveBuses ELSE x.c.lab
<1>8. x.ok => lab = LiveBuses /\ y.c.lab = LiveBuses
  BY <1>4, <1>7 DEF StagesPost, Runs
<1>9. x.ok => x.c.slackMe.buses \subseteq LiveBuses
  BY <1>4, AllLive DEF IdsAre, SlackIds
<1>10. y.ok <=> x.ok /\ TargetBuses \subseteq LiveBuses
  <2>1. CASE x.ok
    <3>1. lab = LiveBuses
      BY <1>8, <2>1
    <3>2. lab = LabelledBy(AllChanged, LiveBuses, x)
      BY <1>4, <1>5, LabelStageDoes DEF lab, LabelledBy, LabelPost
    <3> HIDE DEF lab
    <3>3. HoldsUsed(f, x, lab)
      BY <1>9, <2>1, <3>1, UsesLiveBuses DEF HoldsUsed
    <3>4. y.ok <=> x.ok /\ TargetBuses \subseteq lab
      BY <1>4, <1>5, <1>6, <3>2, <3>3, StagesSucceed
    <3> QED BY <3>1, <3>4
  <2>2. CASE ~x.ok
    BY <1>7, <2>2 DEF StagesPost
  <2> QED BY <2>1, <2>2
<1>11. ASSUME y.ok
       PROVE  IsFresh(f, y.c) /\ IdsAre(y.c)
  <2>1. /\ MatIs(f, y.c) /\ SlackFilled(y.c) /\ InjIs(f, y.c) /\ WtsIs(y.c)
        /\ y.c.slackMe = x.c.slackMe /\ x.ok
    BY <1>4, <1>7, <1>11 DEF StagesPost
  <2>2. IdsAre(y.c)
    BY <1>4, <2>1 DEF IdsAre
  <2>3. LabCovers(y.c)
    BY <1>8, <2>1, UsesLiveBuses DEF LabCovers
  <2> QED BY <2>1, <2>2, <2>3, SlackFromIds DEF IsFresh
<1>12. y \in WorkRecord
  BY <1>7 DEF StagesPost
<1> QED BY <1>4, <1>8, <1>10, <1>11, <1>12 DEF y

(* What a powerflow with its cache prepares.                               *)
LEMMA ReusedPrepares ==
    ASSUME TypeOK, NEW f \in Families, FamilyClean(f), NoneAlone
    PROVE  LET y == PfPrepared(f)
           IN /\ y \in WorkRecord
              /\ y.ok <=> SlackGens # {} /\ TargetBuses \subseteq LiveBuses
              /\ y.ok => IsFresh(f, y.c) /\ IdsAre(y.c) /\ y.c.lab = LiveBuses
<1> DEFINE x == PfIds(f)
           y == PfPrepared(f)
           k == ctl[f]
           a == PfFlags(f)
           s == StatusAfter(PfRefresh(f))
           lab == IF Runs(x, a, LabelFlags) THEN s ELSE x.c.lab
<1>1. /\ Pipeline(f, k, a, x, y) /\ a = After(f, k, x)
      /\ PfRefresh(f) = Refreshes(k, x)
  BY NextPipeline
<1>2. /\ x \in WorkRecord /\ SlackIdPost(k, Cached(f), x) /\ StagesPost(f, a, s, x, y)
      /\ y = Stages(f, a, s, TRUE, x) /\ s \in SUBSET Buses
  BY PreparedTyped, AfterTyped DEF PfPrepared
<1>3. Cached(f).ok = TRUE /\ Cached(f).c = cache[f] /\ Cached(f) \in WorkRecord
  BY CachedTyped DEF WorkRecord
<1>4. a = k \/ (PfRefresh(f) /\ k \subseteq a)
  BY <1>1, AfterTyped DEF After
<1> HIDE DEF x, y, a, s
(* The slack is found when there is one.                                   *)
<1>5. /\ x.ok <=> SlackGens # {}
      /\ x.ok => IdsAre(x.c)
  <2>1. CASE Runs(Cached(f), k, SlackIdFlags)
    BY <1>2, <2>1 DEF SlackIdPost, IdsAre
  <2>2. CASE ~Runs(Cached(f), k, SlackIdFlags)
    <3>1. x.ok = TRUE /\ x.c = cache[f]
      BY <1>2, <1>3, <2>2 DEF SlackIdPost
    <3>2. IdsAre(cache[f])
      BY <1>3, <2>2 DEF FamilyClean, IdsClean, Clean, Runs
    <3> QED BY <3>1, <3>2 DEF IdsAre
  <2> QED BY <2>1, <2>2
(* The labelling is that of the live buses, reused or not.                 *)
<1>6. ASSUME x.ok
      PROVE  lab = LiveBuses /\ y.c.lab = LiveBuses
  <2>1. y.c.lab = lab
    BY <1>2 DEF StagesPost
  <2>2. lab = s
    <3>1. CASE AnyOf(LabelFlags, a) \/ x.all
      BY <1>6, <3>1 DEF Runs
    <3>2. CASE ~(AnyOf(LabelFlags, a) \/ x.all)
      <4>1. ~AnyOf(RedoFlags, After(f, k, x))
        BY <1>1, <3>2, FlagsNested
      <4>2. LabelClean(f)
        BY DEF FamilyClean
      <4>3. y.c.lab = StatusAfter(Refreshes(k, x))
        BY <1>1, <4>1, <4>2, LabelKept
      <4> QED BY <1>1, <2>1, <4>3 DEF s
    <3> QED BY <3>1, <3>2
  <2>3. s = LiveBuses
    <3>1. CASE PfRefresh(f)
      BY <3>1 DEF s, StatusAfter
    <3>2. CASE ~PfRefresh(f)
      <4>1. ~AnyOf(StatusFlags, k) /\ a = k
        BY <1>1, <1>4, <1>6, <3>2 DEF Refreshes, Runs
      <4>2. ~AnyOf(RedoFlags, k)
        BY <4>1, FlagsNested
      <4>3. LabCovers(cache[f]) /\ cache[f].lab = busStatus
        BY <4>1, <4>2 DEF FamilyClean, StatusClean, LabelClean, Clean
      <4>4. s = busStatus
        BY <3>2 DEF s, StatusAfter
      <4> QED BY <4>3, <4>4, AllLive DEF LabCovers, NoneAlone
    <3> QED BY <3>1, <3>2
  <2> QED BY <2>1, <2>2, <2>3
<1>7. x.ok => x.c.slackMe.buses \subseteq LiveBuses
  BY <1>5, AllLive DEF IdsAre, SlackIds
<1>8. y.ok <=> x.ok /\ TargetBuses \subseteq LiveBuses
  <2>1. CASE x.ok
    <3>1. lab = LiveBuses
      BY <1>6, <2>1
    <3>2. lab = LabelledBy(a, s, x)
      BY <1>2, LabelStageDoes DEF lab, LabelledBy, LabelPost
    <3> HIDE DEF lab
    <3>3. HoldsUsed(f, x, lab)
      BY <1>7, <2>1, <3>1, UsesLiveBuses DEF HoldsUsed
    <3>4. y.ok <=> x.ok /\ TargetBuses \subseteq lab
      BY <1>2, <3>2, <3>3, StagesSucceed
    <3> QED BY <3>1, <3>4
  <2>2. CASE ~x.ok
    BY <1>2, <2>2 DEF StagesPost
  <2> QED BY <2>1, <2>2
<1>9. y.ok => IsFresh(f, y.c) /\ IdsAre(y.c)
  BY <1>1, PipelineFresh
<1>10. y \in WorkRecord
  BY <1>2 DEF StagesPost
<1> QED BY <1>5, <1>6, <1>8, <1>9, <1>10 DEF y

(* Reusing a cache is invisible: where no generator is alone on its bus,   *)
(* the next powerflow prepares exactly what it would prepare without any   *)
(* cache, and throws exactly when it would.  (Where one is, a reused       *)
(* labelling may hold a bus that a rebuild drops: switching a generator    *)
(* does not ask for a new bus status, GeneratorContainer.cpp.)             *)
THEOREM ReuseAlwaysInvisible ==
    ASSUME SoundClient
    PROVE  Spec => [](NoneAlone => ReuseIsInvisible)
<1>1. Init => CacheInvariant
  BY InitTyped, InitClean DEF CacheInvariant
<1>2. CacheInvariant /\ [Next]_vars => CacheInvariant'
  BY NextClean
<1>3. CacheInvariant => (NoneAlone => ReuseIsInvisible)
  <2> SUFFICES ASSUME CacheInvariant, NoneAlone, NEW f \in Families
               PROVE  LET reused == PfPrepared(f)
                          fresh  == FreshPrepared(f)
                      IN reused.ok = fresh.ok /\ (reused.ok => reused.c = fresh.c)
    BY DEF ReuseIsInvisible
  <2> DEFINE reused == PfPrepared(f)
             fresh  == FreshPrepared(f)
  <2>1. TypeOK /\ FamilyClean(f)
    BY DEF CacheInvariant, Typed, FlagsSuffice
  <2>2. /\ reused \in WorkRecord
        /\ reused.ok <=> SlackGens # {} /\ TargetBuses \subseteq LiveBuses
        /\ reused.ok => IsFresh(f, reused.c) /\ IdsAre(reused.c) /\ reused.c.lab = LiveBuses
    BY <2>1, ReusedPrepares
  <2>3. /\ fresh \in WorkRecord
        /\ fresh.ok <=> SlackGens # {} /\ TargetBuses \subseteq LiveBuses
        /\ fresh.ok => IsFresh(f, fresh.c) /\ IdsAre(fresh.c) /\ fresh.c.lab = LiveBuses
    BY <2>1, FreshPrepares
  <2> HIDE DEF reused, fresh
  <2>4. (reused.ok <=> fresh.ok) /\ reused.ok \in BOOLEAN /\ fresh.ok \in BOOLEAN
    BY <2>2, <2>3 DEF WorkRecord
  <2>5. reused.c \in CacheRecord /\ fresh.c \in CacheRecord
    BY <2>2, <2>3 DEF WorkRecord
  <2>6. reused.ok => reused.c = fresh.c
    BY <2>2, <2>3, <2>4, <2>5, FreshIsOne
  <2> QED BY <2>4, <2>6 DEF reused, fresh
<1> QED BY <1>1, <1>2, <1>3, PTL DEF Spec
=============================================================================
