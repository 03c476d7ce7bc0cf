# A TLA+ verification of lightsim2grid

lightsim2grid computes powerflows: given a power grid (buses, loads, generators,
lines, transformers...) it finds the complex voltage of every bus. Its core is a
C++ library (`src/src/core`), wrapped for Python (`src/src/bindings`) and used by a
grid2op backend and by readers of grid files (`src/lightsim2grid`). A client
modifies the grid one element at a time and solves again, thousands of times,
and the library is fast because a solve rebuilds only what the modifications
since the last one made stale. That incremental machinery, and not the
numerics, is where an error stays silent: a wrong flag yields a converged
answer for a grid that is no longer there. It is what this project specifies.

## 1. Inventory

| Part | State | Operations | Interacts with |
|---|---|---|---|
| **LSGrid** (`LSGrid.hpp/.cpp`) | two solver-side caches, AC and DC: bus labelling, matrix, injections, slack / PV / PQ buses, slack weights; a snapshot of the connected buses per family; `allow_*_cache_reuse_`, `*_algo_needs_rebuild_`, `sn_mva_`, the forced reference bus | `ac_pf`, `dc_pf`, `check_solution`, the cache API, every element method, slack assignment, copy, `update_topo`, main component, save / load | owns all containers, both algorithms, both sets of flags |
| **AlgoControl, DualAlgoControl** (`Utils.hpp`) | twelve change flags per family | `tell_*`, the getters | raised by containers, read by the pipeline and the algorithms |
| **Element containers** (`element_container/`) | per element: status, bus, set points; per branch two side statuses and a global one | deactivate, reactivate, change of bus, set points, per-container hooks | raise flags; asked by the pipeline for their terms |
| **SubstationContainer** | which buses are connected | disconnect all / reconnect | rewritten inside the pipeline (`init_bus_status`) |
| **VoltageControlData** | groups of devices controlling one bus | built before an AC solve | generators, SVCs, HVDC stations |
| **AlgorithmSelector, AlgorithmRegistry** | current algorithm, table of factories | change, register a batch | replaces the object the flags are told to |
| **Powerflow algorithms** (`powerflow_algorithm/`) | internals built on earlier solves (Jacobian, factorisation) | `compute_pf`, `reset`, `tell_solver_control` | trust the flags they are handed |
| **Linear solvers** (`linear_solvers/`) | symbolic and numeric factorisation | analyse, factorise, refactorise, solve | called by the algorithms |
| **Batch sweeps** (`batch_algorithm/`) | matrix shared by threads, one algorithm each, result rows | contingencies, injections, scenarios | copy what an LSGrid prepared |
| **BinaryArchive, pickling** | file under construction | write, commit, read, `set_state`, `check_grid` | LSGrid |
| **DataConverter, IIDMConverter** | none | conversions of real numbers | readers |
| **Bindings, Python package** | none of the core's | forward; client code | LSGrid |

What is hard, by part:

* *LSGrid.* Stages that throw half way through; two families that fall behind
  the grid at different speeds and share it; a flag raised by one stage after
  earlier ones read the flags; a call that prepares data but never solves
  (`check_solution`); a guard that looks at sizes only; `update_topo`, which may
  throw after part of the grid changed.
* *Containers.* One change enters several cached data, differently in AC and in
  DC, under options; three statuses of one branch; devices that regulate the
  voltage of one bus together.
* *Algorithms.* Reset on divergence, replaced between solves, external ones that
  are promised only the flags. The Newton-Raphson system keeps a Jacobian that
  four components claimed rows and columns of, and its factors.
* *Batch sweeps.* Threads; contingencies undone after failures; rows, voltages,
  coefficients and flows computed at different moments.
* *Archive.* A crash between the removal of the old file and the rename; a file
  replaced or overwritten while it is read.

What makes each part correct: the flags cover every stale datum
(`FlagsSuffice`); an answer is about the present grid (`AnswerIsCurrent`,
`KeepsPromise`); reusing a cache is invisible (`ReuseIsInvisible`); a failure
loses no pending change (`FlagsOutliveFailures`); an algorithm that lost its
internals is told so (`ResetIsTold`); the sizes agree however few flags the
client raises (`SizesAgree`); the statuses and coefficients of a branch agree
(`StatusConsistent`, `BranchesAreWhole`); a clean-up leaves one island
(`OneIsland`); the Jacobian and its factors are those of the devices, it is
square and regular (`IteratesOnCurrent`, `WellPosed`, `SingularIffChoked`); a
refusal is deserved (`RefusalIsDeserved`); what is reported balances
(`ResultsBalance`); the
factors a fast-decoupled iteration uses are current (`SolvesWithCurrent`); each row of a sweep answers its own problem
(`KeepsSweepPromise`) and tells what was checked of it (`ReportsTellRows`,
`EveryRowIsTold`), and every sweep returns (`ComputeReturns`); a file is seen
whole (`KeepsArchivePromise`). `PROJECT.json` lists the hazards at their lines,
with the properties that cover each, and says of the others why none does.

## 2. The modules

```
AlgoControl  <-  GridElements  <-  Stamps  <-  LSGrid  <-  CacheReuse  <-  MCLSGrid, MCElements   (TLC)
                     ^                                       |  \ Promise == INSTANCE PowerflowPromise
                 GridProofs  <-------  PipelineProofs  ------+
                                          ^
                                      ReuseProofs                                  (TLAPS)
```

* `AlgoControl`: the flags of one family as a set; for each cached datum the
  flags that make the next solve rebuild it, read off the conditions of
  `_pre_process_solver_impl`.
* `GridElements`: the element side. One action per method of LSGrid that changes
  one element: it updates the element and raises exactly the flags its
  container's code raises, hooks included (`_deactivate`, `_change_bus`,
  `resolve_status`...). As in the code, a call that changes nothing raises
  nothing, so these actions require a change.
* `Stamps`: what a powerflow reads off the elements: live buses, matrix,
  injections, slack, PV and PQ buses, weights. A matrix is pictured by the set of
  the contributions summed into it ("branch t1, with these open or closed ends,
  this ratio and this shift"). Two pictures are equal when the same elements
  contribute the same values at the same buses; the arithmetic is left out.
* `LSGrid`: the solver side. `cache[f]` holds each datum with the labelling its
  indices refer to, since a vector that survives a relabelling is a different
  vector. The pipeline is one operator per stage (`SlackIdStage`, `LabelStage`,
  ..., `WeightStage`), composed in the code's order by `Stages`; each may throw, and
  leaves then what the code leaves: an emptied matrix, a sized but unfilled
  vector, or the old value. `ac_pf` and `dc_pf` are the five ways such a call ends:
  a stage throws, the algorithm throws, it diverges, the results throw, it
  converges. A call is one step because the library is sequential (no callback
  gives the client a turn inside it), but every intermediate state that a failure
  can leave is a state of the model.
* `PowerflowPromise`: the abstract specification. A solver without any cache:
  an answer shows the grid as it is; giving it changes nothing.
* `CacheReuse`: the properties, and the refinement mapping to `PowerflowPromise`.
* `MCLSGrid`, `MCElements`, `MCReuse`: the grids the TLC runs start from.
  `MCElements` has an element of every kind and follows one of them at a time;
  `MCReuse` plays one scene per behaviour, in which the client uses some methods.
* `Topology` (EXTENDS CacheReuse): `update_topo` as the loop over containers and
  positions it is, stopped wherever a bus number does not exist;
  `consider_only_main_component`; `update_slack_weights`. It adds what these
  calls leave out of step: `eff`, the statuses the coefficients of a branch
  were computed for, `busWeight`, the weights kept once for both families, and
  `cut`, a ghost: the branches an update left half done. `MCTopology` plays it.
* `Devices`: generators, SVCs and HVDC lines as the AC powerflow sees them, with
  the flags each change raises, and what LSGrid derives: PV buses, voltage-control
  groups, droops, injections, what it refuses. Three sets of buses must not be
  confused: `SlackOf`, the buses of the slack generators, connected or not
  (`get_slack_bus_id` reads no status); `Weighted`, those of the connected ones, which
  share the slack (`get_slack_weights_solver`); `Targets`, the buses whose voltage
  `set_vm` sets before a powerflow, for the generators and the stations.
* `Jacobian` (EXTENDS Devices): which rows and columns the base block, the slack,
  the voltage control and the droop claim, the entries they declare, and whether
  a matrix with these entries can be regular (a perfect matching, Hall's
  condition). The entries are those the code stores, whatever their values: the weight
  of a slack bus is stored also where it is 0 (its generators are off). So a pattern
  is regular when a matrix is for some values of its entries.
* `Newton` (EXTENDS Jacobian): `ac_pf` with the Newton-Raphson algorithm: refused,
  begun, iterated, converged or failed; the Jacobian is rebuilt, analysed,
  factorised or refactorised as the flags and what was kept say. `Preparable` is what
  the stages of `_pre_process_solver_impl` do not throw on, each when the flags
  make it run: a generator flagged slack, each slack bus in service, injections and
  slack generators on live buses; and, at every powerflow, live voltage targets.
* `AcAlgorithms` (EXTENDS Newton): the algorithm is Newton-Raphson, fast decoupled or
  Gauss-Seidel, chosen by type or by name, and the grid may go on as a copy or
  restored from its state. Fast decoupled keeps the factors of its two matrices
  from one powerflow to the next, reads the branches in the grid itself, and
  needs coefficients that only a choice by type computes.
* `Results` (EXTENDS AcAlgorithms, Bags): what the devices report, each power being
  the bag of the terms it is a sum of. `MCNewton` plays scenes of it.
* `Islands`, `DcAlgo`, `Sweep`: the batch sweeps. `Islands` is the matrix as the
  number of times each branch is stamped in it, and connectedness; `DcAlgo` what an
  algorithm carries from one row to the next; `Sweep` the object: setters,
  lists, `compute()` and its workers, one action per row. `SweepPromise` is its
  abstract specification: the answers that can be read are, row by row, those of
  the rows solved alone on a new grid. `SweepReports` (EXTENDS Sweep) adds the lists of
  limit violations, which tell of each row what was checked or why nothing was, and
  the threshold; `MCSweep` the instance.
* `Archive`: a saving process and loaders over one path; `ArchivePromise` its
  abstract specification: the file is replaced at once and seen whole;
  `MCArchive` the instance.
* The proofs: `GridProofs`, `PipelineProofs` and `ReuseProofs` about the cache of
  LSGrid, `TopologyProofs`, `NewtonProofs`, `ResultsProofs`, `SweepProofs`,
  `ArchiveProofs` (section 4).

The other chains are

```
CacheReuse <- Topology <- MCTopology                                     Topology, ReuseProofs <- TopologyProofs
AlgoControl <- Devices <- Jacobian <- Newton <- AcAlgorithms <- Results <- MCNewton
                                                AcAlgorithms <- NewtonProofs,   Results, NewtonProofs <- ResultsProofs
Islands, AlgoControl <- DcAlgo <- Sweep <- SweepReports <- MCSweep, SweepProofs    (Promise == INSTANCE SweepPromise)
Archive <- MCArchive, ArchiveProofs                                      (P == INSTANCE ArchivePromise)
```

Correspondence of the state:

| TLA+ | C++ |
|---|---|
| `load`, `gen`, `branch`, `shunt` | the containers' `status_`, `bus_id_`, `target_p_mw_`, `regulated_bus_id_`, `gen_slack_weight_`, `status_global_`, `ratio_`, `shift_`... |
| `offIsPv` | `turnedoff_gen_pv_` |
| `ctl[f]` | `algo_controler_.ac_algo_controler()` / `dc_algo_controler()` |
| `cache[f].lab` | `id_me_to_*_solver_`, `id_*_solver_to_me_` |
| `cache[f].mat`, `.inj`, `.wts` | `Ybus_ac_` / `Bbus_dc_`, `acSbus_` / `dcPbus_`, `slack_weights_*_` |
| `cache[f].slackMe`, `.slack`, `.pvpq` | `slack_bus_id_*_me_`, `slack_bus_id_*_solver_`, `bus_pv_*`, `bus_pq_*` |
| `busStatus`, `snap[f]` | the bus status of `substations_`, `last_bus_status_saved_` / `last_bus_status_dc_` |
| `allow`, `needsRebuild`, `forced`, `snMva` | `allow_*_cache_reuse_`, `*_algo_needs_rebuild_`, `_forced_ref_slack_bus_id`, `sn_mva_` |
| `told[f]` | the `AlgoControl` last given to `tell_solver_control` |
| `ready[f]`, `last` | ghosts: has the algorithm run since its last reset; whose results were just returned |
| `eff[b]`, `busWeight` | the `yac_eff_*_` coefficients, `bus_slack_weight_` |
| `gen`, `svc`, `hvdc`, `line` (Devices) | the containers; one branch of the rest of the grid |
| `prep`, `nr` (Newton) | what LSGrid prepared; `need_factorize_`, the ledger and pattern of the `NRSystem`, what the linear solver analysed and factorised |
| `algo`, `coeffs`, `fd` (AcAlgorithms) | the algorithm in `_algo`; whether the branches filled their `BX/XB` coefficients; `need_factorize_`, `grid_Bp_`/`grid_Bpp_`, `Bp_`/`Bpp_` and what was factorised |
| `asked`, `coeffs`, `ybus`, `volts`, `conv`, `counts`, `status`, `flows`, `stale` (Sweep) | the per-row inputs and `li_defaults`, `li_coeffs`, `Ybus_`/`Bbus_`, `_voltages`, `_converged_mask_`, `_nb_solved`/`_nb_converged`, `_status`, `_amps_flows`, `_results_stale_` |
| `th[t]` (Sweep) | a worker: its range, matrix, algorithm, flags, counters and exception |
| `reports`, `threshold` (SweepReports) | `_violations_n_` and `_violations`, `_violation_threshold_` |
| `files`, `saver`, `loader` (Archive) | `path_` and `tmp_path_` on disk, a process in `save_binary`, processes in `load_binary` |

`Calls` is the set of LSGrid methods the client uses. It has no counterpart in
the code: it lets a run, or a theorem, say which client it is about.

## 3. The runs

All instances are tiny on purpose: a stale datum needs one element and two
buses. Two buses are enough for a bus to lose or gain its last element, for the
labelling to shrink, grow or swap at constant size (the case a size check
cannot see), and for a generator to regulate away from home. Two generators
are enough for a slack that is shared, leaves, or is last. Two levels of power
distinguish old from new. `Families = {"AC", "DC"}` where the two interact, one
family elsewhere. LSGrid needs no bound on its counters: its state space is finite,
and TLC explores it whole.

* MCLSGrid starts from the grids where generator 0 is the slack and everything is at
  its default, wherever the elements are.
* MCElements has a load, a generator, a line, a transformer whose sides are
  synchronised and a shunt, all on one bus; each behaviour chooses the element that
  changes and the family that is solved, since the flags of one element do not
  depend on the other elements.
* MCReuse, MCTopology and MCNewton play one scene per behaviour: the scene says
  which calls are made and which elements change; the product of all scenes would
  multiply states without new interactions.
* MCTopology: two substations of two busbars (four buses, the least for a busbar
  number that a substation does not have and for two islands), requests of one
  position or two, legal and illegal numbers.
* MCNewton: three buses (a slack, a controller's and a regulated one), two
  generators and a second slack one, a compensator, an HVDC line. The second slack
  generator is off but in the scene `slack`; off, it makes a slack bus without a
  weight in half of the behaviours of `gens`, `island` and `algos`, where the bus may be
  cut off (the powerflow is refused), be regulated by a station or a group, and be
  left without any slack generator connected. `MaxChanges = 2`
  changes between two powerflows, because one change and its undoing, or the
  changes of two devices, are what a kept Jacobian may confuse. Any number of
  powerflows follow one another. The scene `algos` alone changes the algorithm,
  copies and restores: what the algorithms keep does not depend on the device
  that made it stale, so two generators, a branch and an HVDC line are enough.
* MCSweep: three buses in a row, two of them tied by two branches and a branch that
  is open, so that a contingency may cut nothing, cut off a bus, or be empty;
  three rows on `MaxThreads = 2` threads, so that a worker has one row or two
  and a row follows a failed one; two numbers of rows, so that a setter is refused;
  two thresholds, so that one is tighter.
* MCArchive: two classes, three objects, files of up to three parts, one saver and
  one loader, since loaders share nothing but the file.

| Run | What the client does | Properties |
|---|---|---|
| `elements` | one element of each kind is switched, opened by one side, moved, re-tapped, set, as its kind allows; AC or DC | `TypeOK`, `FlagsSuffice`, `ReuseIsInvisible`, `StatusConsistent` |
| `reuse` | scenes: slack generators; a local or remote regulator; AC and DC interleaved with replaced algorithms and copies; `check_solution` and the switches of the cache | `FlagsSuffice`, `AnswerIsCurrent`, `KeepsPromise`, `FlagsOutliveFailures`, `ResetIsTold` |
| `anything` | also the calls that raise too few flags | `SizesAgree` |
| `topology` | `update_topo`, the main component, the slack weights, between powerflows | `TopologyTypeOK`, `FlagsSufficeOrCut`, `BranchesAreWhole`, `SlackSharesCurrent`, `OneIsland` |
| `newton` | devices that regulate are switched, moved and set between AC powerflows; the algorithm is changed, the grid copied and restored | `AcTypeOK`, `IteratesOnCurrent`, `WellPosed`, `SingularIffChoked`, `JudgesCurrent`, `RefusalIsDeserved`, `ResultsBalance`, `SolvesWithCurrent`, `NeverDroopHalfOpen` |
| `sweep` | the four sweep classes, three algorithms, one thread or two, limits checked or not | `ReportsTypeOK`, `CountsAgree`, `FlowsMatchInputs`, `ReportsTellRows`, `EveryRowIsTold`, `KeepsSweepPromise`, `ComputeReturns` |
| `archive` | a save, through a temporary file or in place, and a load at once; crashes | `TypeOK`, `KeepsArchivePromise`, `CallsEnd` |

Exclusions, each on purpose and each about a behaviour described below:
`elements` leaves out, in DC, what `ratio_dc` and its neighbours break
(`SoundInDC`), and the switching of generators, which breaks `ReuseIsInvisible`
and is in `reuse`. `ResetIsTold` names the five calls that make the grid forget a
reset (`Forgetting`, in CacheReuse). `anything` leaves out the calls that extend a
pattern (`KeepsPattern`, in CacheReuse). `topology` asks for the clean-up when no line
is half open (`NoneHalfOpen`, in Topology), and behaviours with a half-done
branch (`cut`) only solve from there. `newton` does not move a station that does
not regulate while its line is in droop (`SoundMove`, in AcAlgorithms). `sweep`
(`SoundSpec`, in SweepReports) keeps DC contingencies on one thread, with a
connected branch each, and masked buses without injections of their own. The
theorems are about the same clients, but for those said to hold for every one
(section 4). The properties with named exceptions
(`ResultsBalance`, `FlagsSufficeOrCut`) fail without each of them.

Every run lets every powerflow fail in every way at any time, so each property
is checked across failures. Deadlock is checked everywhere.

What the properties say:

* `FlagsSuffice`: for each family and each cached datum, *either* one of the flags
  that would rebuild it is raised *or* the datum is what a rebuild would give.
  This is the contract every container method owes, and the heart of the
  inductive invariant. `FlagsSufficeOrCut`: also when `update_topo` throws midway,
  unless a branch is left half updated.
* `AnswerIsCurrent`: a powerflow that returned results was solved on today's
  matrix, injections, slack, PV and PQ buses and weights, in one labelling.
  `KeepsPromise`: the same as a refinement of `PowerflowPromise`.
* `ReuseIsInvisible`: in every reachable state, the next powerflow prepares the
  same data, or throws, whether it reuses its cache or starts from nothing. It is
  stronger than `FlagsSuffice`, which lets a reused labelling hold a bus that a
  rebuild would drop.
* `FlagsOutliveFailures`: a step that drops a flag of a family is a solve of
  that family which told its algorithm every flag it drops.
* `ResetIsTold`: an algorithm without its internals is told `need_reset_solver`
  before it answers, and no call makes the grid forget that it must be but the five of
  `Forgetting`.
* `SizesAgree`: the guard on sizes does what its comment says: however few flags the
  client raises, the prepared matrix, vectors and positions have one size.
* `StatusConsistent`, `BranchesAreWhole`: the three statuses of a branch agree as
  the options want; one that is in the matrix has the coefficients of its statuses.
* `SlackSharesCurrent`: the weights by which the results share the slack, kept once
  for both families, are those of the powerflow that has just converged.
* `OneIsland`: after the clean-up, everything connected hangs together with the slack
  on the graph of what is left.
* `IteratesOnCurrent`: an iteration solves with the factors of the Jacobian the
  devices ask for now, whatever was kept, refused or given up before.
* `WellPosed`: as many equations as unknowns, none twice and none empty;
  `SingularIffChoked`: what is accepted has a pattern that can be factorized exactly
  when no part of the network chokes the controllers (below).
* `JudgesCurrent`, `RefusalIsDeserved`: convergence is judged on the equations of the
  devices as they are, and a powerflow is refused exactly when the same grid,
  solved for the first time, would be, but for a fast-decoupled algorithm chosen
  by name or restored.
* `SolvesWithCurrent`: a fast-decoupled iteration solves with factors of the matrices
  the grid asks for now, whatever failed, threw or ran under another algorithm
  since they were computed.
* `ResultsBalance`: what is reported at a bus adds up to what the network takes
  there, term by term, but for two exceptions.
* `NeverDroopHalfOpen`: however a side of an HVDC line is opened, its droop ends.
* `CountsAgree`, `FlowsMatchInputs`: when compute() returns, the mask, the voltages,
  the counts of all workers and the status tell the same story; flows are never
  made of voltages of one set of contingencies and masks of another.
* `ReportsTellRows`: a list of violations that can be read was made from the voltages
  stored beside it, leaving aside the branches and buses they were solved without,
  at a threshold no looser than the present one; `EveryRowIsTold`: when compute()
  returns, no row has a list that reads as "nothing found" without having been
  checked.
* `KeepsSweepPromise`: a row that can be read answers its own injections, targets and
  contingency, on the matrix without that contingency and no other.
* `ComputeReturns`, `CallsEnd`: liveness (see Fairness).
* `KeepsArchivePromise`: a load gives the very object whose save put the file there,
  or raises; only a file written in place while it was read may give anything.

### What the code does that it says it does not

Five runs end in a violation, each of a sentence of a comment or of the
documentation, which `PROJECT.json` quotes ("findings"):

| Run | What happens |
|---|---|
| `bus_off` | `deactivate_bus` calls getters (`need_reset_solver()`) where it means to raise flags: nothing is refused |
| `ratio_dc` | changing the ratio of a phase shifter does not refresh the DC injections, which depend on it |
| `dc_threads` | on several threads, the first contingency of a worker's range is taken out of a DC matrix its new algorithm has not built yet |
| `archive_crash` | a save removes the old file and then renames the new one: a crash or a failed rename in between leaves none |
| `zero_iteration` | a Newton-Raphson rebuild that converges before its first iteration leaves a pattern the linear solver never analysed, and the next powerflow refactorises it |

The models hold the code's behaviour in the following cases too. Each was seen as
a counterexample while modelling, and the passing runs are set up around it.

Cache and containers:

* When the cache is unusable, `_pre_process_solver_impl` resets the algorithm and
  rebuilds in the same call (`LSGrid.cpp:1447`); from `check_solution`, which runs no
  algorithm, or when the algorithm then throws, or the rebuild does (a slack bus or a
  regulated bus out of service, and weights that still have the right size), the next
  powerflow is not told to rebuild; nor is it after such a failure with the reuse
  switched off and on again, or after `unset_changes`; though `LSGrid.cpp:1536-1540`
  says an external algorithm is promised the flags. The built-in ones notice by
  themselves.
* A change of the pattern labels the buses anew and rebuilds everything but the slack
  weights (`LSGrid.cpp:1526-1530`), which the guard measured against the labelling
  before. When the bus status has come to differ from that one meanwhile with no flag
  left to tell (`reactivate_bus` raises none, `unset_changes` drops them), the weights
  keep the old size. The check of the AC algorithms on their input throws then
  (`BaseAlgo.cpp:83`); the DC one leaves the imbalance undistributed
  (`BaseDCAlgo.tpp:124`).
* Opening one side of a phase shifter goes through none of the hooks that refresh
  the DC injections (`TwoSidesContainer.hpp:317-326` against
  `TrafoContainer.hpp:221-263`): the next `dc_pf` keeps the shift of a branch
  that is no longer in the matrix.
* Switching a generator does not ask for a new bus status, as it does for every
  other element (`GeneratorContainer.cpp:352-368`): a bus it leaves empty stays in
  a reused labelling and is dropped by a rebuild. Converter stations do the same
  (`ConverterStationContainer.cpp:403-419`).
* `unset_changes` marks both families as soon as one has its reuse off
  (`LSGrid.hpp:658-662`): the pending changes of the other are dropped.
* `assign_slack_to_most_connected` removes the old slack, with flags nobody
  reads, before it looks for a producer at the new bus, and may throw
  (`LSGrid.cpp:2376-2408`).
* The buses of slack generators that are off stay slack buses
  (`GeneratorContainer.cpp:491-506`). One that is out of service makes every powerflow
  throw (`LSGrid.cpp:1785-1793`), and `consider_only_main_component` may keep the
  component of an off slack generator, and strand one that is on.
* When every slack generator is off, nothing throws: the weights are divided by 0
  (`GeneratorContainer.cpp:217-218`) and are not numbers. Newton-Raphson and the fast
  decoupled algorithm never meet their tolerance then, and fail (`Weighable`);
  Gauss-Seidel, which reads no weight (`GaussSeidelAlgo.cpp:18`), may converge with
  nobody reporting the power of the slack. Only `check_grid` speaks of it
  (`GeneratorContainer.cpp:174-181`).
* A branch switched off as a whole and closed on one side keeps its global status
  off with one terminal connected (`TwoSidesContainer.hpp:461`), whereas the
  getter's comment reads "both sides disconnected" (`LSGrid.hpp:1209-1210`).

Topology:

* The clean-up reads the raw bus of an open side, which keeps its last bus, and
  drops a half-open line because of it (`TwoSidesContainer.hpp:203-211`).
* It never looks at the SVCs (`LSGrid.cpp:2507-2516`), and `init_bus_status` neither
  (`LSGrid.hpp:500-511`): one outside the main component stays connected to a dead
  bus, and the next powerflow refuses the grid.
* `update_slack_weights` keeps the slack generators it was not given
  (`GeneratorContainer.cpp:675-682`; help_fun_msg.cpp:3944-3949 says otherwise).
* An `update_topo` that throws midway leaves the coefficients of the branches it had
  begun out of step with their statuses (`LSGrid.cpp:2293`).

Newton-Raphson:

* *Choked controllers.* `fill_voltage_control_solver_data` looks at the buses and the
  equations of each controller (`LSGrid.cpp:924-938`), not at what joins them, so
  that some singular Jacobians are accepted, although LSGrid.hpp:1119 says that the
  singular configurations throw. Which ones, `SingularIffChoked` says, in terms of
  buses: some part of the network shuts in more regulated buses than there are
  unknowns (angles and magnitudes) on its rim and groups with a controller in it. Two
  controllers at one bus that regulate two others are one case (the rim is
  the magnitude of their bus); controllers behind a reference bus of given
  voltage another (the rim is empty); a third needs four buses in a row, 1-2-3-4, the
  reference at 2, where a generator at 2 regulates 3 and one at 1 regulates 4: both
  go through the magnitude of 2.
* A line in droop that ends where a slack generator is on: it reports the flow in
  addition to the line (`LSGrid.cpp:1972-1991`). A station that regulates at a slack
  bus nothing else pins reports the reactive power of the controllers there as its
  own (`ConverterStationContainer.cpp:256-301`). `ResultsBalance` says these are
  the only two.
* Moving a station that does not regulate raises no flag the Jacobian is rebuilt
  for, although the flow of its line in droop changes rows
  (`LSGrid.hpp:1178`, `1189`).

Other AC algorithms:

* The fast-decoupled and Gauss-Seidel algorithms ignore the voltage-control groups
  without a word: `supports_remote_voltage_control` (`AlgorithmSelector.hpp:142`) is
  never consulted.
* `change_algorithm(name)` does not compute the coefficients of the branches that the
  fast-decoupled algorithm reads, as `change_algorithm(type)` does, although its comment
  says that "For known built-in names the enum-based routing applies"
  (`LSGrid.hpp:282-289`): the first powerflow throws. So does the one of a grid
  restored by `set_state`, which selects by name.
* The fast-decoupled algorithm reads the branches again, and fills its matrices, after a
  reset of its own (`need_factorize_`) or when a flag asks. Each suffices where
  both hold; after a failure only the first is left, which is what
  `src/tests/test_cache_reuse.cpp:580-611` samples and `SolvesWithCurrent` states.

Sweeps:

* `is_grid_connected_after_contingency` reuses the coefficients when their number
  fits, though the list changed (`BaseBatchSweep.hpp:600-609`;
  docs/security_analysis.rst:64).
* With masked buses, the reference slack is chosen by the rows it strands, but the
  rows it strands are not simulated although another slack bus is connected
  (`BaseBatchSweep.hpp:879-888`; docs/security_analysis.rst:95-97).
* In DC, a row of a ScenarioSweep without a branch to remove, after one with a
  contingency, is solved with the factors of the latter (`YbusPolicy.hpp:93-94`);
  masked rows make their own injections and the unmasked ones after them keep those
  of the "n" case (`BaseBatchSweep.hpp:1129-1132`).
* An algorithm that throws in a row leaves the coefficients of the contingency out
  of the worker's matrix, which on one thread is the member matrix
  (`BaseBatchSweep.cpp:136`). An exception while a thread is created, or in
  `init_thread` (outside the `try`), ends the process (`BaseBatchSweep.cpp:180-195`).
* After a `compute()` that threw, the lists of violations are empty, which reads as
  "converged, nothing found": the case `BaseBatchSweep.cpp:402-409` guards against when
  the base powerflow diverges. `EveryRowIsTold` is about those that return.
* The flows of a sweep in DC, and its limit checks, take `dc_x_tau_shift` off the flow of
  side 1, without `sn_mva` (`BaseBatchSolverSynch.hpp:305`, `399`,
  `BaseBatchSweep.hpp:228-232`); the results of the grid add it, times `sn_mva`
  (`TrafoContainer.hpp:163-164`). The comment reads "like the gridmodel results". Seen
  while reading: this arithmetic is not in the models.

`SoundClient` (CacheReuse.tla) excludes the bus switches, `unset_changes`, the
assignment that throws, and in DC the ratio and the single sides of a
transformer that shifts, and nothing else: under it `FlagsSuffice`,
`AnswerIsCurrent`, `KeepsPromise` and `SizesAgree` are theorems.

### Fairness

LSGrid is a passive, sequential library: nothing in it must eventually happen, and
no fairness is assumed of its clients. Two parts have processes of their own.

* `Sweep!Fairness`: weak fairness of each worker's next row (the operating system
  runs every thread, and an algorithm stops at its last allowed iteration) and of
  the end of `compute()` once all have ended (`join` returns). With it
  `ComputeReturns`: a compute() that has begun gives the object back.
* `Archive!FairSpec`: weak fairness of the saver's step and of each loader's (a call
  goes on: nothing in it waits for another process). With it `CallsEnd`. Nothing
  makes a crash, or a new call, happen.

## 4. The proofs

`tlapm` checks the eight proof modules with no open obligation. The constants
are arbitrary: any elements, buses, levels, lines, rows, threads, objects and
loaders, of any number unless said otherwise. What is assumed of them are the
assumptions named in the modules, which the runs evaluate on their instances:

| Assumption | What it asks |
|---|---|
| `ElementsAssumption`, `LSGridAssumption` | powers and shifts are naturals containing 0, generators and buses are numbers, slack weights are positive, there is a ratio and a base |
| `TopologyAssumption` | buses are numbered as in `SubstationContainer`; a request gives integers to positions; 1 is a weight or a level |
| `DevicesAssumption` | a grid of finitely many buses and devices, generators and lines bearing other names than compensators |
| `IslandsAssumption`, `SweepAssumption`, `ReportsAssumption` | finitely many branches, numbered buses, at least one slack bus, rows that are sequences, thresholds of a finite set |
| `ArchiveAssumption`, `FilesAssumption` | each class has parts; what the path holds beforehand may be another program's file, cut or too long, but the bytes of a file of this format are not altered inside: there is no checksum to notice |

The clients are those of the runs: any, unless the theorem names `SoundClient`,
`SoundTopologySpec`, `AcSpec` or `SoundSpec` (section 3, Exclusions). The invariants below
were checked by TLC, on the runs' instances, before they were proved.

### The cache (GridProofs, PipelineProofs, ReuseProofs)

* `TypeCorrect`, `StatusesAgree`: for every client.
* `FlagsAlwaysSuffice`, `AnswersAreCurrent`: `CacheInvariant == Typed /\
  FlagsSuffice /\ AnswerIsCurrent` is inductive. `AnswerIsCurrent` is not by
  itself: that an answer computed on a reused cache is current follows from what
  the flags said *before*; so `FlagsSuffice` is the strengthening, and it needs
  the types.
  - *Element changes* (GridProofs, `ElementAnnounced`): a change of one element
    alters only the pictures whose flags it raises. Then what was clean and is
    still unflagged is unaltered (`AnnouncedKeepsClean`).
  - *The pipeline* (PipelineProofs): one lemma per stage says what it leaves,
    `StagesDo` composes them; `PipelineKeeps`: if the flags suffice before, and
    no stage throws, every datum afterwards is a rebuild's; if one throws,
    what is still unflagged was not touched.
  - *Powerflows* (`PowerFlowClean`): success gives a fresh cache, so that dropping
    the flags is sound; the other family may only gain a flag.
    `CheckSolutionClean`, `AssignSlackClean`, `ResetKeepsClean` treat the rest and
    `NextClean` collects the cases.
* `PromiseKept`: with the invariant, a converging powerflow is the step `Solve` of
  PowerflowPromise (the elements do not move and the answer shows their picture)
  and every other step is `Change`.
* `FailuresKeepFlags`: `FlagsOutliveFailures`, from a case analysis of `Next`.
* `ResetAlwaysTold`: `ResetIsTold`, for every client, the unsound ones too. The step
  that needs an argument is the powerflow that throws: a full rebuild labels the
  buses in service, so that it either stops on a slack or regulated bus that is not
  (one of the five) or finds no slack at all and leaves an unusable cache unusable
  (`FullRebuildThrows`). `PatientClientIsTold`: without those five steps nothing is
  ever forgotten, and every algorithm that lost its internals is told before it answers.
* `SizesAlwaysAgree`: for sound clients, since fresh data share one labelling.
  `GuardKeepsSizes`: for every client that extends no pattern (`KeepsPattern`),
  whatever flags it drops. There `SizesAgree` rests on the guard alone, which asks
  nothing of the slack vector, and of the PV and PQ positions only how many there are
  (`LSGrid.cpp:1434-1442`). The invariant `SizesGuarded` says what makes that enough:
  no flag labels the buses anew but those that redo everything, and then on the live
  buses, so that no stage throws between the slack and the weights but for a slack
  or regulated bus out of service; a pipeline that stops there leaves as many PV and PQ
  labels as injections, and as many slack labels as buses (`StagesLabel`). A
  client that closes a branch or moves one, and drops flags, is not covered: for it the
  statement is false (section 3).
* `ReuseAlwaysInvisible`: wherever no generator is alone on its bus (`NoneAlone`), the
  next powerflow prepares what it would without a cache, and throws when it
  would. Beyond the invariant this needs *when* the pipeline throws:
  `StagesSucceed` says that in a labelling that holds the buses in use only a
  voltage target makes it throw, and `ReusedPrepares` and `FreshPrepares` that both
  labellings are the live buses. Without `NoneAlone` the statement is false: a
  generator alone on its bus can be switched without a new bus status.

### Topology (TopologyProofs)

* `TopologyTypeCorrect`, `BranchesAlwaysWhole`, `SlackAlwaysShared`,
  `CleanUpLeavesOneIsland`: for every client. For branches, the invariant (`SoundBranches`)
  says of each one that `update_topo` did not leave half done that its three statuses
  agree as its options want and that its coefficients are those of its statuses. For the
  weights, that each family's labelling and the common vector are right or a flag
  asks for them, which holds whatever was left half done. The main component is
  compared through the sets of buses closed under the branches, which is why
  Topology defines what hangs together by them and not by a recursion.
* `FlagsSufficeUntilCut`, `AnswersAreCurrentUntilCut`: `TopologyInvariant` adds to
  `FlagsSuffice` that what no flag asks to rebuild uses buses of its labelling only
  (`InsideEverywhere`). The clean-up needs it: it tells a family nothing but that
  its live buses are others, so where they are the same, nothing outside them may
  have been in use. `update_topo` announces, position by position up to where it
  throws, what its containers read (`UpdateTopoAnnounced`); the proofs of the other
  steps are those of the cache.

### AC powerflows (NewtonProofs, ResultsProofs)

The invariant `AcInv` says that each part that is kept (`prep`, the Jacobian's
ledger and pattern, what was analysed, what was factorised, the fast-decoupled
matrices) is current or a flag is raised for which the next powerflow redoes it; what
a powerflow under way has refreshed; and `PartlyOk`, that a line in droop has
both sides connected, without which the deactivation of a line, which raises no
flag for the droop, could not be shown to leave it alone. It says too (`PrepOwes`)
that there is a slack and that its buses and those of the injections are in service,
or a flag is raised: a stage that is skipped does not look at them again, so that
without this a powerflow might be accepted because of what it kept.

* `AcTypeCorrect`, `DroopsAreClosed`, `CurrentIsJudged`, `NewtonIsCurrent`,
  `FastDecoupledIsCurrent`, `RefusalsAreDeserved` follow from it.
* `JacobianIsWellPosed`: there are as many rows as columns because each equation is
  paired with an unknown of its own (`PartnersPair`): the reference trades its angle
  for the power absorbed, a group the voltage it controls for the power of its first
  controller, and the other controllers bring one of each.
* `SingularWhenChoked`: `Regular` is Hall's condition on sets of columns; by rows it
  says that no equations use fewer unknowns than they are (`HallByRows`). A part of
  the network that chokes its controllers gives such equations: its balances, the
  voltages it shuts in and the sharing of the groups that answer (`ChokedIsShort`).
  Conversely, the balances among such equations delimit a part of the network, and
  counting what each group brings shows that it chokes them (`ShortIsChoked`): a group
  has one more unknown than it has sharing equations (`LeadsCount`). Both are counts of
  finite sets; neither needs an induction, nor the matching Hall's theorem builds.
* `LocalControlIsRegular`, from it: where each regulated bus has one of its
  controllers on it, or a compensator regulates it from anywhere, nothing is choked
  and the Jacobian can be factorized, however the buses are joined.
* `ReportsBalance`: the prepared weights are the present ones, so that the slack is
  reported where it was absorbed and nowhere else; the reported terms at a bus are
  bags without repetition, so that bags of disjoint sets can be added and taken away
  as sets (`BagsOfSets`).

### Sweeps (SweepProofs)

`SweepInv` says, besides the properties, that each worker is within its share of
the rows, with no answer ahead of it and a report on every row behind; that, unless it
has failed, its matrix, its algorithm and its flags are those of no contingency
between rows (`Clean`), so that a row can be answered for itself; that the shares
cover every row (`SplitEnd`); and that the coefficients are those of the
present list while `compute()` runs. `FlowsAlwaysMatch`, `ReportsAlwaysTell`,
`RowsAlwaysTold`, `SweepTypeCorrect` follow; `SoundNeverCrashes` adds that no worker
takes a branch out of a matrix not yet built, which is what the run `dc_threads`
shows of other clients. `SweepPromiseKept` maps each step to one of SweepPromise:
a step that changes a problem withdraws every answer (`AnswersWithdrawn`), and a row
is given the answer to its own (`AnswersRight`).

`CountsAlwaysAgree` needs an invariant of its own over that one, `CountInv`: a worker
that has not failed has counted the rows behind it that could be tried, and those that
converged, which are the ones that hold voltages; none ahead is marked; a chain that
goes on has not been broken. A row of one worker is in no other's share (`CountsApart`),
and at the end the shares add up to all the rows, whatever their number and the
number of threads (`SumOfParts`, by the least number of workers for which they
would not).

### Archive (ArchiveProofs)

`ArchiveTypeCorrect`, `ArchivePromiseKept`: a loader that has read a prefix of an
object's file knows which file (`KnowsItsFile`): the one behind the path, or the one
it opened and a rename has since replaced; what is at the path is one object's
whole or no valid file (`ReadsWhole`). Each load then maps to the object whose save
put that file there, or to a refusal; a file written in place while open is the
promise's one exception, as in the run.

### What stays with TLC

* Liveness: `ComputeReturns` and `CallsEnd`, under fairness, are beyond this prover.
* `ReuseIsInvisible` where a generator is alone on its bus (it is false there in
  general; `elements` shows it where generators are not switched), and
  `SizesAgree` for a client that drops flags and extends a pattern (false in general).
* The five violations.

## 5. What is left out, and why

* Voltages, admittances, convergence: real numbers. Whether an algorithm
  converges is a choice of the environment; the voltage targets appear as the
  buses they are written to and, in Devices, as a few levels that agree or not.
* `v` and `coeffs_zero` flags are carried but no stage of LSGrid reads them (the
  Newton-Raphson system does); a powerflow rewrites the voltage targets every time.
* Static generators and storage units: the same container as loads. The reactive
  power of a load: same path and flag as its active power.
* Results in LSGrid (`compute_results`) are modelled as reading every live bus
  through the labelling, which may throw; the switch that skips them is assumed
  on. Results says what the devices report.
* HVDC lines and SVCs appear in the AC Newton-Raphson chain only; their DC
  injections go through the code of the generators'.
* The half iterations of the fast-decoupled algorithm as numbers, and branches open on
  one side, which it refuses (its scene switches a whole line); the adaptive
  refactorisation and scaling policies, which choose among steps of one solve.
* Which limits a sweep finds violated (numbers; that they are checked, of what and
  at which threshold, is modelled), its timers, and the lazy voltages of its
  DC rows (`BaseBatchSolverSynch.hpp:684-741`), which are recomputed from the angles.
* The registration of external algorithms; the checks of `check_grid` one by one.
* Format conversions and bindings have no state of their own; the Python package is
  a client. Its `ContingencyAnalysis` keeps copies of the flows and a flag that they
  are computed (`contingencyAnalysis.py:489-545`), which `add_single_contingency`
  (418) does not clear although the C++ object drops its results and reorders its
  rows: a `get_flows` after it reads the old copies with the new order.

The map of `PROJECT.json` covers a fifth of the C++ lines. Of the rest,
`help_fun_msg.cpp` and `.hpp` (8490 lines) are docstrings; most of what remains is
numerics (the entries of the Jacobian, admittances, losses, flows), getters,
bindings, readers of grid files and timers, none of which has a state to check.

## 6. What could come next

1. The Python analyses over `Sweep`, as clients with state.
2. The algorithm registry and the plugins' lifetime.
