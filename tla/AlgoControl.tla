---------------------------- MODULE AlgoControl ----------------------------
(***************************************************************************)
(* The change flags a grid keeps for one solver family (AlgoControl), as   *)
(* the set of the flags that are raised, and the rules by which a powerflow *)
(* reads them: which cached datum each flag makes the next solve rebuild.  *)
(***************************************************************************)

Flags == { "reset",          \* need_reset_solver
           "dimension",      \* change_dimension
           "slack_part",     \* slack_participate_changed
           "slack_weight",   \* slack_weight_changed
           "pv",             \* pv_changed
           "pq",             \* pq_changed
           "sbus",           \* need_recompute_sbus
           "ybus",           \* need_recompute_ybus
           "sparsity",       \* ybus_change_sparsity_pattern
           "v",              \* v_changed
           "coeffs_zero",    \* ybus_some_coeffs_zero
           "one_el" }        \* one_el_change_bus

AllChanged  == Flags         \* tell_all_changed, and the default constructor
NoneChanged == {}            \* tell_none_changed

AnyOf(flags, raised) == flags \cap raised # {}

(* The flags that make the next solve of the family rebuild each datum.    *)
(* Each set includes "reset" and "dimension": these two redo everything.   *)
RedoFlags   == {"reset", "dimension"}
LabelFlags  == RedoFlags \cup {"sparsity"}
MatFlags    == LabelFlags \cup {"ybus"}
SlackFlags  == LabelFlags \cup {"slack_part", "pv", "pq"}
InjFlags    == SlackFlags \cup {"sbus"}
WeightFlags == RedoFlags \cup {"slack_part", "pv", "slack_weight"}
SlackIdFlags == RedoFlags \cup {"slack_part"}
LimitFlags  == RedoFlags \cup {"slack_part", "pv", "pq", "sbus"}
StatusFlags == RedoFlags \cup {"one_el"}

=============================================================================
