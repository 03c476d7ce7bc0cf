------------------------------ MODULE Jacobian ------------------------------
(***************************************************************************)
(* The Jacobian of the Newton-Raphson system with a distributed slack.     *)
(* The base block, the slack, the voltage control and the HVDC droop claim *)
(* its rows (equations) and columns (unknowns) in one ledger, one after    *)
(* the other, and declare the entries they write.                          *)
(* A row is <<"p", bus>>, <<"q", bus>>, <<"voltage", regulated bus>> or    *)
(* <<"share", controller>>; a column is <<"theta", bus>>, <<"vm", bus>>,   *)
(* <<"absorbed", 0>> or <<"qc", controller>>.                              *)
(***************************************************************************)
EXTENDS Devices

CONSTANTS Wires,       \* the pairs of buses joined by branches that stay closed
          LineEnds     \* the pair of buses joined by the branch `line`

(* What one powerflow knows: p is what LSGrid prepared, seen what the      *)
(* system pulled from the grid.                                            *)
PqBuses(p) == Live \ (p.slack \cup p.pv)
Reference(p) == CHOOSE b \in p.slack : TRUE       \* the first slack bus, whichever it is
First(group) == CHOOSE c \in group : TRUE         \* the first controller of a group

GroupOf(seen, r) == {c \in seen.groups : c.reg = r}
Regulated(seen)  == {c.reg : c \in seen.groups}

-----------------------------------------------------------------------------
(* The claims.                                                             *)

(* Mutant: a slack bus has no reactive equation, its magnitude free or not. *)
BaseClaimsPqOnly(p, seen) ==
    [rows |-> {"p"} \X (p.pv \cup PqBuses(p)) \cup {"q"} \X PqBuses(p),
     cols |-> {"theta"} \X (p.pv \cup PqBuses(p)) \cup {"vm"} \X PqBuses(p)]

BaseClaims(p, seen) ==
    LET free == PqBuses(p) \cup seen.free
    IN [rows |-> {"p"} \X (p.pv \cup PqBuses(p)) \cup {"q"} \X free,
        cols |-> {"theta"} \X (p.pv \cup PqBuses(p)) \cup {"vm"} \X free]

SlackClaims(p) ==
    [rows |-> {"p"} \X p.slack,
     cols |-> {"theta"} \X (p.slack \ {Reference(p)}) \cup {<<"absorbed", 0>>}]

(* N reactive unknowns, one voltage equation and N - 1 sharing ones.       *)
GroupClaims(seen, r) ==
    LET group == GroupOf(seen, r)
    IN [rows |-> {<<"voltage", r>>} \cup {"share"} \X {c.id : c \in group \ {First(group)}},
        cols |-> {"qc"} \X {c.id : c \in group}]

Claims(p, seen) == {BaseClaims(p, seen), SlackClaims(p)}
                   \cup {GroupClaims(seen, r) : r \in Regulated(seen)}
RowsOf(claims) == UNION {x.rows : x \in claims}
ColsOf(claims) == UNION {x.cols : x \in claims}

-----------------------------------------------------------------------------
(* The entries.                                                            *)

Joined(p) == {e \in Live \X Live : \/ e[1] = e[2]
                                   \/ {e[1], e[2]} \in Wires
                                   \/ p.line /\ {e[1], e[2]} = LineEnds}
PowerEntries(p) == UNION {{<<"p", e[1]>>, <<"q", e[1]>>} \X {<<"theta", e[2]>>, <<"vm", e[2]>>} :
                             e \in Joined(p)}
SlackEntries(p) == {<<<<"p", b>>, <<"absorbed", 0>>>> : b \in p.slack}
GroupEntries(seen, r) ==
    LET group == GroupOf(seen, r)
        first == First(group)
    IN {<<<<"voltage", r>>, <<"vm", r>>>>}
       \cup {<<<<"q", c.bus>>, <<"qc", c.id>>>> : c \in group}
       \cup {<<<<"voltage", r>>, <<"qc", c.id>>>> : c \in {x \in group : x.id[1] \in Svcs}}
       \cup UNION {{<<"share", c.id>>} \X {<<"qc", c.id>>, <<"qc", first.id>>} : c \in group \ {first}}
DroopEntries(seen) ==
    UNION {{<<"p", d.bus[1]>>, <<"p", d.bus[2]>>} \X {<<"theta", d.bus[1]>>, <<"theta", d.bus[2]>>} :
              d \in seen.droops}

(* An entry whose row or column nobody claimed is dropped.                 *)
Pattern(p, seen) ==
    LET claims == Claims(p, seen)
    IN [claims  |-> claims,
        entries |-> (RowsOf(claims) \X ColsOf(claims))
                    \cap (PowerEntries(p) \cup SlackEntries(p) \cup DroopEntries(seen)
                          \cup UNION {GroupEntries(seen, r) : r \in Regulated(seen)})]

-----------------------------------------------------------------------------
(* What a Jacobian must be to be factorized.                               *)

Square(J) == /\ \A x, y \in J.claims : x # y => x.rows \cap y.rows = {} /\ x.cols \cap y.cols = {}
             /\ Cardinality(RowsOf(J.claims)) = Cardinality(ColsOf(J.claims))
NoneEmpty(J) == /\ RowsOf(J.claims) = {e[1] : e \in J.entries}
                /\ ColsOf(J.claims) = {e[2] : e \in J.entries}
(* Hall's condition: no set of unknowns appears in too few equations.      *)
Regular(J) == \A cols \in SUBSET ColsOf(J.claims) :
                  Cardinality({e[1] : e \in {x \in J.entries : x[2] \in cols}}) >= Cardinality(cols)

(* Each unknown of the network has a balance equation of its own, the      *)
(* power the slack absorbs that of the reference.  The controllers are     *)
(* choked when some part of the network shuts in more regulated buses than *)
(* there are unknowns on its rim and groups that answer: with a controller *)
(* inside, or a compensator, which is in the equation of the voltage.      *)
Unknowns(J) == {u \in ColsOf(J.claims) : u[1] # "qc"}
Balance(p, u) == CASE u[1] = "vm"       -> <<"q", u[2]>>
                   [] u[1] = "theta"    -> <<"p", u[2]>>
                   [] u[1] = "absorbed" -> <<"p", Reference(p)>>
Reach(J, p, inner) == {u \in Unknowns(J) : \E v \in inner : <<Balance(p, v), u>> \in J.entries}
ShutIn(J, p, seen, inner) == {r \in Regulated(seen) : <<"vm", r>> \in Reach(J, p, inner)}
Answering(J, p, seen, inner) ==
    {c.reg : c \in {d \in seen.groups : \/ <<"vm", d.bus>> \in inner
                                        \/ d.id[1] \in Svcs /\ d.reg \in ShutIn(J, p, seen, inner)}}
Choked(J, p, seen) ==
    \E inner \in SUBSET Unknowns(J) :
        Cardinality(ShutIn(J, p, seen, inner)) >
            Cardinality(Reach(J, p, inner) \ inner) + Cardinality(Answering(J, p, seen, inner))
=============================================================================
