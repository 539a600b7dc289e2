--------------------------- MODULE MCScopeClient ----------------------------
(* ScopeClient.tla on addresses of four bits: subnets of four and of eight    *)
(* addresses, nested, with two and six leasable ones. Enough for a range to   *)
(* be widened, narrowed, inverted, to touch both ends of its subnet and to    *)
(* leave it, and for masks that have a gap or leave no hosts.                 *)
EXTENDS ScopeClient

CONSTANTS a, b

Quarter == 12
Half == 8

Scope(name, mask, lo, hi) == [name |-> name, mask |-> mask, lo |-> lo, hi |-> hi]
Change(id, name, lo, hi) == [op |-> "update", id |-> id, name |-> name, lo |-> lo, hi |-> hi]
On(op, id) == [op |-> op, id |-> id]
Create(name, mask, lo, hi) == [op |-> "create", name |-> name, mask |-> mask, lo |-> lo, hi |-> hi]

\* One caller: every operation, every kind of range and of mask.
SerialAsks ==
  {On("list", 4), On("get", 4), On("delete", 4)}
    \cup {Create(a, m, l, h) : m \in {0, Quarter, Half, 14}, l \in {4, 5}, h \in {6, 7, 9}}
    \cup {Create(a, 16, 5, 6), Create(a, 10, 4, 4), Create(a, Quarter, 16, 6), Create(a, Quarter, 6, 5), Create(Unfit, Quarter, 5, 6), Create(a, Half, 1, 2)}
    \cup {Change(4, n, l, h) : n \in {Omit, b}, l \in {Omit, 4, 6, 8}, h \in {Omit, 5, 7}}

SerialEdits == {[id |-> 4, scope |-> Scope(n, Quarter, 5, h)] : n \in {a, b}, h \in {5, 6}}
                 \cup {[id |-> 0, scope |-> Scope(a, Half, 3, 6)], [id |-> 0, scope |-> Scope(a, Quarter, 1, 2)]}

\* Two callers: what can collide.
RacingAsks ==
  {On("list", 4), On("delete", 4), Create(a, Quarter, 5, 5), Create(a, Half, 1, 5),
   Change(4, Omit, 6, Omit), Change(4, Omit, Omit, 6)}
=============================================================================
