----------------------------- MODULE SqlStrings -----------------------------
(***************************************************************************)
(* An Sql_string of src/pgfe while it is composed by append() and by       *)
(* replace_parameter(). named_parameters_ is a cache of iterators to the   *)
(* nodes of the list fragments_, so that nodes have an identity here, and  *)
(* positional_parameters_ is a cache of the positions present.             *)
(***************************************************************************)
EXTENDS Integers, FiniteSets, SequencesExt

CONSTANTS
  ParameterName,  \* names of parameters
  MaxParameters,  \* max_parameter_count()
  MaxFragments    \* bound: fragments of the string, and of what is put into it

VARIABLES
  fragments_,              \* the nodes: [type, str, id]
  positional_parameters_,  \* position |-> whether it is present
  named_parameters_,       \* ids of nodes
  thrown                   \* history: a composition has thrown

vars == <<fragments_, positional_parameters_, named_parameters_, thrown>>

Positions == 1..MaxParameters

\* A fragment without a parameter is a text.
Text == [type |-> "text", str |-> "text"]
Positional(n) == [type |-> "positional_parameter", str |-> n]
Named(name) == [type |-> "named_parameter", str |-> name]
Strings == {Text} \union {Positional(n) : n \in Positions} \union {Named(p) : p \in ParameterName}

\* The strings that are put into it have been parsed: their flags of positions.
Flags(strings) ==
  LET present == {n \in Positions : Positional(n) \in ToSet(strings)} IN
  [i \in 1..Max(present \union {0}) |-> i \in present]
Parsed(n) ==
  {s \in UNION {[1..k -> Strings] : k \in 1..Min({n, 2})} :
     Len(Flags(s)) + Cardinality({p \in ParameterName : Named(p) \in ToSet(s)}) <= MaxParameters}

\* Ids that no node in sight has.
Fresh ==
  LET used == ToSet(named_parameters_) \union {f.id : f \in ToSet(fragments_)} IN
  SelectSeq([i \in 1..(4 * MaxFragments) |-> i], LAMBDA i : i \notin used)
Node(f, id) == [type |-> f.type, str |-> f.str, id |-> id]
Is(f, s) == f.type = s.type /\ f.str = s.str

\* Mutant: each node of a name.
Named_parameters_all(nodes) ==
  LET named == SelectSeq(nodes, LAMBDA f : f.type = "named_parameter") IN
  [i \in DOMAIN named |-> named[i].id]

\* named_parameters(): the first node of each name.
Named_parameters(nodes) ==
  LET First(i) ==
        nodes[i].type = "named_parameter" /\ \A j \in 1..(i - 1) : ~Is(nodes[j], nodes[i])
      first == SelectSeq([i \in DOMAIN nodes |-> i], First)
  IN [i \in DOMAIN first |-> nodes[first[i]].id]

Init ==
  fragments_ = <<>> /\ positional_parameters_ = <<>> /\ named_parameters_ = <<>> /\ thrown = FALSE

-----------------------------------------------------------------------------

\* update_cache(): the positions of both, and the names of the nodes as they are
\* now. It throws if these are too many, and fragments_ is then replaced by the
\* copy made before, whose nodes are others than those of named_parameters_.
Update_cache(nodes, rhs) ==
  LET others == Flags(rhs)
      flags == [i \in 1..Max({Len(positional_parameters_), Len(others)}) |->
                  \/ i <= Len(positional_parameters_) /\ positional_parameters_[i]
                  \/ i <= Len(others) /\ others[i]]
      names == Named_parameters(nodes)
  IN
  IF Len(flags) + Len(names) <= MaxParameters
  THEN /\ fragments_' = nodes
       /\ positional_parameters_' = flags /\ named_parameters_' = names
       /\ UNCHANGED thrown
  ELSE /\ fragments_' = [i \in DOMAIN fragments_ |-> Node(fragments_[i], Fresh[i])]
       /\ thrown' = TRUE
       /\ UNCHANGED <<positional_parameters_, named_parameters_>>

\* append()
Append_string(rhs) ==
  LET fresh == Fresh IN
  /\ ~thrown /\ Len(fragments_) + Len(rhs) <= MaxFragments
  /\ Update_cache(fragments_ \o [i \in DOMAIN rhs |-> Node(rhs[i], fresh[i])], rhs)

\* The nodes of the name.
Occurrences(name) == {i \in DOMAIN fragments_ : Is(fragments_[i], Named(name))}

\* replace_parameter(): each of the occurrences of the name is replaced by new
\* nodes; one in the replacement is not replaced again.
Replace_parameter(name, rhs) ==
  LET fresh == Fresh
      Put(nodes, f) ==
        IF ~Is(f, Named(name)) THEN Append(nodes, f)
        ELSE nodes \o [i \in DOMAIN rhs |-> Node(rhs[i], fresh[Len(nodes) + i])]
  IN
  /\ ~thrown /\ Occurrences(name) # {}
  /\ Update_cache(FoldLeft(Put, <<>>, fragments_), rhs)

\* Bound: what is put in is as long as there is room for it.
Next ==
  LET room == MaxFragments - Len(fragments_) IN
  \/ \E rhs \in Parsed(room) : Append_string(rhs)
  \/ \E name \in ParameterName :
       LET occurrences == Cardinality(Occurrences(name)) IN
       /\ occurrences > 0
       /\ \E rhs \in Parsed(1 + room \div occurrences) : Replace_parameter(name, rhs)

Spec == Init /\ [][Next]_vars

-----------------------------------------------------------------------------

\* The number a parameter has in to_query_string(): its position, or the place of
\* its name after the positions.
Number(f) ==
  IF f.type = "positional_parameter" THEN f.str
  ELSE LET places == {i \in DOMAIN named_parameters_ :
                        \E g \in ToSet(fragments_) : g.id = named_parameters_[i] /\ g.str = f.str}
       IN IF places = {} THEN 0 ELSE Len(positional_parameters_) + Min(places)

\* Whatever has been appended and replaced, every parameter of the query has one
\* number within parameter_count(), equal names have the same number and different
\* parameters different ones, each number above the positions is used, and no
\* iterator to a node that is gone is kept, unless a composition has thrown.
QueryNumbered ==
  LET parameters == {f \in ToSet(fragments_) : f.type # "text"} IN
  ~thrown =>
    /\ ToSet(named_parameters_) \subseteq {f.id : f \in ToSet(fragments_)}
    /\ \A f \in parameters :
         Number(f) \in 1..(Len(positional_parameters_) + Len(named_parameters_))
    /\ \A f, g \in parameters : Number(f) = Number(g) <=> Is(f, g)
    /\ (Len(positional_parameters_) + 1)..(Len(positional_parameters_) + Len(named_parameters_))
         \subseteq {Number(f) : f \in parameters}
    /\ \A n \in DOMAIN positional_parameters_ :
         positional_parameters_[n] => \E f \in parameters : Is(f, Positional(n))
=============================================================================
