------------------------------ MODULE Statements ------------------------------
(***************************************************************************)
(* All statements: those of Commands, and the queries, which change        *)
(* nothing and which CheckPrivilegeForStatement lets through like them.    *)
(***************************************************************************)
EXTENDS Commands, Conditions, Queries

vars == <<command_vars, query_vars>>

\* The instance: an account that exists and one that does not, the three kinds of
\* object, and one administrator, who connects from an address that localhost stands
\* for.
TwoAccounts == {<<"guest", "localhost">>, <<"u", "%">>}
ThreeObjects == {<<"*", "*">>, <<"goods_db", "*">>, <<"goods_db", "t">>}
NoneOrOneBit == {{}, {"SELECT"}, {"INSERT"}}
Administrator == {<<"admin", "127.0.0.1">>}

\* One row of each value; every condition of at most one NOT, AND or OR over these
\* atoms, and none at all.
OneOfEach == {<<Number(0), Null, Number(1)>>}
Atoms ==
    {Column("x"), Column("y"), Param, CaseExpr, Between(Column("x"), Const(Number(0)), Const(Number(1)))}
    \cup {Compare(op, Column("x"), Const(v)) : op \in {"=", "<>", "<"}, v \in {Number(1), Null}}
    \cup {Compare(op, Column("x"), Const(Number(0))) : op \in {">", "<=", ">="}}
    \cup {Compare("=", Column("y"), Const(Number(1)))}
    \cup {NullTest(Column("x"), is_not) : is_not \in BOOLEAN}
    \cup {In(Column("x"), list, op) : list \in {<<Const(Number(0)), Const(Null)>>,
                                             <<Param, Const(Number(1))>>, <<Param>>},
                                    op \in {"=", "<>"}}
AllClauses ==
    {NoExpr} \cup Atoms \cup {Not(a) : a \in Atoms}
    \cup {BoolExpr(op, args) : op \in {"AND", "OR"}, args \in Atoms \X Atoms}
Minus1To2 == -1 .. 2

\* What a clause has become when PlanSelect looks at it
BoundClause(clause) == BindExpression(Translate(clause))

Init == CommandsInit /\ QueriesInit

QueryStatement ==
    /\ CheckPrivilegeForStatement("t", "SELECT")
    /\ QuerySelects

Next ==
    \/ CommandsNext /\ UNCHANGED query_vars
    \/ /\ focus = "queries"
       /\ QueryStatement \/ QueryNext
       /\ UNCHANGED command_vars

Spec == Init /\ [][Next]_vars

\* A WHERE clause of the forms that every stage knows chooses the rows SQL says: it is
\* true on them, not merely not false.  Where SQL leaves a row unknown, only a clause
\* with a NOT may choose it (a comparison with NULL is false, so its negation is true).
WhereMeansSQL ==
    exec.at # "idle" /\ Filters /\ Supported(query.where) =>
        \A i \in DOMAIN sheet :
            LET meaning == MeaningSQL(query.where, sheet[i])
            IN  /\ meaning = "true" => i \in Chosen
                /\ meaning = "false" => i \notin Chosen
                /\ meaning = "unknown" /\ ~Negates(query.where) => i \notin Chosen

Symmetry == Permutations(Runners) \cup Permutations(Visitors)
=============================================================================
