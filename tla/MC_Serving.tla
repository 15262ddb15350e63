---------------------------- MODULE MC_Serving ----------------------------
EXTENDS Serving

Q(m, via, caller, token, targets) ==
    [method |-> m, via |-> via, caller |-> caller, token |-> token, targets |-> targets]

X == <<"n", "x">>
Y == <<"n", "y">>
All == <<"n", "*">>

MCTasks == {1, 2}
MCOffers ==
    [t \in MCTasks |->
        IF t = 1
        THEN {Q("BatchApply", "grpc", "alice", FALSE, <<X, Y>>),
              Q("BatchApply", "json", "alice", TRUE, <<>>),
              Q("Revert", "grpc", "alice", FALSE, <<X>>),
              Q("GetSecret", "json", "alice", TRUE, <<X>>)}
        ELSE {Q("SubscribeSecrets", "grpc", "bob", FALSE, <<All>>),
              Q("GetAllSecrets", "grpc", "bob", FALSE, <<All>>),
              Q("GetAll", "json", "bob", TRUE, <<All>>),
              Q("Subscribe", "sse", "bob", TRUE, <<All>>)}]

MCArgs ==
    {[tls |-> "complete", http |-> "off",      mode |-> "enforce",    events |-> FALSE],
     [tls |-> "off",      http |-> "token",    mode |-> "permissive", events |-> TRUE],
     [tls |-> "complete", http |-> "missing",  mode |-> "enforce",    events |-> FALSE],
     [tls |-> "missing",  http |-> "off",      mode |-> "disabled",   events |-> FALSE]}

MCMaxPolicy == [mode \in {"disabled", "permissive", "enforce"} |-> IF mode = "enforce" THEN 2 ELSE 0]

Rule(vs, ps) == [verbs |-> vs, patterns |-> ps]
Empty   == [id \in {} |-> {}]
OnlyX   == [id \in {"spiffe:a"} |-> {Rule({"write"}, {<<"n", "x">>})}]
OnlyY   == [id \in {"spiffe:a", "bob"} |->
               IF id = "bob" THEN {Rule({"read"}, {<<"*", "*">>})}
               ELSE {Rule({"write"}, {<<"n", "y">>, <<"n">>})}]
MCTables == {OnlyX, OnlyY}

\* alice's certificate has a SAN URI and a CN, bob's only a CN.
MCSubject == [c \in {"alice", "bob"} |->
                 IF c = "alice" THEN [uris |-> <<"spiffe:a">>, cns |-> <<"alice">>]
                 ELSE [uris |-> <<>>, cns |-> <<"bob">>]]
=============================================================================
