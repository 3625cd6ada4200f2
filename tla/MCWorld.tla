------------------------------ MODULE MCWorld -------------------------------
(* A model-checking instance of World: the commands of readme.md, and programs *)
(* that split communicators, the first one that of test/comm/hello_4.cc.       *)
EXTENDS World

SomeSpecial == {Text("$HOME")}

Args(n) == [i \in 1..n |-> <<Text("a")>>]
Prog == Text("prog")

\* ffrun run -H <host>:<n> -p prog -- ...
OneNode(n, args) ==
    [mode |-> "np", text |-> <<<<1, n>>>>, names |-> [n1 |-> {1, 3}],
     container |-> <<>>, program |-> Prog, args |-> args]

\* ffrun generate on two hosts; the first one is listed twice.
Scripts(args) ==
    [mode |-> "generate", text |-> <<<<2, 1>>, <<1, 2>>, <<2, 3>>>>, names |-> [n1 |-> {}],
     container |-> <<>>, program |-> Prog, args |-> args]

\* ffrun run --hostmap ... on two nodes.
TwoNodes(text, args) ==
    [mode |-> "ports", text |-> text, names |-> [n1 |-> {1, 3}, n2 |-> {2}],
     container |-> <<>>, program |-> Prog, args |-> args]

\* ffrun run --hostmap ... -s -- [sudo] singularity exec -f image prog ...
Container(sudo, args) ==
    [TwoNodes(<<<<2, <<3, 2>>>>, <<1, <<2>>>>>>, args) EXCEPT
       !.container = (IF sudo THEN <<<<Text("sudo")>>>> ELSE <<>>)
            \o <<<<Text("singularity")>>, <<Text("exec")>>,
                 <<Token("short", "f")>>, <<Text("image")>>>>]

ByHand(ip, port, text, extra) ==
    extra \o <<Long("r_myip"), Text(ip), Long("r_myport"), port, Long("r_hostmap"), Text(text)>>

\* Command lines a user may try; the first two are in order.
Manual ==
    LET one == <<<<1, <<3>>>>>>
        two == <<<<1, <<2>>>>, <<1, <<3>>>>>>
    IN  [mode |-> "manual", names |-> [n1 |-> {}], argvs |-> [i \in 1..9 |-> <<Prog>> \o
         << ByHand(1, Num(3), one, <<>>),
            ByHand(1, Num(3), one, <<Token("short", "r_help"), Text("a")>>),
            ByHand(1, Num(3), one, <<Long("r_help")>>),
            ByHand(1, Num(3), one, <<Token("short", "v")>>),
            ByHand(1, Num(3), one, <<Text("a")>>),
            ByHand(1, Text("a"), one, <<>>),
            ByHand(1, Num(2), one, <<>>),
            ByHand(1, Num(3), two, <<>>),
            <<Long("r_myip"), Text(1), End>> >>[i]]]

\* n processes on one node.
Many(n) == [OneNode(n, <<>>) EXCEPT !.mode = "ports", !.text = <<<<1, [i \in 1..n |-> 9 - i]>>>>]

Commands ==
    {OneNode(n, args) : n \in 1..4, args \in {<<>>, Args(2)}}
    \union {Manual} \union {Scripts(args) : args \in {<<>>, Args(1) \o <<<<Blank>>>>}}
    \union {TwoNodes(text, <<<<Text("a"), Token("long", "r_myip")>>, <<End>>>>) :
              text \in {<<<<2, <<3, 2>>>>, <<1, <<2>>>>>>,
                        <<<<1, <<2, 3>>>>, <<2, <<>>>>>>,
                        <<<<1, <<3>>>>, <<2, <<2>>>>, <<1, <<4, 2>>>>>>,
                        <<<<1, <<2>>>>, <<3, <<2>>>>, <<2, <<2>>>>>>}}
    \union {Many(3), Many(4)}
    \union {Container(sudo, args) : sudo \in BOOLEAN, args \in {<<>>, Args(1)}}

\* A step of the program: the communicators of step `on`, split by its members
\* with a color in `who`.
SplitBy(on, who, color(_), key(_), free) ==
    [on |-> on, who |-> who, color |-> [r \in Procs |-> color(r)],
     key |-> [r \in Procs |-> key(r)], free |-> free]

Same(r) == 0
Self(r) == r
Odd(r) == r % 2
Down(r) == 3 - r
All == {0, 1, UNDEFINED}

\* hello_4.cc with three levels.
Halves == <<SplitBy(0, All, Odd, Self, FALSE),
            SplitBy(1, All, LAMBDA r : r \div 2, Self, FALSE)>>

\* Equal keys, one rank left out; then only some split again, so that the
\* communicator of the third step has different handles.
Uneven == <<SplitBy(0, All, LAMBDA r : IF r = 1 THEN UNDEFINED ELSE 0, Same, TRUE),
            SplitBy(1, {0}, Odd, Down, FALSE),
            SplitBy(0, All, Same, LAMBDA r : r % 2, FALSE)>>

\* Rank 0 is alone in the first communicator; only the others split theirs.
Rest == <<SplitBy(0, All, LAMBDA r : IF r = 0 THEN 0 ELSE 1, Same, TRUE),
          SplitBy(1, {1}, Same, Same, TRUE),
          SplitBy(0, All, Odd, Same, FALSE)>>

SomePrograms == {<<>>, Halves, Uneven, Rest}

SomeRuns ==
    [job : Commands, program : {<<>>}] \union [job : {Many(4)}, program : {Halves}]
    \union [job : {Many(3)}, program : {Uneven, Rest}]
    \union [job : {OneNode(1, <<>>)}, program : {Halves}]

SomeTies == {[i \in 1..4 |-> i], [i \in 1..4 |-> 5 - i], [i \in 1..4 |-> 1 + (i % 4)]}
=============================================================================
