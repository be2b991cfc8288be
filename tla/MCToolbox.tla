------------------------------ MODULE MCToolbox ------------------------------
EXTENDS Toolbox

Requests == Permutations(Request)

T(t, a) == [tool |-> t, args |-> a]

\* Words are strings.
MCWord == STRING

\* Two files and a folder, with a file in it, the files also by relative paths.
MCResolves == [x \in {"/a", "a", "/b", "b", "/d"} |->
                 CASE x \in {"/a", "a"} -> "a" [] x \in {"/b", "b"} -> "b" [] OTHER -> "d"]
MCStr == [x \in {"#7"} |-> "7"]
MCPlan == [x \in {"app"} |-> <<<<"b", "x">>, <<"/etc", "x">>, <<"/a", "y">>>>]
MCTestOf == [p \in {"a", "b", "d", "d/a"} |-> "b"]

\* Only /a is copied into a folder.
MCInside == [pq \in {"a", "b", "d", "d/a"} \X {"a", "b", "d", "d/a"} |-> "d/a"]

\* One worker serves all requests.
MCWorkerOf == [x \in Request |-> "uvicorn"]

MCClaims == {{}, {"created"}, {"created", "executed", "fixed"}}

MCCall == {
    T("create_file", <<<<"file", "/b">>, <<"path", "/a">>, <<"content", "x">>>>),
    T("create_file", <<<<"path", "/a">>, <<"file_path", "/d">>, <<"text", "wide">>>>),
    T("write_file", <<<<"path", "a">>, <<"data", "y">>, <<"content", "#7">>,
                      <<"mode", "append">>>>),
    T("modify_file", <<<<"operation", "append">>, <<"path", "/a">>, <<"content", "y">>>>),
    T("modify_file", <<<<"path", "/a">>, <<"search", "x">>, <<"replacement", "y">>>>),
    T("modify_file", <<<<"path", "/a">>, <<"mode", "insert_before">>, <<"search", "y">>,
                       <<"content", "x">>>>),
    T("create_directory", <<<<"dir", "/d">>>>),
    T("file_delete", <<<<"path", "/a">>>>),
    T("file_copy", <<<<"src", "/a">>, <<"to", "/b">>>>),
    T("file_copy", <<<<"from", "/a">>, <<"destination", "/d">>>>),
    T("generate_tests", <<<<"src", "/a">>, <<"framework", "pytest">>>>),
    T("create_project", <<<<"path", "/d">>, <<"name", "app">>, <<"files", "app">>,
                          <<"directories", "">>>>),
    T("execute_command", <<<<"cmd", "make">>, <<"dir", "/d">>>>),
    T("read_file", <<<<"p", "/a">>>>) }
=============================================================================
