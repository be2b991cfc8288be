---------------------------- MODULE MCModelDesk ----------------------------
(***************************************************************************)
(* A local provider with two models, of which one cannot call tools, and a *)
(* cloud provider with one.                                                *)
(***************************************************************************)
EXTENDS ModelDesk

CONSTANTS able, chatty, cloudy, q1, c1

MCProvider == {"ollama", "gemini"}
MCModel == {able, chatty, cloudy}
MCEntry == {<<"ollama", able>>, <<"ollama", chatty>>, <<"gemini", cloudy>>}
MCLocalEntry == {<<"ollama", able>>}
MCConfigured == [ollama |-> able, gemini |-> cloudy]
MCTests == <<"basic_response", "argument_compatibility", "file_creation", "security">>

\* The reply a test asks for, and one of a model that only talks.
Right(t) ==
    [text |-> TRUE, words |-> {t}, works |-> TRUE, arguments |-> {"path", "content"},
     tool |-> CASE t = "tool_calling" -> "list_directory"
                [] t = "file_modification" -> "modify_file"
                [] OTHER -> "create_file"]
Talk(t) == [Right(t) EXCEPT !.tool = "none", !.arguments = {}, !.works = FALSE]
Unnamed(t) == [Right(t) EXCEPT !.arguments = {"content"}, !.works = FALSE]

MCReplies ==
    [m \in MCModel |-> [t \in ToSet(MCTests) |->
        IF m = chatty THEN {Talk(t), Unnamed(t)} ELSE {Right(t), Talk(t)}]]

=============================================================================
