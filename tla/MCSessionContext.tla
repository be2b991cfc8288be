-------------------------- MODULE MCSessionContext --------------------------
EXTENDS SessionContext

\* Lengths on both sides of the limits of the code, and far from them.
MCTyped == {10, 20000}
MCContents == {5000}
MCExtras == {4000, 24000}
MCAnswers == {500, 9000, 20001}
MCOutputs == {100, 20001}

\* A short result, a long one, and one that is full of quotes.
Short == [raw |-> 2, quoted |-> 0]
Long == [raw |-> 2500, quoted |-> 0]
Quoted == [raw |-> 2500, quoted |-> 2000]
MCResults == {<<Short>>, <<Long, Quoted>>, <<Quoted, Quoted, Quoted>>}
=============================================================================
