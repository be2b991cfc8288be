-------------------------- MODULE MCProviderRouting --------------------------
(* Two providers with two models each; one entry is left undiscovered.       *)
EXTENDS ProviderRouting

CONSTANTS ollama, nvidia, m1, m2

MCDiscovered == {<<ollama, m1>>, <<nvidia, m1>>, <<nvidia, m2>>}
=============================================================================
