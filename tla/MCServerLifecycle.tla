--------------------------- MODULE MCServerLifecycle ---------------------------
(* Servers of examples/redis with the two models of hugot, one index.        *)
EXTENDS ServerLifecycle

TwoModelsEach == [s \in Servers |-> <<"embedding", "generative">>]

OneIndex == [s \in Servers |-> "ragserver-idx_dim384"]
===============================================================================
