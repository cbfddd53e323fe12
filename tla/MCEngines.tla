------------------------------ MODULE MCEngines ------------------------------
(* Two llama-server models on one port, and one vLLM model.                *)
EXTENDS Engines

MCSpecs ==
  {[name |-> "a", engine |-> "llamacpp", port |-> 1, vram |-> 1, kv |-> 1, typed |-> TRUE],
   [name |-> "v", engine |-> "vllm", port |-> 1, vram |-> 1, kv |-> 0, typed |-> TRUE],
   [name |-> "r", engine |-> "remote", port |-> 0, vram |-> 0, kv |-> 0, typed |-> TRUE]}
NoSpecs == {}
=============================================================================
